-------------------------- MODULE UnifiedCacheProofs --------------------------
(***************************************************************************)
(* Proofs about the unified cache, in four parts that stand on each other. *)
(*                                                                         *)
(* First, what the steps change, and two things they never break: where    *)
(* the calls of a thread stand, with the thread that has gCacheMutex, and  *)
(* that one thread at a time creates the value of a key (CreatorInv).  The *)
(* effect lemmas say of one action each what it does to the thread that    *)
(* takes it, and that it leaves the other threads alone; all later proofs  *)
(* cite them and never expand the actions.                                 *)
(*                                                                         *)
(* Second, the reference counts are exact, and objects are deleted once.   *)
(* Every count is the cardinality of a set, so a step changes one by one   *)
(* exactly when it moves one element: the lemmas on changes say which.     *)
(* RefsInv is inductive because an object nobody has created is unknown to *)
(* everybody, and because nobody asks for a value it holds; DeletionInv    *)
(* because a count that is exact cannot reach zero twice.                  *)
(*                                                                         *)
(* Third, a client that holds a value of a key finds the same value under  *)
(* it again.  Every cached value has one master entry, under the key that  *)
(* created it; the keys that got it from there lead to that entry.         *)
(* ValueInv says so of what is cached, of what clients hold and of what is *)
(* on its way to them: the master of a value in use is never evicted, so   *)
(* the way there stays.                                                    *)
(*                                                                         *)
(* Fourth, fItemsInUseCount says how many values are held.  ItemsInv and   *)
(* SliceInv rest on the masters: only a value's first entry makes it count *)
(* as in use.                                                              *)
(***************************************************************************)
EXTENDS UnifiedCache, FiniteSetTheorems, SequenceTheorems, TLAPS

(* The types, with counts that might be negative. *)
Types ==
  /\ lock \in Thread \cup {Nobody}
  /\ Keys \subseteq Key /\ \A k \in Keys : table[k] \in Entry
  /\ items \in Int
  /\ policy \in Policies
  /\ life \in [Obj -> {"unborn", "live", "deleted"}]
  /\ hard \in [Obj -> Int] /\ soft \in [Obj -> Int] /\ total \in [Obj -> Int]
  /\ cached \in [Obj -> BOOLEAN]
  /\ pc \in [Thread -> {"idle", "poll", "create", "put", "slice",
                        "decTotal", "readCache", "decItems", "free", "flush"}]
  /\ waiting \subseteq Thread
  /\ stack \in [Thread -> Seq(Key)]
  /\ val \in [Thread -> Obj \cup {NoValue}]
  /\ status \in [Thread -> {"ok", "error"}]
  /\ held \in [Thread -> SUBSET (Key \X Obj)]
  /\ last \in [Thread -> BOOLEAN] /\ gone \in [Thread -> BOOLEAN]
  /\ left \in [Thread -> [evict : Nat, visit : Nat]]
  /\ todo \in [Thread -> SUBSET Key] /\ result \in [Thread -> BOOLEAN]
  /\ stale \in BOOLEAN

(* Where the calls of a thread stand: which step may be next with which     *)
(* open gets, and what its local variables mean there.  gCacheMutex is kept *)
(* from step to step by slices and flushes only.                            *)
CallShape(s) == Len(s) \in 0..2 /\ (Len(s) = 2 => Alias[s[1]] = s[2])
Removing(t) == \/ pc[t] \in {"decTotal", "readCache", "decItems", "free"}
               \/ pc[t] = "slice" /\ Len(stack[t]) = 0
Control(t) ==
   /\ CallShape(stack[t])
   /\ pc[t] \in {"poll", "create", "put"} => Len(stack[t]) > 0
   /\ pc[t] \in {"idle", "decTotal", "readCache", "decItems", "free", "flush"} => Len(stack[t]) = 0
   /\ Removing(t) => val[t] \in Obj
   /\ pc[t] \in {"idle", "poll", "create", "flush"} => val[t] = NoValue
   /\ pc[t] \in {"put", "slice"} /\ val[t] = NoValue => status[t] = "error"
   /\ last[t] => Removing(t)
   /\ gone[t] => Removing(t) /\ pc[t] # "decTotal"
   /\ pc[t] \in {"readCache", "decItems"} => last[t]
   /\ pc[t] = "slice" => left[t].evict > 0 /\ left[t].visit > 0
LockInv == \A t \in Thread : lock = t <=> pc[t] \in {"slice", "flush"}
ControlInv == Types /\ LockInv /\ \A t \in Thread : Control(t)

(* A thread has at most one createObject open inside another's get: what *)
(* the operators of the sequences module return on such a stack.         *)
LEMMA StackFacts ==
  ASSUME NEW s \in Seq(Key), CallShape(s)
  PROVE  /\ s = <<>> <=> Len(s) = 0
         /\ Len(s) > 0 => /\ Last(s) = s[Len(s)] /\ Last(s) \in Key /\ s[1] \in Key
                          /\ Front(s) \in Seq(Key) /\ Len(Front(s)) = Len(s) - 1
                          /\ Len(s) = 2 => Front(s)[1] = s[1] /\ s[2] \in Key /\ Alias[s[2]] = NoKey /\ Alias[s[1]] # NoKey
  <1>1. s = <<>> <=> Len(s) = 0
        BY EmptySeq
  <1>2. ASSUME Len(s) > 0 PROVE Front(s) \in Seq(Key) /\ Len(Front(s)) = Len(s) - 1 /\ (Len(s) = 2 => Front(s)[1] = s[1])
     <2>1. Len(s) \in Nat /\ \A i \in 1..(Len(s) - 1) : s[i] \in Key
        BY LenProperties, ElementOfSeq
     <2> DEFINE n == Len(s) - 1
     <2>n. n \in Nat
        BY <1>2, <2>1
     <2> HIDE DEF n
     <2>2. /\ SubSeq(s, 1, n) \in Seq(Key)
           /\ Len(SubSeq(s, 1, n)) = IF 1 <= n THEN n - 1 + 1 ELSE 0
           /\ \A i \in 1..(n - 1 + 1) : SubSeq(s, 1, n)[i] = s[1 + i - 1]
        BY <2>1, <2>n, SubSeqProperties DEF n
     <2>3. n = 1 => SubSeq(s, 1, n)[1] = s[1]
        BY <2>2
     <2>4. Len(SubSeq(s, 1, n)) = n
        BY <2>n, <2>2
     <2>5. Front(s) = SubSeq(s, 1, n)
        BY DEF Front, n
     <2>6. n = Len(s) - 1 /\ (Len(s) = 2 => n = 1)
        BY <2>1 DEF n
     <2> QED BY <2>2, <2>3, <2>4, <2>5, <2>6
  <1>3. ASSUME Len(s) > 0 PROVE Last(s) = s[Len(s)] /\ Last(s) \in Key /\ s[1] \in Key /\ (Len(s) = 2 => s[2] \in Key)
        BY <1>3, ElementOfSeq, LenProperties DEF Last
  <1>4. ASSUME Len(s) = 2 PROVE Alias[s[2]] = NoKey /\ Alias[s[1]] # NoKey
        BY <1>4, <1>3, AliasAssumption, NoKeyAssumption DEF CallShape
  <1> QED BY <1>1, <1>2, <1>3, <1>4

(* A step of one thread leaves the others where they are. *)
LEMMA ControlFrame ==
  ASSUME Types, Types', NEW t \in Thread, LockInv, \A u \in Thread : Control(u),
         \A u \in Thread \ {t} : /\ pc'[u] = pc[u] /\ stack'[u] = stack[u] /\ val'[u] = val[u] /\ status'[u] = status[u]
                                 /\ last'[u] = last[u] /\ gone'[u] = gone[u] /\ left'[u] = left[u],
         \/ lock' = lock
         \/ lock' = t /\ lock = Nobody
         \/ lock' = Nobody /\ lock = t,
         lock' = t <=> pc'[t] \in {"slice", "flush"},
         Control(t)'
  PROVE  LockInv' /\ \A u \in Thread : Control(u)'
  <1>1. ASSUME NEW u \in Thread \ {t} PROVE Control(u)'
     BY DEF Control, Removing
  <1>2. LockInv'
     BY NobodyAssumption DEF LockInv
  <1> QED BY <1>1, <1>2

(* A step of t and the variables a return, a slice's end or its start *)
(* touch.                                                             *)
OthersStay(t) == \A u \in Thread \ {t} :
   pc'[u] = pc[u] /\ stack'[u] = stack[u] /\ val'[u] = val[u] /\ status'[u] = status[u] /\ held'[u] = held[u]

(* What _get, slices and removeRef assign. *)
LocalTypes ==
  /\ pc \in [Thread -> {"idle", "poll", "create", "put", "slice",
                        "decTotal", "readCache", "decItems", "free", "flush"}]
  /\ stack \in [Thread -> Seq(Key)]
  /\ val \in [Thread -> Obj \cup {NoValue}]
  /\ status \in [Thread -> {"ok", "error"}]
  /\ held \in [Thread -> SUBSET (Key \X Obj)]

(* _computeCountOfItemsToEvict never asks for more than there are entries, *)
(* as long as the number of items in use is not negative.                  *)
LEMMA CountIsInt ==
  ASSUME policy \in Policies, NEW keys, IsFiniteSet(keys), NEW inUse \in Int
  PROVE  /\ CountOfItemsToEvict(keys, inUse) \in Int
         /\ inUse >= 0 => CountOfItemsToEvict(keys, inUse) <= Cardinality(keys)
  <1>1. policy[1] \in Nat /\ policy[2] \in Nat
     BY PolicyAssumption
  <1>2. Cardinality(keys) \in Nat
     BY FS_CardinalityType
  <1>3. (inUse * policy[2]) \div 100 \in Int
     BY <1>1
  <1> DEFINE d == (inUse * policy[2]) \div 100
  <1>4. MaxOf(policy[1], d) \in Int /\ MaxOf(policy[1], d) >= 0
     BY <1>1, <1>3 DEF MaxOf
  <1> HIDE DEF d
  <1>5. CountOfItemsToEvict(keys, inUse) = Cardinality(keys) - inUse - MaxOf(policy[1], d)
     BY DEF CountOfItemsToEvict, d
  <1> QED BY <1>2, <1>4, <1>5

(* One call less. *)
LEMMA OneLess ==
  ASSUME NEW n \in {0, 1, 2}, NEW m, n > 0 => m = n - 1
  PROVE  n > 0 => m \in {0, 1}
  OBVIOUS

(* The stack of a thread, as the invariant describes it. *)
LEMMA StackTypes ==
  ASSUME ControlInv, NEW t \in Thread
  PROVE  /\ stack[t] \in Seq(Key) /\ CallShape(stack[t]) /\ Len(stack[t]) \in {0, 1, 2}
         /\ stack[t] = <<>> <=> Len(stack[t]) = 0
         /\ Len(stack[t]) > 0 => /\ Last(stack[t]) = stack[t][Len(stack[t])]
                                 /\ Last(stack[t]) \in Key /\ stack[t][1] \in Key
                                 /\ Front(stack[t]) \in Seq(Key) /\ CallShape(Front(stack[t]))
                                 /\ Len(Front(stack[t])) = Len(stack[t]) - 1
         /\ Len(stack[t]) = 2 => /\ Front(stack[t])[1] = stack[t][1]
                                 /\ stack[t][2] = Alias[stack[t][1]] /\ stack[t][2] \in Key
                                 /\ Alias[stack[t][2]] = NoKey /\ Alias[stack[t][1]] # NoKey
  <1>1. stack[t] \in Seq(Key) /\ CallShape(stack[t])
     BY DEF ControlInv, Types, Control
  <1>2. Len(stack[t]) \in {0, 1, 2} /\ (Len(stack[t]) = 2 => stack[t][2] = Alias[stack[t][1]])
     BY <1>1 DEF CallShape
  <1> DEFINE s == stack[t]
  <1>a. s \in Seq(Key) /\ CallShape(s) /\ Len(s) \in {0, 1, 2}
     BY <1>1, <1>2
  <1> HIDE DEF s
  <1>b. Len(s) > 0 => Front(s) \in Seq(Key) /\ Len(Front(s)) = Len(s) - 1
     BY <1>a, StackFacts
  <1>3. Len(s) > 0 => Len(Front(s)) \in {0, 1}
     BY <1>a, <1>b, OneLess
  <1> QED BY <1>1, <1>2, <1>3, StackFacts DEF CallShape, s

(* The hash table is finite. *)
LEMMA KeysFinite == ASSUME Types PROVE IsFiniteSet(Keys) /\ Cardinality(Keys) \in Nat
                       /\ \A k \in Key : IsFiniteSet(Keys \cup {k})
  <1>1. IsFiniteSet(Keys)
     BY FS_Subset, FiniteAssumption DEF Types
  <1> QED BY <1>1, FS_CardinalityType, FS_AddElement

(* A step of t leaves the variables of the other threads alone. *)
Others(t) == \A u \in Thread \ {t} :
   /\ pc'[u] = pc[u] /\ stack'[u] = stack[u] /\ val'[u] = val[u] /\ status'[u] = status[u]
   /\ held'[u] = held[u] /\ last'[u] = last[u] /\ gone'[u] = gone[u] /\ left'[u] = left[u]

(* The entry of a key is under construction. *)
Under(k) == k \in Keys /\ InProgress(k)

(* The keys a thread at p is creating, by the calls it has open. *)
Named(s, p, k) ==
  \/ Len(s) = 1 /\ p \notin {"poll", "slice"} /\ k = s[1]
  \/ Len(s) = 2 /\ k = s[1]
  \/ Len(s) = 2 /\ p \notin {"poll", "slice"} /\ k = s[2]

(* The keys a thread is creating, without the set of indices. *)
LEMMA NamedKeys ==
  ASSUME NEW s, Len(s) \in {0, 1, 2}, NEW p
  PROVE  \A k : k \in {s[i] : i \in 1..(Len(s) - IF p \in {"poll", "slice"} THEN 1 ELSE 0)} <=> Named(s, p, k)
  <1> DEFINE l == Len(s)
             d == IF p \in {"poll", "slice"} THEN 1 ELSE 0
             n == l - d
  <1>1. l \in {0, 1, 2} /\ d \in {0, 1}
     OBVIOUS
  <1>2. \A k : Named(s, p, k) <=> \/ l = 1 /\ d = 0 /\ k = s[1]
                                  \/ l = 2 /\ k = s[1]
                                  \/ l = 2 /\ d = 0 /\ k = s[2]
     BY DEF Named
  <1>3. Len(s) = l
     OBVIOUS
  <1> HIDE DEF l, d
  <1>4. n \in {-1, 0, 1, 2}
     BY <1>1
  <1>5. /\ n >= 1 <=> l = 2 \/ (l = 1 /\ d = 0)
        /\ n = 2 <=> l = 2 /\ d = 0
     BY <1>1
  <1> HIDE DEF n
  <1>6. 1..n = {i \in {1, 2} : i <= n}
     BY <1>4
  <1>7. \A k : k \in {s[i] : i \in 1..n} <=> (n >= 1 /\ k = s[1]) \/ (n = 2 /\ k = s[2])
     BY <1>4, <1>6
  <1>8. \A k : k \in {s[i] : i \in 1..n} <=> Named(s, p, k)
     BY <1>2, <1>5, <1>7
  <1> QED BY <1>3, <1>8 DEF n, d

(* The same for the keys of a thread now ... *)
LEMMA CreatingNamed ==
  ASSUME ControlInv, NEW t \in Thread
  PROVE  \A k : k \in Creating(t) <=> Named(stack[t], pc[t], k)
  <1>1. Len(stack[t]) \in {0, 1, 2}
     BY StackTypes
  <1>2. Creating(t) = {stack[t][i] : i \in 1..(Len(stack[t]) - IF pc[t] \in {"poll", "slice"} THEN 1 ELSE 0)}
     BY DEF Creating
  <1> QED BY <1>1, <1>2, NamedKeys

(* ... and after a step. *)
LEMMA CreatingNamedNext ==
  ASSUME ControlInv', NEW t \in Thread
  PROVE  \A k : k \in Creating(t)' <=> Named(stack'[t], pc'[t], k)
  <1>1. Len(stack'[t]) \in {0, 1, 2}
     BY DEF ControlInv, Control, CallShape
  <1>2. Creating(t)' = {stack'[t][i] : i \in 1..(Len(stack'[t]) - IF pc'[t] \in {"poll", "slice"} THEN 1 ELSE 0)}
     BY DEF Creating
  <1> QED BY <1>1, <1>2, NamedKeys

(* What a client's get() changes. *)
LEMMA GetEffect ==
  ASSUME ControlInv, NEW t \in Thread, NEW k \in Key, Get(t, k)
  PROVE  /\ Types' /\ Others(t)
         /\ pc[t] = "idle" /\ pc'[t] = "poll" /\ Len(stack[t]) = 0 /\ Len(stack'[t]) = 1 /\ stack'[t][1] = k
         /\ \A h \in held[t] : h[1] # k
         /\ UNCHANGED <<lock, cacheVars, policy, objVars, waiting, held, localVars, stale>>
  <1>1. /\ pc' = [pc EXCEPT ![t] = "poll"] /\ stack' = [stack EXCEPT ![t] = <<k>>] /\ pc[t] = "idle"
        /\ \A h \in held[t] : h[1] # k
        /\ UNCHANGED <<lock, table, items, policy, life, hard, soft, total, cached, waiting, held,
                       val, status, last, gone, left, todo, result, stale>>
     BY DEF Get, Goto, cacheVars, objVars, localVars
  <1>2. <<k>> \in Seq(Key)
     OBVIOUS
  <1>3. Types'
     BY <1>1, <1>2 DEF ControlInv, Types, Keys
  <1>4. Len(stack[t]) = 0
     BY <1>1 DEF ControlInv, Control
  <1> QED BY <1>1, <1>2, <1>3, <1>4 DEF ControlInv, Types, Others, cacheVars, objVars, localVars

(* _get returned o with status r, to the client or into createObject. *)
Back(t, o, r) ==
  /\ Len(stack[t]) \in {1, 2}
  /\ Len(stack[t]) = 1 => /\ Len(stack'[t]) = 0
                          /\ pc'[t] = "idle" /\ val'[t] = NoValue
                          /\ held'[t] = IF o = NoValue THEN held[t] ELSE held[t] \cup {<<stack[t][1], o>>}
  /\ Len(stack[t]) = 2 => /\ Len(stack'[t]) = 1 /\ stack'[t][1] = stack[t][1]
                          /\ pc'[t] = "put" /\ val'[t] = o /\ status'[t] = r
                          /\ held'[t] = held[t]

(* _get returns: what its caller, the client or createObject, is left with. *)
LEMMA BackEffect ==
  ASSUME ControlInv, NEW t \in Thread, Len(stack[t]) > 0,
         NEW o \in Obj \cup {NoValue}, NEW r \in {"ok", "error"}, Return(t, o, r)
  PROVE  LocalTypes' /\ Back(t, o, r) /\ OthersStay(t)
  <1> DEFINE s == stack[t]
             f == Front(stack[t])
  <1>1. /\ s \in Seq(Key) /\ Last(s) \in Key /\ f \in Seq(Key)
        /\ Len(s) \in {1, 2} /\ Len(f) = Len(s) - 1
        /\ Len(s) = 1 => Last(s) = s[1]
        /\ Len(s) = 2 => f[1] = s[1]
     BY StackTypes
  <1>2. Types
     BY DEF ControlInv
  <1>3. CASE Len(s) = 1
    <2> DEFINE new == IF o = NoValue THEN held[t] ELSE held[t] \cup {<<s[1], o>>}
    <2>1. /\ pc' = [pc EXCEPT ![t] = "idle"] /\ stack' = [stack EXCEPT ![t] = f]
          /\ val' = [val EXCEPT ![t] = NoValue] /\ status' = [status EXCEPT ![t] = "ok"]
          /\ held' = [held EXCEPT ![t] = new]
      BY <1>1, <1>3 DEF Return, Goto
    <2>2. new \in SUBSET (Key \X Obj)
      BY <1>1, <1>2, <1>3 DEF Types
    <2> HIDE DEF new
    <2>3. LocalTypes'
      BY <1>1, <1>2, <2>1, <2>2 DEF Types, LocalTypes
    <2>4. OthersStay(t)
      BY <1>2, <2>1 DEF Types, OthersStay
    <2>5. Len(f) = 0
      BY <1>1, <1>3
    <2>6. stack'[t] = f /\ pc'[t] = "idle" /\ val'[t] = NoValue /\ held'[t] = new
      BY <1>2, <2>1 DEF Types
    <2> HIDE DEF f
    <2>7. Back(t, o, r)
      BY <1>3, <2>5, <2>6 DEF new, Back
    <2> QED BY <2>3, <2>4, <2>7
  <1>4. CASE Len(s) = 2
    <2>1. /\ pc' = [pc EXCEPT ![t] = "put"] /\ stack' = [stack EXCEPT ![t] = f]
          /\ val' = [val EXCEPT ![t] = o] /\ status' = [status EXCEPT ![t] = r] /\ held' = held
      BY <1>4 DEF Return, Goto
    <2>3. LocalTypes'
      BY <1>1, <1>2, <2>1 DEF Types, LocalTypes
    <2>4. OthersStay(t)
      BY <1>2, <2>1 DEF Types, OthersStay
    <2>5. Len(f) = 1
      BY <1>1, <1>4
    <2>6. stack'[t] = f /\ pc'[t] = "put" /\ val'[t] = o /\ status'[t] = r /\ held'[t] = held[t]
      BY <1>2, <2>1 DEF Types
    <2>7. f[1] = s[1]
      BY <1>1, <1>4
    <2> HIDE DEF f
    <2>8. Back(t, o, r)
      BY <1>4, <2>5, <2>6, <2>7 DEF Back
    <2> QED BY <2>3, <2>4, <2>8
  <1> QED BY <1>1, <1>3, <1>4

(* What a hit in _poll changes. *)
LEMMA PollHitsEffect ==
  ASSUME ControlInv, NEW t \in Thread, PollHits(t)
  PROVE  LET k == Last(stack[t])
             o == table[k].value
         IN /\ Types' /\ Others(t)
            /\ pc[t] = "poll" /\ lock = Nobody /\ k \in Keys /\ ~InProgress(k) /\ k = stack[t][Len(stack[t])]
            /\ table[k] \in Entry
            /\ \/ o = NoValue /\ UNCHANGED <<items, hard, total>>
               \/ o \in Obj /\ AddRef(o)
            /\ Back(t, o, table[k].status)
            /\ UNCHANGED <<lock, table, policy, life, soft, cached, waiting, last, gone,
                     left, todo, result, stale>>
  <1> DEFINE k == Last(stack[t])
             o == table[k].value
             r == table[k].status
  <1>1. /\ pc[t] = "poll" /\ lock = Nobody /\ k \in Keys /\ ~InProgress(k)
        /\ IF o = NoValue THEN UNCHANGED <<items, hard, total>> ELSE AddRef(o)
        /\ Return(t, o, r)
        /\ UNCHANGED <<lock, table, policy, life, soft, cached, waiting, last, gone,
                     left, todo, result, stale>>
     BY DEF PollHits
  <1>2. Len(stack[t]) > 0
     BY <1>1, StackTypes DEF ControlInv, Control
  <1>3. table[k] \in Entry /\ o \in Obj \cup {NoValue} /\ r \in {"ok", "error"}
     BY <1>1 DEF ControlInv, Types, Entry
  <1> k = stack[t][Len(stack[t])]
     BY <1>2, StackTypes
  <1> HIDE DEF o, r, k
  <1>4. LocalTypes' /\ Back(t, o, r) /\ OthersStay(t)
     BY <1>1, <1>2, <1>3, BackEffect
  <1>5. \/ o = NoValue /\ UNCHANGED <<items, hard, total>>
        \/ o \in Obj /\ AddRef(o)
     BY <1>1, <1>3
  <1>6. items' \in Int /\ hard' \in [Obj -> Int] /\ total' \in [Obj -> Int]
     BY <1>5, <1>3 DEF ControlInv, Types, AddRef
  <1>7. Types'
     BY <1>1, <1>4, <1>6 DEF ControlInv, Types, LocalTypes, Keys
  <1>8. Others(t)
     BY <1>1, <1>4 DEF Others, OthersStay
  <1> QED BY <1>1, <1>3, <1>4, <1>5, <1>7, <1>8 DEF k, o, r

(* A function that ran a slice is left, by _get's return or removeRef's *)
(* end.                                                                 *)
Ended(t) ==
  \/ Len(stack[t]) > 0 /\ Back(t, val[t], status[t])
  \/ /\ Len(stack[t]) = 0 /\ pc'[t] = "free"
     /\ stack'[t] = stack[t] /\ val'[t] = val[t] /\ status'[t] = status[t] /\ held'[t] = held[t]

(* What the end of a slice changes. *)
LEMMA EndEffect ==
  ASSUME ControlInv, NEW t \in Thread, EndSlice(t)
  PROVE  LocalTypes' /\ OthersStay(t) /\ Ended(t)
  <1>1. Types /\ (Len(stack[t]) = 0 \/ Len(stack[t]) > 0) /\ (stack[t] = <<>> <=> Len(stack[t]) = 0)
     BY StackTypes DEF ControlInv
  <1>2. CASE Len(stack[t]) > 0
    <2>1. Return(t, val[t], status[t])
      BY <1>1, <1>2 DEF EndSlice
    <2>2. val[t] \in Obj \cup {NoValue} /\ status[t] \in {"ok", "error"}
      BY <1>1 DEF Types
    <2> QED BY <1>2, <2>1, <2>2, BackEffect DEF Ended
  <1>3. CASE Len(stack[t]) = 0
    <2>1. pc' = [pc EXCEPT ![t] = "free"] /\ UNCHANGED <<stack, held, val, status>>
      BY <1>1, <1>3 DEF EndSlice, Goto
    <2>2. LocalTypes'
      BY <1>1, <2>1 DEF Types, LocalTypes
    <2>3. OthersStay(t) /\ Ended(t)
      BY <1>1, <1>3, <2>1 DEF Types, OthersStay, Ended
    <2> QED BY <2>2, <2>3
  <1> QED BY <1>1, <1>2, <1>3

(* A slice of n elements has started, or there was nothing to evict. *)
Started(t, n) ==
  \/ Ended(t) /\ n <= 0 /\ UNCHANGED <<lock, left>>
  \/ /\ n > 0 /\ lock' = t /\ pc'[t] = "slice"
     /\ left' = [left EXCEPT ![t] = [evict |-> n, visit |-> MAX_EVICT_ITERATIONS]]
     /\ stack'[t] = stack[t] /\ val'[t] = val[t] /\ status'[t] = status[t] /\ held'[t] = held[t]

(* _runEvictionSlice starts with something to evict or ends at once. *)
LEMMA StartEffect ==
  ASSUME ControlInv, NEW t \in Thread, NEW keys, IsFiniteSet(keys), NEW inUse \in Int,
         StartSlice(t, keys, inUse)
  PROVE  /\ LocalTypes' /\ OthersStay(t)
         /\ left' \in [Thread -> [evict : Nat, visit : Nat]]
         /\ \A u \in Thread \ {t} : left'[u] = left[u]
         /\ Started(t, CountOfItemsToEvict(keys, inUse))
         /\ CountOfItemsToEvict(keys, inUse) \in Int
  <1> DEFINE n == CountOfItemsToEvict(keys, inUse)
  <1>1. Types /\ n \in Int
     BY CountIsInt DEF ControlInv, Types
  <1>2. \/ n <= 0 /\ EndSlice(t) /\ UNCHANGED <<lock, left>>
        \/ /\ n > 0 /\ lock' = t /\ pc' = [pc EXCEPT ![t] = "slice"]
           /\ left' = [left EXCEPT ![t] = [evict |-> n, visit |-> MAX_EVICT_ITERATIONS]]
           /\ UNCHANGED <<stack, held, val, status>>
     BY <1>1 DEF StartSlice, Goto
  <1> HIDE DEF n
  <1>3. CASE n <= 0 /\ EndSlice(t) /\ UNCHANGED <<lock, left>>
    <2>1. LocalTypes' /\ OthersStay(t) /\ Ended(t)
      BY <1>3, EndEffect
    <2> QED BY <1>1, <1>3, <2>1 DEF Types, Started, n
  <1>4. CASE /\ n > 0 /\ lock' = t /\ pc' = [pc EXCEPT ![t] = "slice"]
             /\ left' = [left EXCEPT ![t] = [evict |-> n, visit |-> MAX_EVICT_ITERATIONS]]
             /\ UNCHANGED <<stack, held, val, status>>
    <2>1. LocalTypes'
      BY <1>1, <1>4 DEF Types, LocalTypes
    <2>2. OthersStay(t) /\ Started(t, n)
      BY <1>1, <1>4 DEF Types, OthersStay, Started
    <2>3. left' \in [Thread -> [evict : Nat, visit : Nat]] /\ \A u \in Thread \ {t} : left'[u] = left[u]
      BY <1>1, <1>4, IterationsAssumption DEF Types
    <2> QED BY <1>1, <2>1, <2>2, <2>3 DEF n
  <1> QED BY <1>2, <1>3, <1>4

(* What a miss in _poll changes: a new entry under construction, or no *)
(* memory for it.                                                      *)
LEMMA PollMissesEffect ==
  ASSUME ControlInv, NEW t \in Thread, PollMisses(t)
  PROVE  LET k == Last(stack[t])
         IN /\ Types' /\ Others(t)
            /\ pc[t] = "poll" /\ lock = Nobody /\ k \in Key \ Keys /\ k = stack[t][Len(stack[t])]
            /\ \/ /\ Keys' = Keys \cup {k}
                  /\ table'[k] = [value |-> NoValue, status |-> "ok", master |-> FALSE]
                  /\ \A j \in Keys : table'[j] = table[j]
                  /\ pc'[t] = "create"
                  /\ UNCHANGED <<stack, held, val, status>>
               \/ Back(t, NoValue, "error") /\ UNCHANGED table
            /\ UNCHANGED <<lock, items, policy, objVars, waiting, last, gone, left, todo,
                     result, stale>>
  <1> DEFINE k == Last(stack[t])
             new == [value |-> NoValue, status |-> "ok", master |-> FALSE]
  <1>1. /\ pc[t] = "poll" /\ lock = Nobody /\ k \notin Keys
        /\ \/ /\ table' = [j \in Keys \cup {k} |-> IF j = k THEN new ELSE table[j]]
              /\ pc' = [pc EXCEPT ![t] = "create"]
              /\ UNCHANGED <<stack, held, val, status>>
           \/ Return(t, NoValue, "error") /\ UNCHANGED table
        /\ UNCHANGED <<lock, items, policy, life, hard, soft, total, cached, waiting, last, gone, left, todo,
                     result, stale>>
     BY DEF PollMisses, Goto, objVars
  <1>2. Len(stack[t]) > 0
     BY <1>1, StackTypes DEF ControlInv, Control
  <1>3. k \in Key /\ k = stack[t][Len(stack[t])]
     BY <1>2, StackTypes
  <1>4. new \in Entry
     BY DEF Entry
  <1>5. Types
     BY DEF ControlInv
  <1> HIDE DEF k, new
  <1>6. CASE Return(t, NoValue, "error") /\ UNCHANGED table
    <2>1. LocalTypes' /\ Back(t, NoValue, "error") /\ OthersStay(t)
      BY <1>6, <1>2, BackEffect
    <2>2. Types'
      BY <1>1, <1>5, <1>6, <2>1 DEF Types, LocalTypes, Keys
    <2>3. Others(t)
      BY <1>1, <2>1 DEF Others, OthersStay
    <2> QED BY <1>1, <1>3, <1>6, <2>1, <2>2, <2>3 DEF k, objVars
  <1>7. CASE /\ table' = [j \in Keys \cup {k} |-> IF j = k THEN new ELSE table[j]]
             /\ pc' = [pc EXCEPT ![t] = "create"]
             /\ UNCHANGED <<stack, held, val, status>>
    <2>1. /\ Keys' = Keys \cup {k} /\ table'[k] = new
          /\ \A j \in Keys : table'[j] = table[j]
      BY <1>1, <1>7 DEF Keys
    <2>2. Keys' \subseteq Key /\ \A j \in Keys' : table'[j] \in Entry
      BY <1>3, <1>4, <1>5, <2>1 DEF Types
    <2>3. Types'
      BY <1>1, <1>5, <1>7, <2>2 DEF Types
    <2>4. Others(t) /\ pc'[t] = "create"
      BY <1>1, <1>5, <1>7 DEF Others, Types
    <2> QED BY <1>1, <1>3, <1>7, <2>1, <2>3, <2>4 DEF k, new, objVars
  <1> QED BY <1>1, <1>6, <1>7

(* The element of k is gone; its soft reference is; a visit does both or *)
(* nothing.                                                              *)
Removed(k) == Keys' = Keys \ {k} /\ \A j \in Keys \ {k} : table'[j] = table[j]
Dropped(o) ==
  \/ o = NoValue /\ UNCHANGED <<life, soft, total>>
  \/ /\ o \in Obj
     /\ soft' = [soft EXCEPT ![o] = @ - 1]
     /\ total' = [total EXCEPT ![o] = @ - 1]
     /\ life' = [life EXCEPT ![o] = IF total[o] = 1 THEN "deleted" ELSE @]
Visited(k) ==
  \/ IsEvictable(k) /\ Removed(k) /\ Dropped(table[k].value)
  \/ ~IsEvictable(k) /\ UNCHANGED <<table, life, soft, total>>

(* What one element of a slice or a flush changes. *)
LEMMA VisitEffect ==
  ASSUME Types, NEW k \in Keys,
         IF IsEvictable(k) THEN Evict(k) ELSE UNCHANGED <<table, life, soft, total>>
  PROVE  /\ Visited(k)
         /\ Keys' \subseteq Key /\ \A j \in Keys' : table'[j] \in Entry
         /\ life' \in [Obj -> {"unborn", "live", "deleted"}]
         /\ soft' \in [Obj -> Int] /\ total' \in [Obj -> Int]
  <1>1. CASE IsEvictable(k) /\ Evict(k)
    <2>1. table' = [j \in Keys \ {k} |-> table[j]] /\ (table[k].value = NoValue \/ table[k].value \in Obj)
      BY <1>1 DEF Evict, Types, Entry
    <2>2. Removed(k)
      BY <2>1 DEF Removed, Keys
    <2>3. Dropped(table[k].value)
      BY <1>1, <2>1, NoValueAssumption DEF Evict, Dropped
    <2>4. /\ life' \in [Obj -> {"unborn", "live", "deleted"}]
          /\ soft' \in [Obj -> Int] /\ total' \in [Obj -> Int]
      <3> DEFINE o == table[k].value
      <3>1. CASE o = NoValue /\ UNCHANGED <<life, soft, total>>
        BY <3>1 DEF Types
      <3>2. CASE /\ o \in Obj
                 /\ soft' = [soft EXCEPT ![o] = @ - 1]
                 /\ total' = [total EXCEPT ![o] = @ - 1]
                 /\ life' = [life EXCEPT ![o] = IF total[o] = 1 THEN "deleted" ELSE @]
        <4> HIDE DEF o
        <4> QED BY <3>2 DEF Types
      <3> QED BY <2>3, <3>1, <3>2 DEF Dropped
    <2>5. Keys' \subseteq Key /\ \A j \in Keys' : table'[j] \in Entry
      BY <2>2 DEF Removed, Types
    <2> QED BY <1>1, <2>2, <2>3, <2>4, <2>5 DEF Visited
  <1>2. CASE ~IsEvictable(k) /\ UNCHANGED <<table, life, soft, total>>
    BY <1>2 DEF Types, Visited, Keys
  <1> QED BY <1>1, <1>2

(* One element of _runEvictionSlice, and its end. *)
LEMMA SliceVisitEffect ==
  ASSUME ControlInv, NEW t \in Thread, NEW k \in Key, SliceVisit(t, k)
  PROVE  /\ Types' /\ Others(t)
         /\ pc[t] = "slice" /\ k \in Keys /\ Visited(k)
         /\ \/ /\ Ended(t) /\ lock' = Nobody
               /\ left' = [left EXCEPT ![t] = [evict |-> 0, visit |-> 0]]
            \/ /\ UNCHANGED <<lock, pc, stack, held, val, status>>
               /\ left'[t].evict = left[t].evict - IF IsEvictable(k) THEN 1 ELSE 0
               /\ left'[t].evict > 0 /\ left'[t].visit > 0
         /\ UNCHANGED <<items, policy, hard, cached, waiting, last, gone, todo, result, stale>>
  <1> DEFINE n == IF IsEvictable(k) THEN left[t].evict - 1 ELSE left[t].evict
             v == left[t].visit
  <1>1. /\ pc[t] = "slice" /\ k \in Keys
        /\ IF IsEvictable(k) THEN Evict(k) ELSE UNCHANGED <<table, life, soft, total>>
        /\ \/ /\ EndSlice(t) /\ lock' = Nobody
              /\ left' = [left EXCEPT ![t] = [evict |-> 0, visit |-> 0]]
           \/ /\ n # 0 /\ v # 1
              /\ left' = [left EXCEPT ![t] = [evict |-> n, visit |-> v - 1]]
              /\ UNCHANGED <<lock, pc, stack, held, val, status>>
        /\ UNCHANGED <<items, policy, hard, cached, waiting, last, gone, todo, result, stale>>
     BY DEF SliceVisit, ControlInv, Types
  <1>2. Types /\ left[t] \in [evict : Nat, visit : Nat] /\ left[t].evict > 0 /\ v > 0
     BY <1>1 DEF ControlInv, Types, Control
  <1>3. /\ Visited(k)
        /\ Keys' \subseteq Key /\ \A j \in Keys' : table'[j] \in Entry
        /\ life' \in [Obj -> {"unborn", "live", "deleted"}]
        /\ soft' \in [Obj -> Int] /\ total' \in [Obj -> Int]
     BY <1>1, <1>2, VisitEffect
  <1>4. /\ n \in Nat /\ v \in Nat
        /\ n = left[t].evict - IF IsEvictable(k) THEN 1 ELSE 0
     BY <1>2
  <1> HIDE DEF n, v
  <1>5. CASE /\ EndSlice(t) /\ lock' = Nobody
             /\ left' = [left EXCEPT ![t] = [evict |-> 0, visit |-> 0]]
    <2>1. LocalTypes' /\ OthersStay(t) /\ Ended(t)
      BY <1>5, EndEffect
    <2>2. Types'
      BY <1>1, <1>2, <1>3, <1>5, <2>1 DEF Types, LocalTypes
    <2>3. Others(t)
      BY <1>1, <1>2, <1>5, <2>1 DEF Others, OthersStay, Types
    <2> QED BY <1>1, <1>3, <1>5, <2>1, <2>2, <2>3
  <1>6. CASE /\ n # 0 /\ v # 1
             /\ left' = [left EXCEPT ![t] = [evict |-> n, visit |-> v - 1]]
             /\ UNCHANGED <<lock, pc, stack, held, val, status>>
    <2>1. v - 1 \in Nat /\ v - 1 > 0 /\ n > 0
      BY <1>2, <1>4, <1>6
    <2>2. Types'
      BY <1>1, <1>2, <1>3, <1>4, <1>6, <2>1 DEF Types
    <2>3. Others(t)
      BY <1>1, <1>2, <1>6 DEF Others, Types
    <2>4. left'[t].evict = n /\ left'[t].visit = v - 1
      BY <1>2, <1>6 DEF Types
    <2>5. /\ left'[t].evict = left[t].evict - IF IsEvictable(k) THEN 1 ELSE 0
          /\ left'[t].evict > 0 /\ left'[t].visit > 0
      BY <1>4, <2>1, <2>4
    <2> QED BY <1>1, <1>3, <1>6, <2>2, <2>3, <2>5
  <1> QED BY <1>1, <1>5, <1>6

(* One element of _flush. *)
LEMMA FlushVisitEffect ==
  ASSUME ControlInv, NEW t \in Thread, NEW k \in Key, FlushVisit(t, k), k \in Keys
  PROVE  /\ Types' /\ Others(t) /\ pc[t] = "flush" /\ Visited(k)
         /\ UNCHANGED <<lock, items, policy, hard, cached, waiting, pc, stack, held, val, status,
                 last, gone, left, stale>>
  <1>1. /\ pc[t] = "flush" /\ k \in todo[t]
        /\ IF IsEvictable(k) THEN Evict(k) ELSE UNCHANGED <<table, life, soft, total>>
        /\ todo' = [todo EXCEPT ![t] = @ \ {k}]
        /\ result' = [result EXCEPT ![t] = @ \/ IsEvictable(k)]
        /\ UNCHANGED <<lock, items, policy, hard, cached, waiting, pc, stack, held, val, status,
                 last, gone, left, stale>>
     BY DEF FlushVisit
  <1>2. Types
     BY DEF ControlInv
  <1>3. /\ Visited(k)
        /\ Keys' \subseteq Key /\ \A j \in Keys' : table'[j] \in Entry
        /\ life' \in [Obj -> {"unborn", "live", "deleted"}]
        /\ soft' \in [Obj -> Int] /\ total' \in [Obj -> Int]
     BY <1>1, <1>2, VisitEffect
  <1>4. todo' \in [Thread -> SUBSET Key] /\ result' \in [Thread -> BOOLEAN]
     <2>1. todo[t] \ {k} \in SUBSET Key
       BY <1>2 DEF Types
     <2>2. IsEvictable(k) \in BOOLEAN
       BY DEF IsEvictable
     <2>3. (result[t] \/ IsEvictable(k)) \in BOOLEAN
       OBVIOUS
     <2>4. todo' \in [Thread -> SUBSET Key]
       BY <1>1, <1>2, <2>1 DEF Types
     <2>5. result' \in [Thread -> BOOLEAN]
       BY <1>1, <1>2, <2>3 DEF Types
     <2> QED BY <2>4, <2>5
  <1>5. Types'
     BY <1>1, <1>2, <1>3, <1>4 DEF Types
  <1> QED BY <1>1, <1>3, <1>5 DEF Others

(* _put: the element of k has t's value. *)
Stored(t, k, master) ==
  /\ Keys' = Keys \cup {k}
  /\ table'[k] = [value |-> val[t], status |-> status[t], master |-> master]
  /\ \A j \in Keys \ {k} : table'[j] = table[j]

(* _putIfAbsentAndGet stores the thread's own value. *)
LEMMA PutStoresEffect ==
  ASSUME ControlInv, NEW t \in Thread, PutIfAbsentAndGet(t), InProgress(Last(stack[t]))
  PROVE  LET k == Last(stack[t])
             o == val[t]
             master == o # NoValue /\ soft[o] = 0
         IN /\ Types' /\ Others(t)
            /\ pc[t] = "put" /\ lock = Nobody /\ k \in Key /\ k = stack[t][Len(stack[t])] /\ Len(stack[t]) > 0
            /\ master \in BOOLEAN
            /\ Stored(t, k, master)
            /\ items' = items + IF master THEN 1 ELSE 0
            /\ \/ o = NoValue /\ UNCHANGED <<soft, total, cached>>
               \/ /\ o \in Obj
                  /\ soft' = [soft EXCEPT ![o] = @ + 1]
                  /\ total' = [total EXCEPT ![o] = @ + 1]
                  /\ cached' = [cached EXCEPT ![o] = @ \/ master]
            /\ items' \in Int
            /\ Started(t, CountOfItemsToEvict(Keys', items'))
            /\ CountOfItemsToEvict(Keys', items') \in Int
            /\ IsFiniteSet(Keys')
            /\ UNCHANGED <<policy, life, hard, last, gone, todo, result, stale>>
  <1> DEFINE k == Last(stack[t])
             o == val[t]
             master == o # NoValue /\ soft[o] = 0
             inUse == items + IF master THEN 1 ELSE 0
             keys == Keys \cup {k}
  <1>1. /\ pc[t] = "put" /\ lock = Nobody
        /\ table' = [j \in keys |->
                     IF j = k THEN [value |-> o, status |-> status[t], master |-> master]
                     ELSE table[j]]
        /\ items' = inUse
        /\ IF o = NoValue THEN UNCHANGED <<soft, total, cached>>
           ELSE /\ soft' = [soft EXCEPT ![o] = @ + 1]
                /\ total' = [total EXCEPT ![o] = @ + 1]
                /\ cached' = [cached EXCEPT ![o] = @ \/ master]
        /\ waiting' = AsleepAfterPut(k)
        /\ StartSlice(t, keys, inUse)
        /\ UNCHANGED <<policy, life, hard, last, gone, todo, result, stale>>
     BY DEF PutIfAbsentAndGet, PutStores
  <1>2. Types /\ Len(stack[t]) > 0
     BY <1>1, StackTypes DEF ControlInv, Control
  <1>3. k \in Key /\ k = stack[t][Len(stack[t])]
     BY <1>2, StackTypes
  <1>4. o \in Obj \cup {NoValue} /\ status[t] \in {"ok", "error"} /\ master \in BOOLEAN
     BY <1>2 DEF Types
  <1> HIDE DEF k, master
  <1>5. inUse \in Int /\ IsFiniteSet(keys)
     <2>1. items \in Int
        BY <1>2 DEF Types
     <2>2. inUse \in Int
        BY <1>4, <2>1
     <2> QED BY <1>2, <1>3, <2>2, KeysFinite
  <1> HIDE DEF inUse, keys
  <1>6. /\ LocalTypes' /\ OthersStay(t)
        /\ left' \in [Thread -> [evict : Nat, visit : Nat]]
        /\ \A u \in Thread \ {t} : left'[u] = left[u]
        /\ Started(t, CountOfItemsToEvict(keys, inUse))
        /\ CountOfItemsToEvict(keys, inUse) \in Int
     BY <1>1, <1>5, StartEffect
  <1>7. Stored(t, k, master) /\ Keys' = keys
     BY <1>1 DEF Stored, Keys, keys
  <1>8. Keys' \subseteq Key /\ \A j \in Keys' : table'[j] \in Entry
     <2>1. [value |-> val[t], status |-> status[t], master |-> master] \in Entry
        BY <1>4 DEF Entry
     <2> QED BY <1>2, <1>3, <1>7, <2>1 DEF Stored, Types
  <1>9. \/ o = NoValue /\ UNCHANGED <<soft, total, cached>>
        \/ /\ o \in Obj
           /\ soft' = [soft EXCEPT ![o] = @ + 1]
           /\ total' = [total EXCEPT ![o] = @ + 1]
           /\ cached' = [cached EXCEPT ![o] = @ \/ master]
     BY <1>1, <1>4
  <1>10. /\ soft' \in [Obj -> Int] /\ total' \in [Obj -> Int]
         /\ cached' \in [Obj -> BOOLEAN]
     <2>1. (cached[o] \/ master) \in BOOLEAN
        OBVIOUS
     <2> HIDE DEF o
     <2>2. /\ soft' \in [Obj -> Int] /\ total' \in [Obj -> Int]
        BY <1>2, <1>4, <1>9 DEF Types
     <2>3. cached' \in [Obj -> BOOLEAN]
        BY <1>2, <1>9, <2>1 DEF Types
     <2> QED BY <2>2, <2>3
  <1>11. lock' \in Thread \cup {Nobody} /\ waiting' \subseteq Thread
     BY <1>1, <1>2, <1>6 DEF Started, Types, AsleepAfterPut
  <1>12. Types'
     BY <1>1, <1>2, <1>5, <1>6, <1>8, <1>10, <1>11 DEF Types, LocalTypes
  <1>13. Others(t)
     BY <1>1, <1>6 DEF Others, OthersStay
  <1>14. Started(t, CountOfItemsToEvict(Keys', items')) /\ CountOfItemsToEvict(Keys', items') \in Int
     BY <1>1, <1>6, <1>7
  <1>15. items' = items + IF master THEN 1 ELSE 0
     BY <1>1 DEF inUse
  <1> QED BY <1>1, <1>2, <1>3, <1>4, <1>5, <1>7, <1>9, <1>12, <1>13, <1>14, <1>15 DEF k, master

(* decrementItemsInUseWithLockingAndEviction. *)
LEMMA DecItemsEffect ==
  ASSUME ControlInv, NEW t \in Thread, DecItems(t)
  PROVE  /\ Types' /\ Others(t)
         /\ pc[t] = "decItems" /\ lock = Nobody /\ items' = items - 1 /\ Len(stack[t]) = 0
         /\ Started(t, CountOfItemsToEvict(Keys, items - 1))
         /\ CountOfItemsToEvict(Keys, items - 1) \in Int
         /\ UNCHANGED <<table, policy, objVars, waiting, last, gone, todo, result, stale>>
  <1>1. /\ pc[t] = "decItems" /\ lock = Nobody
        /\ items' = items - 1
        /\ StartSlice(t, Keys, items - 1)
        /\ UNCHANGED <<table, policy, life, hard, soft, total, cached, waiting, last, gone, todo, result, stale>>
     BY DEF DecItems, objVars
  <1>2. Types /\ Len(stack[t]) = 0 /\ IsFiniteSet(Keys) /\ items - 1 \in Int
     BY <1>1, KeysFinite, SMTT(30) DEF ControlInv, Control, Types
  <1>3. /\ LocalTypes' /\ OthersStay(t)
        /\ left' \in [Thread -> [evict : Nat, visit : Nat]]
        /\ \A u \in Thread \ {t} : left'[u] = left[u]
        /\ Started(t, CountOfItemsToEvict(Keys, items - 1))
        /\ CountOfItemsToEvict(Keys, items - 1) \in Int
     BY <1>1, <1>2, StartEffect
  <1>4. lock' \in Thread \cup {Nobody}
     BY <1>1, <1>2, <1>3 DEF Started, Types
  <1>5. Types'
     BY <1>1, <1>2, <1>3, <1>4 DEF Types, LocalTypes, Keys
  <1>6. Others(t)
     BY <1>1, <1>3 DEF Others, OthersStay
  <1> QED BY <1>1, <1>2, <1>3, <1>5, <1>6 DEF objVars

(* A flush visits elements that are there. *)
TodoInv == \A t \in Thread : pc[t] = "flush" => todo[t] \subseteq Keys

(* A step of one thread keeps the control invariant if that thread's own *)
(* part and the lock do.                                                 *)
LEMMA ControlFramed ==
  ASSUME ControlInv, Types', NEW t \in Thread, Others(t),
         \/ lock' = lock
         \/ lock' = t /\ lock = Nobody
         \/ lock' = Nobody /\ lock = t,
         lock' = t <=> pc'[t] \in {"slice", "flush"},
         Control(t)'
  PROVE  ControlInv'
  <1>1. LockInv' /\ \A u \in Thread : Control(u)'
     BY ControlFrame DEF ControlInv, Others
  <1> QED BY <1>1 DEF ControlInv

(* _get returns with an error or a value. *)
LEMMA ControlBack ==
  ASSUME ControlInv, NEW t \in Thread, Len(stack[t]) > 0,
         NEW o \in Obj \cup {NoValue}, NEW r \in {"ok", "error"}, Back(t, o, r), o = NoValue => r = "error",
         UNCHANGED <<last, gone>>, ~last[t], ~gone[t]
  PROVE  Control(t)' /\ pc'[t] \notin {"slice", "flush"}
  <1>1. Len(stack[t]) \in {1, 2}
     BY DEF Back
  <1>2. CASE Len(stack[t]) = 1
     BY <1>2 DEF Back, Control, CallShape, Removing
  <1>3. CASE Len(stack[t]) = 2
     BY <1>3 DEF Back, Control, CallShape, Removing
  <1> QED BY <1>1, <1>2, <1>3

(* The end of a slice keeps the control of its thread. *)
LEMMA ControlEnded ==
  ASSUME ControlInv, NEW t \in Thread, Ended(t), UNCHANGED <<last, gone>>,
         pc[t] \in {"put", "slice", "decItems"}
  PROVE  Control(t)' /\ pc'[t] \notin {"slice", "flush"}
  <1>1. Control(t) /\ val[t] \in Obj \cup {NoValue} /\ status[t] \in {"ok", "error"} /\ NoValue \notin Obj
     BY NoValueAssumption DEF ControlInv, Types
  <1>2. CASE Len(stack[t]) > 0 /\ Back(t, val[t], status[t])
     <2>1. val[t] = NoValue => status[t] = "error"
        BY <1>1, <1>2 DEF Control
     <2>2. ~last[t] /\ ~gone[t]
        <3> DEFINE l == Len(stack[t])
        <3>1. l # 0
           BY <1>2
        <3> HIDE DEF l
        <3>2. pc[t] # "decItems"
           BY <1>1, <3>1 DEF Control, l
        <3> QED BY <1>1, <3>1, <3>2 DEF Control, Removing, l
     <2> QED BY <1>1, <1>2, <2>1, <2>2, ControlBack
  <1>3. CASE /\ Len(stack[t]) = 0 /\ pc'[t] = "free"
             /\ stack'[t] = stack[t] /\ val'[t] = val[t] /\ status'[t] = status[t] /\ held'[t] = held[t]
     BY <1>1, <1>3 DEF Control, CallShape, Removing
  <1> QED BY <1>2, <1>3 DEF Ended

(* So does its start. *)
LEMMA ControlStarted ==
  ASSUME ControlInv, Types', NEW t \in Thread, Others(t), lock = Nobody,
         pc[t] \in {"put", "decItems"}, NEW n \in Int, Started(t, n), UNCHANGED <<last, gone>>
  PROVE  ControlInv'
  <1>1. Control(t) /\ pc[t] \notin {"slice", "flush"} /\ lock # t /\ Nobody # t
     BY NobodyAssumption DEF ControlInv
  <1>2. CASE Ended(t) /\ UNCHANGED <<lock, left>>
     <2>1. Control(t)' /\ pc'[t] \notin {"slice", "flush"}
       BY <1>2, ControlEnded
     <2> QED BY <1>1, <1>2, <2>1, ControlFramed
  <1>3. CASE /\ n > 0 /\ lock' = t /\ pc'[t] = "slice"
             /\ left' = [left EXCEPT ![t] = [evict |-> n, visit |-> MAX_EVICT_ITERATIONS]]
             /\ stack'[t] = stack[t] /\ val'[t] = val[t] /\ status'[t] = status[t] /\ held'[t] = held[t]
     <2>1. left'[t].evict > 0 /\ left'[t].visit > 0
       BY <1>3, IterationsAssumption DEF ControlInv, Types
     <2>2. Removing(t)' <=> Len(stack[t]) = 0
       BY <1>3 DEF Removing
     <2>3. Removing(t) => Len(stack[t]) = 0
       BY <1>1, <1>3 DEF Removing, Control
     <2>4. Len(stack[t]) = 0 => Removing(t)
       BY <1>1 DEF Control, Removing
     <2>5. Control(t)'
       <3>1. CallShape(stack[t])'
         BY <1>1, <1>3 DEF Control, CallShape
       <3>2. (Removing(t) => val[t] \in Obj)' /\ (val'[t] = NoValue => status'[t] = "error")
         BY <1>1, <1>3, <2>2, <2>4, NoValueAssumption DEF Control, Removing
       <3>3. (last[t] => Removing(t))' /\ (gone[t] => Removing(t))'
         BY <1>1, <2>2, <2>3 DEF Control
       <3> QED BY <1>3, <2>1, <3>1, <3>2, <3>3 DEF Control
     <2> QED BY <1>3, <2>5, ControlFramed
  <1> QED BY <1>2, <1>3 DEF Started

(* Only removeRef knows of references it was the last to give up. *)
LEMMA NotRemoving ==
  ASSUME ControlInv, NEW t \in Thread, ~Removing(t)
  PROVE  ~last[t] /\ ~gone[t]
  BY DEF ControlInv, Control

(* createObject asks for another key's value. *)
LEMMA CreateFromCacheEffect ==
  ASSUME ControlInv, NEW t \in Thread, CreateFromCache(t)
  PROVE  /\ Types' /\ Others(t)
         /\ pc[t] = "create" /\ pc'[t] = "poll" /\ Len(stack[t]) = 1 /\ Len(stack'[t]) = 2
         /\ stack'[t][1] = stack[t][1] /\ stack'[t][2] = Alias[stack[t][1]] /\ Alias[stack[t][1]] # NoKey
         /\ UNCHANGED <<lock, cacheVars, policy, objVars, waiting, held, localVars, stale>>
  <1> DEFINE s == stack[t]
             k == Last(s)
             a == Alias[k]
  <1>1. /\ pc[t] = "create" /\ a # NoKey
        /\ pc' = [pc EXCEPT ![t] = "poll"]
        /\ stack' = [stack EXCEPT ![t] = Append(s, a)]
        /\ UNCHANGED <<lock, table, items, policy, life, hard, soft, total, cached, waiting, held,
                       val, status, last, gone, left, todo, result, stale>>
     BY DEF CreateFromCache, Goto, cacheVars, objVars, localVars, ControlInv, Types
  <1>2. Len(s) > 0 /\ s \in Seq(Key) /\ Len(s) \in {0, 1, 2}
     BY <1>1, StackTypes DEF ControlInv, Control
  <1>3. k \in Key /\ k = s[Len(s)] /\ (Len(s) = 2 => Alias[s[2]] = NoKey)
     BY <1>2, StackTypes
  <1>4. Len(s) = 1
     BY <1>1, <1>2, <1>3
  <1>5. a \in Key /\ k = s[1]
     BY <1>1, <1>3, <1>4, AliasAssumption
  <1> HIDE DEF a, s, k
  <1>6. /\ Append(s, a) \in Seq(Key) /\ Len(Append(s, a)) = 2
        /\ Append(s, a)[1] = s[1] /\ Append(s, a)[2] = a
     <2>1. /\ Append(s, a) \in Seq(Key) /\ Len(Append(s, a)) = Len(s) + 1
           /\ \A i \in 1..Len(s) : Append(s, a)[i] = s[i]
           /\ Append(s, a)[Len(s) + 1] = a
        BY <1>2, <1>5, AppendProperties
     <2>2. 1 \in 1..1 /\ 1 + 1 = 2
        OBVIOUS
     <2> QED BY <1>4, <2>1, <2>2
  <1>7. Types'
     BY <1>1, <1>6 DEF ControlInv, Types, Keys
  <1>8. stack'[t] = Append(s, a) /\ pc'[t] = "poll" /\ Others(t)
     BY <1>1 DEF ControlInv, Types, Others
  <1> QED BY <1>1, <1>4, <1>5, <1>6, <1>7, <1>8 DEF s, a, k, cacheVars, objVars, localVars

(* createObject makes an object. *)
LEMMA CreateNewEffect ==
  ASSUME ControlInv, NEW t \in Thread, NEW o \in Obj, CreateNew(t, o)
  PROVE  /\ Types' /\ Others(t)
         /\ pc[t] = "create" /\ pc'[t] = "put" /\ Len(stack[t]) \in {1, 2}
         /\ Alias[stack[t][Len(stack[t])]] = NoKey
         /\ val[t] = NoValue /\ val'[t] = o /\ status'[t] = "ok"
         /\ life[o] = "unborn"
         /\ life' = [life EXCEPT ![o] = "live"]
         /\ hard' = [hard EXCEPT ![o] = 1] /\ total' = [total EXCEPT ![o] = 1]
         /\ UNCHANGED <<lock, cacheVars, policy, soft, cached, waiting, stack, held, last,
                 gone, left, todo, result, stale>>
  <1>1. /\ pc[t] = "create" /\ life[o] = "unborn" /\ Alias[Last(stack[t])] = NoKey
        /\ life' = [life EXCEPT ![o] = "live"]
        /\ hard' = [hard EXCEPT ![o] = 1] /\ total' = [total EXCEPT ![o] = 1]
        /\ pc' = [pc EXCEPT ![t] = "put"]
        /\ val' = [val EXCEPT ![t] = o] /\ status' = [status EXCEPT ![t] = "ok"]
        /\ UNCHANGED <<lock, table, items, policy, soft, cached, waiting, stack, held, last,
                 gone, left, todo, result, stale>>
     BY DEF CreateNew, Goto, cacheVars
  <1>2. Len(stack[t]) > 0 /\ Len(stack[t]) \in {0, 1, 2} /\ val[t] = NoValue
     BY <1>1, StackTypes DEF ControlInv, Control
  <1>3. Len(stack[t]) \in {1, 2} /\ Last(stack[t]) = stack[t][Len(stack[t])]
     BY <1>2, StackTypes
  <1>4. Types'
     BY <1>1 DEF ControlInv, Types, Keys
  <1>5. Others(t) /\ pc'[t] = "put" /\ val'[t] = o /\ status'[t] = "ok"
     BY <1>1 DEF ControlInv, Types, Others
  <1> QED BY <1>1, <1>2, <1>3, <1>4, <1>5 DEF cacheVars

(* createObject fails. *)
LEMMA CreateFailsEffect ==
  ASSUME ControlInv, NEW t \in Thread, CreateFails(t)
  PROVE  /\ Types' /\ Others(t)
         /\ pc[t] = "create" /\ pc'[t] = "put" /\ Len(stack[t]) \in {1, 2}
         /\ Alias[stack[t][Len(stack[t])]] = NoKey
         /\ val[t] = NoValue /\ val'[t] = NoValue /\ status'[t] = "error"
         /\ UNCHANGED <<lock, cacheVars, policy, objVars, waiting, stack, held, last, gone,
                 left, todo, result, stale>>
  <1>1. /\ pc[t] = "create" /\ Alias[Last(stack[t])] = NoKey
        /\ pc' = [pc EXCEPT ![t] = "put"]
        /\ val' = [val EXCEPT ![t] = NoValue] /\ status' = [status EXCEPT ![t] = "error"]
        /\ UNCHANGED <<lock, table, items, policy, life, hard, soft, total, cached, waiting, stack, held, last, gone,
                 left, todo, result, stale>>
     BY DEF CreateFails, Goto, cacheVars, objVars
  <1>2. Len(stack[t]) > 0 /\ Len(stack[t]) \in {0, 1, 2} /\ val[t] = NoValue
     BY <1>1, StackTypes DEF ControlInv, Control
  <1>3. Len(stack[t]) \in {1, 2} /\ Last(stack[t]) = stack[t][Len(stack[t])]
     BY <1>2, StackTypes
  <1>4. Types'
     BY <1>1 DEF ControlInv, Types, Keys
  <1>5. Others(t) /\ pc'[t] = "put" /\ val'[t] = NoValue /\ status'[t] = "error"
     BY <1>1 DEF ControlInv, Types, Others
  <1> QED BY <1>1, <1>2, <1>3, <1>4, <1>5 DEF cacheVars, objVars

(* removeRef gives up one of the client's references. *)
LEMMA RemoveRefEffect ==
  ASSUME ControlInv, NEW t \in Thread, RemoveRef(t)
  PROVE  \E h \in held[t] :
         /\ Types' /\ Others(t)
         /\ pc[t] = "idle" /\ pc'[t] = "decTotal" /\ Len(stack[t]) = 0
         /\ h = <<h[1], h[2]>> /\ h[1] \in Key /\ h[2] \in Obj
         /\ held'[t] = held[t] \ {h}
         /\ hard' = [hard EXCEPT ![h[2]] = @ - 1]
         /\ last'[t] = (hard[h[2]] = 1)
         /\ val[t] = NoValue /\ val'[t] = h[2]
         /\ UNCHANGED <<lock, cacheVars, policy, life, soft, total, cached, waiting, stack,
                 status, gone, left, todo, result, stale>>
  <1>1. PICK h \in held[t] :
        /\ pc[t] = "idle"
        /\ held' = [held EXCEPT ![t] = @ \ {h}]
        /\ hard' = [hard EXCEPT ![h[2]] = @ - 1]
        /\ last' = [last EXCEPT ![t] = hard[h[2]] = 1]
        /\ val' = [val EXCEPT ![t] = h[2]]
        /\ pc' = [pc EXCEPT ![t] = "decTotal"]
        /\ UNCHANGED <<lock, table, items, policy, life, soft, total, cached, waiting, stack,
                 status, gone, left, todo, result, stale>>
     BY DEF RemoveRef, Goto, cacheVars
  <1>2. h = <<h[1], h[2]>> /\ h[1] \in Key /\ h[2] \in Obj
     BY DEF ControlInv, Types
  <1>3. Len(stack[t]) = 0 /\ val[t] = NoValue
     BY <1>1 DEF ControlInv, Control
  <1>4. (hard[h[2]] = 1) \in BOOLEAN /\ held[t] \ {h} \in SUBSET (Key \X Obj)
     BY DEF ControlInv, Types
  <1>5. Types'
     <2>1. held' \in [Thread -> SUBSET (Key \X Obj)]
        BY <1>1, <1>4 DEF ControlInv, Types
     <2>2. last' \in [Thread -> BOOLEAN]
        BY <1>1, <1>4 DEF ControlInv, Types
     <2>3. hard' \in [Obj -> Int] /\ val' \in [Thread -> Obj \cup {NoValue}]
        BY <1>1, <1>2 DEF ControlInv, Types
     <2> QED BY <1>1, <2>1, <2>2, <2>3 DEF ControlInv, Types, Keys
  <1>6. Others(t) /\ pc'[t] = "decTotal" /\ val'[t] = h[2] /\ held'[t] = held[t] \ {h} /\ last'[t] = (hard[h[2]] = 1)
     BY <1>1 DEF ControlInv, Types, Others
  <1> QED BY <1>1, <1>2, <1>3, <1>5, <1>6 DEF cacheVars

(* The second decrement of removeRef. *)
LEMMA DecTotalEffect ==
  ASSUME ControlInv, NEW t \in Thread, DecTotal(t)
  PROVE  /\ Types' /\ Others(t)
         /\ pc[t] = "decTotal" /\ Len(stack[t]) = 0 /\ val[t] \in Obj
         /\ pc'[t] = IF last[t] THEN "readCache" ELSE "free"
         /\ total' = [total EXCEPT ![val[t]] = @ - 1]
         /\ gone'[t] = (total[val[t]] = 1)
         /\ UNCHANGED <<lock, cacheVars, policy, life, hard, soft, cached, waiting, stack, held,
                 val, status, last, left, todo, result, stale>>
  <1>1. /\ pc[t] = "decTotal"
        /\ total' = [total EXCEPT ![val[t]] = @ - 1]
        /\ gone' = [gone EXCEPT ![t] = total[val[t]] = 1]
        /\ pc' = [pc EXCEPT ![t] = IF last[t] THEN "readCache" ELSE "free"]
        /\ UNCHANGED <<lock, table, items, policy, life, hard, soft, cached, waiting, stack, held,
                 val, status, last, left, todo, result, stale>>
     BY DEF DecTotal, Goto, cacheVars
  <1>2. Len(stack[t]) = 0 /\ val[t] \in Obj
     BY <1>1 DEF ControlInv, Control, Removing
  <1>3. (total[val[t]] = 1) \in BOOLEAN
     OBVIOUS
  <1>4. Types'
     <2>1. gone' \in [Thread -> BOOLEAN]
        BY <1>1, <1>3 DEF ControlInv, Types
     <2>2. pc' \in [Thread -> {"idle", "poll", "create", "put", "slice",
                        "decTotal", "readCache", "decItems", "free", "flush"}]
        BY <1>1 DEF ControlInv, Types
     <2> QED BY <1>1, <1>2, <2>1, <2>2 DEF ControlInv, Types, Keys
  <1>5. Others(t) /\ pc'[t] = (IF last[t] THEN "readCache" ELSE "free") /\ gone'[t] = (total[val[t]] = 1)
     BY <1>1 DEF ControlInv, Types, Others
  <1> QED BY <1>1, <1>2, <1>4, <1>5 DEF cacheVars

(* removeRef reads cachePtr, perhaps of a deleted object. *)
LEMMA ReadCachePtrEffect ==
  ASSUME ControlInv, NEW t \in Thread, ReadCachePtr(t)
  PROVE  /\ Types' /\ Others(t)
         /\ pc[t] = "readCache" /\ Len(stack[t]) = 0 /\ val[t] \in Obj /\ last[t]
         /\ stale' = (stale \/ life[val[t]] = "deleted")
         /\ pc'[t] \in {"decItems", "free"}
         /\ pc'[t] = "decItems" => cached[val[t]]
         /\ pc'[t] = "free" => ~cached[val[t]] \/ stale'
         /\ UNCHANGED <<lock, cacheVars, policy, objVars, waiting, stack, held, localVars>>
  <1>1. PICK seen \in {cached[val[t]]} \cup (IF life[val[t]] = "deleted" THEN {FALSE} ELSE {}) :
        /\ pc[t] = "readCache"
        /\ stale' = (stale \/ life[val[t]] = "deleted")
        /\ pc' = [pc EXCEPT ![t] = IF seen THEN "decItems" ELSE "free"]
        /\ UNCHANGED <<lock, table, items, policy, life, hard, soft, total, cached, waiting, stack, held,
                       val, status, last, gone, left, todo, result>>
     BY DEF ReadCachePtr, Goto, cacheVars, objVars, localVars
  <1>2. Len(stack[t]) = 0 /\ val[t] \in Obj /\ last[t]
     BY <1>1 DEF ControlInv, Control, Removing
  <1>3. stale' \in BOOLEAN /\ cached[val[t]] \in BOOLEAN
     BY <1>1, <1>2 DEF ControlInv, Types
  <1>4. seen => cached[val[t]]
     BY <1>3
  <1>5. ~seen => ~cached[val[t]] \/ stale'
     BY <1>1, <1>3
  <1>6. Types'
     BY <1>1, <1>3 DEF ControlInv, Types, Keys
  <1>7. Others(t) /\ pc'[t] = (IF seen THEN "decItems" ELSE "free")
     BY <1>1 DEF ControlInv, Types, Others
  <1> QED BY <1>1, <1>2, <1>4, <1>5, <1>6, <1>7 DEF cacheVars, objVars, localVars

(* The end of removeRef. *)
LEMMA FreeEffect ==
  ASSUME ControlInv, NEW t \in Thread, Free(t)
  PROVE  /\ Types' /\ Others(t)
         /\ pc[t] = "free" /\ pc'[t] = "idle" /\ Len(stack[t]) = 0 /\ val[t] \in Obj /\ val'[t] = NoValue
         /\ last'[t] = FALSE /\ gone'[t] = FALSE
         /\ life' = IF gone[t] THEN [life EXCEPT ![val[t]] = "deleted"] ELSE life
         /\ UNCHANGED <<lock, cacheVars, policy, hard, soft, total, cached, waiting, stack, held,
                 status, left, todo, result, stale>>
  <1>1. /\ pc[t] = "free"
        /\ life' = IF gone[t] THEN [life EXCEPT ![val[t]] = "deleted"] ELSE life
        /\ pc' = [pc EXCEPT ![t] = "idle"]
        /\ val' = [val EXCEPT ![t] = NoValue]
        /\ last' = [last EXCEPT ![t] = FALSE] /\ gone' = [gone EXCEPT ![t] = FALSE]
        /\ UNCHANGED <<lock, table, items, policy, hard, soft, total, cached, waiting, stack, held,
                 status, left, todo, result, stale>>
     BY DEF Free, Goto, cacheVars
  <1>2. Len(stack[t]) = 0 /\ val[t] \in Obj
     BY <1>1 DEF ControlInv, Control, Removing
  <1>3. life' \in [Obj -> {"unborn", "live", "deleted"}]
     BY <1>1, <1>2 DEF ControlInv, Types
  <1>4. Types'
     BY <1>1, <1>3 DEF ControlInv, Types, Keys
  <1>5. Others(t) /\ pc'[t] = "idle" /\ val'[t] = NoValue /\ last'[t] = FALSE /\ gone'[t] = FALSE
     BY <1>1 DEF ControlInv, Types, Others
  <1> QED BY <1>1, <1>2, <1>4, <1>5 DEF cacheVars

(* A flush takes the mutex. *)
LEMMA FlushEffect ==
  ASSUME ControlInv, NEW t \in Thread, Flush(t)
  PROVE  /\ Types' /\ Others(t)
         /\ pc[t] = "idle" /\ pc'[t] = "flush" /\ Len(stack[t]) = 0 /\ lock = Nobody /\ lock' = t
         /\ todo' = [todo EXCEPT ![t] = Keys]
         /\ UNCHANGED <<cacheVars, policy, objVars, waiting, stack, held, val, status, last, gone,
                 left, result, stale>>
  <1>1. /\ pc[t] = "idle" /\ lock = Nobody
        /\ pc' = [pc EXCEPT ![t] = "flush"]
        /\ lock' = t
        /\ todo' = [todo EXCEPT ![t] = Keys]
        /\ UNCHANGED <<table, items, policy, life, hard, soft, total, cached, waiting, stack, held, val, status, last, gone,
                 left, result, stale>>
     BY DEF Flush, Goto, cacheVars, objVars
  <1>2. Len(stack[t]) = 0 /\ Keys \in SUBSET Key
     BY <1>1 DEF ControlInv, Control, Types
  <1>3. Types'
     BY <1>1, <1>2 DEF ControlInv, Types, Keys
  <1>4. Others(t) /\ pc'[t] = "flush"
     BY <1>1 DEF ControlInv, Types, Others
  <1> QED BY <1>1, <1>2, <1>3, <1>4 DEF cacheVars, objVars

(* A pass of a flush ends: another one, or the mutex is given back. *)
LEMMA FlushPassEndsEffect ==
  ASSUME ControlInv, NEW t \in Thread, FlushPassEnds(t)
  PROVE  /\ Types' /\ Others(t)
         /\ pc[t] = "flush" /\ Len(stack[t]) = 0
         /\ \/ todo' = [todo EXCEPT ![t] = Keys] /\ UNCHANGED <<lock, pc>>
            \/ lock' = Nobody /\ pc'[t] = "idle" /\ UNCHANGED todo
         /\ UNCHANGED <<cacheVars, policy, objVars, waiting, stack, held, val, status, last, gone,
                 left, stale>>
  <1>1. /\ pc[t] = "flush"
        /\ result' = [result EXCEPT ![t] = FALSE]
        /\ \/ todo' = [todo EXCEPT ![t] = Keys] /\ UNCHANGED <<lock, pc>>
           \/ lock' = Nobody /\ pc' = [pc EXCEPT ![t] = "idle"] /\ UNCHANGED todo
        /\ UNCHANGED <<table, items, policy, life, hard, soft, total, cached, waiting, stack, held, val, status, last, gone,
                 left, stale>>
     BY DEF FlushPassEnds, Goto, cacheVars, objVars
  <1>2. Len(stack[t]) = 0 /\ Keys \in SUBSET Key
     BY <1>1 DEF ControlInv, Control, Types
  <1>3. Types'
     BY <1>1, <1>2 DEF ControlInv, Types, Keys
  <1>4. Others(t) /\ (pc' = [pc EXCEPT ![t] = "idle"] => pc'[t] = "idle")
     BY <1>1 DEF ControlInv, Types, Others
  <1> QED BY <1>1, <1>2, <1>3, <1>4 DEF cacheVars, objVars

(* Steps that change nothing the invariants speak of. *)
Quiet == UNCHANGED <<lock, table, items, life, hard, soft, total, cached, pc, stack, val, status, held, last, gone, left, todo, stale>>
         /\ waiting' \subseteq Thread /\ policy' \in Policies /\ UNCHANGED result

(* A step of the system, by what it changes. *)
Step(t) ==
  \/ \E k \in Key : Get(t, k) \/ SliceVisit(t, k) \/ FlushVisit(t, k)
  \/ PollHits(t) \/ PollMisses(t) \/ CreateFromCache(t) \/ (\E o \in Obj : CreateNew(t, o)) \/ CreateFails(t)
  \/ PutIfAbsentAndGet(t)
  \/ RemoveRef(t) \/ DecTotal(t) \/ ReadCachePtr(t) \/ DecItems(t) \/ Free(t)
  \/ Flush(t) \/ FlushPassEnds(t)

(* Every step of Next is quiet or one of these. *)
LEMMA Steps ==
  ASSUME Types, [Next]_vars
  PROVE  Quiet \/ \E t \in Thread : Step(t)
  <1>1. CASE UNCHANGED vars
     BY <1>1 DEF vars, cacheVars, objVars, localVars, Quiet, Types
  <1>2. CASE SetEvictionPolicy
     BY <1>2 DEF SetEvictionPolicy, cacheVars, objVars, localVars, Quiet, Types
  <1>3. ASSUME NEW t \in Thread, PollWaits(t) \/ SpuriousWake(t) PROVE Quiet
     <2>1. CASE PollWaits(t)
        BY <2>1 DEF PollWaits, cacheVars, objVars, localVars, Quiet, Types
     <2>2. CASE SpuriousWake(t)
        BY <2>2 DEF SpuriousWake, cacheVars, objVars, localVars, Quiet, Types
     <2> QED BY <1>3, <2>1, <2>2
  <1>4. ASSUME NEW t \in Thread, \/ GetSteps(t) \/ SpuriousWake(t) \/ RemoveSteps(t)
                                 \/ EvictSteps(t) \/ FlushPassEnds(t) \/ ClientSteps(t)
        PROVE  Quiet \/ Step(t)
     BY <1>3, <1>4 DEF GetSteps, RemoveSteps, EvictSteps, ClientSteps, Step
  <1> QED BY <1>1, <1>2, <1>4 DEF Next

(* Quiet steps keep the control invariant. *)
LEMMA QuietControl ==
  ASSUME ControlInv, Quiet
  PROVE  ControlInv'
  <1>1. Types'
     BY DEF ControlInv, Types, Quiet, Keys
  <1>2. LockInv' /\ \A t \in Thread : Control(t)'
     BY DEF ControlInv, LockInv, Control, Removing, CallShape, Quiet
  <1> QED BY <1>1, <1>2 DEF ControlInv

(* Control and one creator: the first inductive invariant. *)
CreatorInv == ControlInv /\ TodoInv /\ OneCreator

(* One creator per key, quantified for the provers. *)
LEMMA CreatorFacts ==
  ASSUME ControlInv, OneCreator
  PROVE  /\ \A t, u \in Thread : \A k : k \in Creating(t) /\ k \in Creating(u) => t = u
         /\ \A k \in Key : Under(k) <=> \E t \in Thread : k \in Creating(t)
         /\ \A t \in Thread : \A k \in Creating(t) : k \in Key
  <1>1. \A t \in Thread : \A k \in Creating(t) : k \in Keys /\ k \in Key
     BY DEF OneCreator, ControlInv, Types
  <1> QED BY <1>1 DEF OneCreator, Under

(* _putIfAbsentAndGet never finds another value: it replaces the entry its *)
(* own thread left.                                                        *)
LEMMA PutTakes ==
  ASSUME ControlInv, OneCreator, NEW t \in Thread, pc[t] = "put"
  PROVE  Last(stack[t]) \in Creating(t) /\ Last(stack[t]) \in Keys /\ InProgress(Last(stack[t]))
  <1>1. Len(stack[t]) \in {1, 2} /\ Last(stack[t]) = stack[t][Len(stack[t])]
     <2> DEFINE l == Len(stack[t])
     <2>1. l > 0 /\ l \in {0, 1, 2}
        BY StackTypes DEF ControlInv, Control
     <2>2. Last(stack[t]) = stack[t][l]
        BY <2>1, StackTypes
     <2> HIDE DEF l
     <2>3. l \in {1, 2}
        BY <2>1
     <2> QED BY <2>2, <2>3 DEF l
  <1>3. Last(stack[t]) \in Creating(t)
     BY <1>1, CreatingNamed DEF Named
  <1> QED BY <1>3 DEF OneCreator

(* Every step keeps types, the owner of gCacheMutex, and where the calls *)
(* stand.                                                                *)
LEMMA ControlStep ==
  ASSUME CreatorInv, NEW t \in Thread, Step(t)
  PROVE  ControlInv'
  <1> USE DEF CreatorInv
  <1>0. NoValue \notin Obj /\ Nobody # t
     BY NoValueAssumption, NobodyAssumption
  <1>1. ASSUME NEW k \in Key, Get(t, k) PROVE ControlInv'
     <2>1. /\ Types' /\ Others(t)
           /\ pc[t] = "idle" /\ pc'[t] = "poll" /\ Len(stack'[t]) = 1
           /\ UNCHANGED <<lock, last, gone, val>>
        BY <1>1, GetEffect DEF localVars
     <2>2. Control(t) /\ lock # t
        BY <2>1 DEF ControlInv, LockInv
     <2>3. Control(t)'
        BY <2>1, <2>2 DEF Control, Removing, CallShape
     <2> QED BY <2>1, <2>2, <2>3, ControlFramed
  <1>2. ASSUME NEW k \in Key, SliceVisit(t, k) PROVE ControlInv'
     <2>1. /\ Types' /\ Others(t)
           /\ pc[t] = "slice"
           /\ \/ Ended(t) /\ lock' = Nobody
              \/ UNCHANGED <<lock, pc, stack, val, status>> /\ left'[t].evict > 0 /\ left'[t].visit > 0
           /\ UNCHANGED <<last, gone>>
        BY <1>2, SliceVisitEffect
     <2>2. Control(t) /\ lock = t
        BY <2>1 DEF ControlInv, LockInv
     <2>3. CASE Ended(t) /\ lock' = Nobody
        <3>1. Control(t)' /\ pc'[t] \notin {"slice", "flush"}
           BY <2>1, <2>3, ControlEnded
        <3> QED BY <1>0, <2>1, <2>2, <2>3, <3>1, ControlFramed
     <2>4. CASE UNCHANGED <<lock, pc, stack, val, status>> /\ left'[t].evict > 0 /\ left'[t].visit > 0
        <3>1. Control(t)'
           BY <2>1, <2>2, <2>4 DEF Control, Removing, CallShape
        <3> QED BY <2>1, <2>2, <2>4, <3>1, ControlFramed
     <2> QED BY <2>1, <2>3, <2>4
  <1>3. ASSUME NEW k \in Key, FlushVisit(t, k) PROVE ControlInv'
     <2>1. k \in Keys
        BY <1>3 DEF FlushVisit, TodoInv
     <2>2. /\ Types' /\ Others(t) /\ pc[t] = "flush" /\ UNCHANGED <<lock, pc, stack, val, status, last, gone, left>>
        BY <1>3, <2>1, FlushVisitEffect
     <2>3. lock = t /\ Control(t)'
        BY <2>2 DEF ControlInv, LockInv, Control, Removing, CallShape
     <2> QED BY <2>2, <2>3, ControlFramed
  <1>4. ASSUME PollHits(t) PROVE ControlInv'
     <2> DEFINE k == Last(stack[t])
                o == table[k].value
                r == table[k].status
     <2>1. /\ Types' /\ Others(t)
           /\ pc[t] = "poll" /\ ~InProgress(k)
           /\ table[k] \in Entry
           /\ Back(t, o, r)
           /\ UNCHANGED <<lock, last, gone>>
        BY <1>4, PollHitsEffect
     <2>2. o \in Obj \cup {NoValue} /\ r \in {"ok", "error"} /\ (o = NoValue => r = "error")
        BY <2>1 DEF Entry, InProgress
     <2>3. Len(stack[t]) > 0 /\ ~last[t] /\ ~gone[t] /\ lock # t
        BY <2>1, NotRemoving DEF ControlInv, Control, Removing, LockInv
     <2> HIDE DEF o, r
     <2>4. Control(t)' /\ pc'[t] \notin {"slice", "flush"}
        BY <2>1, <2>2, <2>3, ControlBack
     <2> QED BY <2>1, <2>3, <2>4, ControlFramed
  <1>5. ASSUME PollMisses(t) PROVE ControlInv'
     <2>1. /\ Types' /\ Others(t)
           /\ pc[t] = "poll"
           /\ \/ pc'[t] = "create" /\ UNCHANGED <<stack, val, status>>
              \/ Back(t, NoValue, "error")
           /\ UNCHANGED <<lock, last, gone>>
        BY <1>5, PollMissesEffect
     <2>2. Control(t) /\ Len(stack[t]) > 0 /\ ~last[t] /\ ~gone[t] /\ lock # t
        BY <2>1, NotRemoving DEF ControlInv, Control, Removing, LockInv
     <2>3. CASE Back(t, NoValue, "error")
        <3>1. Control(t)' /\ pc'[t] \notin {"slice", "flush"}
           BY <2>1, <2>2, <2>3, ControlBack
        <3> QED BY <2>1, <2>2, <3>1, ControlFramed
     <2>4. CASE pc'[t] = "create" /\ UNCHANGED <<stack, val, status>>
        <3>1. Control(t)'
           BY <2>1, <2>2, <2>4 DEF Control, Removing, CallShape
        <3> QED BY <2>1, <2>2, <2>4, <3>1, ControlFramed
     <2> QED BY <2>1, <2>3, <2>4
  <1>6. ASSUME CreateFromCache(t) PROVE ControlInv'
     <2>1. /\ Types' /\ Others(t)
           /\ pc[t] = "create" /\ pc'[t] = "poll" /\ Len(stack'[t]) = 2
           /\ stack'[t][1] = stack[t][1] /\ stack'[t][2] = Alias[stack[t][1]]
           /\ UNCHANGED <<lock, val, last, gone>>
        BY <1>6, CreateFromCacheEffect DEF localVars
     <2>2. Control(t) /\ lock # t
        BY <2>1 DEF ControlInv, LockInv
     <2>3. Control(t)'
        BY <2>1, <2>2 DEF Control, Removing, CallShape
     <2> QED BY <2>1, <2>2, <2>3, ControlFramed
  <1>7. ASSUME (\E o \in Obj : CreateNew(t, o)) \/ CreateFails(t) PROVE ControlInv'
     <2>1. /\ Types' /\ Others(t)
           /\ pc[t] = "create" /\ pc'[t] = "put"
           /\ \/ val'[t] = NoValue /\ status'[t] = "error"
              \/ val'[t] \in Obj
           /\ UNCHANGED <<lock, stack, last, gone>>
        BY <1>7, CreateNewEffect, CreateFailsEffect
     <2>2. Control(t) /\ lock # t /\ Len(stack[t]) > 0
        BY <2>1 DEF ControlInv, LockInv, Control
     <2>3. Control(t)'
        BY <1>0, <2>1, <2>2 DEF Control, Removing, CallShape
     <2> QED BY <2>1, <2>2, <2>3, ControlFramed
  <1>8. ASSUME PutIfAbsentAndGet(t) PROVE ControlInv'
     <2>1. InProgress(Last(stack[t]))
        BY <1>8, PutTakes DEF PutIfAbsentAndGet
     <2>2. /\ Types' /\ Others(t)
           /\ pc[t] = "put" /\ lock = Nobody
           /\ Started(t, CountOfItemsToEvict(Keys', items'))
           /\ CountOfItemsToEvict(Keys', items') \in Int
           /\ UNCHANGED <<last, gone>>
        BY <1>8, <2>1, PutStoresEffect
     <2> QED BY <2>2, ControlStarted
  <1>9. ASSUME RemoveRef(t) PROVE ControlInv'
     <2>1. /\ Types' /\ Others(t)
           /\ pc[t] = "idle" /\ pc'[t] = "decTotal" /\ val'[t] \in Obj
           /\ UNCHANGED <<lock, stack, gone>>
        BY <1>9, RemoveRefEffect
     <2>2. Control(t) /\ lock # t
        BY <2>1 DEF ControlInv, LockInv
     <2>3. Control(t)'
        BY <1>0, <2>1, <2>2 DEF Control, Removing, CallShape
     <2> QED BY <2>1, <2>2, <2>3, ControlFramed
  <1>10. ASSUME DecTotal(t) \/ ReadCachePtr(t) PROVE ControlInv'
     <2>1. /\ Types' /\ Others(t)
           /\ pc[t] \in {"decTotal", "readCache"} /\ val[t] \in Obj
           /\ pc'[t] \in {"readCache", "decItems", "free"} /\ (pc'[t] # "free" => last[t])
           /\ UNCHANGED <<lock, stack, val, last>>
        BY <1>10, DecTotalEffect, ReadCachePtrEffect DEF localVars
     <2>2. Control(t) /\ lock # t
        BY <2>1 DEF ControlInv, LockInv
     <2>3. Control(t)'
        BY <1>0, <2>1, <2>2 DEF Control, Removing, CallShape
     <2> QED BY <2>1, <2>2, <2>3, ControlFramed
  <1>11. ASSUME DecItems(t) PROVE ControlInv'
     <2>1. /\ Types' /\ Others(t)
           /\ pc[t] = "decItems" /\ lock = Nobody
           /\ Started(t, CountOfItemsToEvict(Keys, items - 1))
           /\ CountOfItemsToEvict(Keys, items - 1) \in Int
           /\ UNCHANGED <<last, gone>>
        BY <1>11, DecItemsEffect
     <2> QED BY <2>1, ControlStarted
  <1>12. ASSUME Free(t) PROVE ControlInv'
     <2>1. /\ Types' /\ Others(t)
           /\ pc[t] = "free" /\ pc'[t] = "idle" /\ val'[t] = NoValue /\ ~last'[t] /\ ~gone'[t]
           /\ UNCHANGED <<lock, stack>>
        BY <1>12, FreeEffect
     <2>2. Control(t) /\ lock # t
        BY <2>1 DEF ControlInv, LockInv
     <2>3. Control(t)'
        BY <1>0, <2>1, <2>2 DEF Control, Removing, CallShape
     <2> QED BY <2>1, <2>2, <2>3, ControlFramed
  <1>13. ASSUME Flush(t) \/ FlushPassEnds(t) PROVE ControlInv'
     <2>1. /\ Types' /\ Others(t)
           /\ \/ pc[t] = "idle" /\ pc'[t] = "flush" /\ lock = Nobody /\ lock' = t
              \/ pc[t] = "flush" /\ pc'[t] = "flush" /\ lock' = lock
              \/ pc[t] = "flush" /\ pc'[t] = "idle" /\ lock' = Nobody
           /\ UNCHANGED <<stack, val, last, gone>>
        BY <1>13, FlushEffect, FlushPassEndsEffect
     <2>2. Control(t) /\ (pc[t] = "flush" => lock = t)
        BY <2>1 DEF ControlInv, LockInv
     <2>3. Control(t)'
        BY <1>0, <2>1, <2>2 DEF Control, Removing, CallShape
     <2> QED BY <1>0, <2>1, <2>2, <2>3, ControlFramed
  <1> QED BY <1>1, <1>2, <1>3, <1>4, <1>5, <1>6, <1>7, <1>8, <1>9, <1>10, <1>11, <1>12, <1>13 DEF Step

(* One creator per key is kept when keys under construction and keys being *)
(* created change together.                                                *)
LEMMA CreatorFramed ==
  ASSUME ControlInv, ControlInv', OneCreator, NEW t \in Thread, Others(t),
         \/ /\ \A k : k \in Creating(t)' <=> k \in Creating(t)
            /\ \A k : Under(k)' <=> Under(k)
         \/ \E c \in Key : /\ ~Under(c)
                           /\ \A k : k \in Creating(t)' <=> k \in Creating(t) \/ k = c
                           /\ \A k : Under(k)' <=> Under(k) \/ k = c
         \/ \E c \in Creating(t) : /\ \A k : k \in Creating(t)' <=> k \in Creating(t) /\ k # c
                                   /\ \A k : Under(k)' <=> Under(k) /\ k # c
  PROVE  OneCreator'
  <1>1. \A u \in Thread \ {t} : \A k : k \in Creating(u)' <=> k \in Creating(u)
     <2> TAKE u \in Thread \ {t}
     <2>1. pc'[u] = pc[u] /\ stack'[u] = stack[u]
        BY DEF Others
     <2> QED BY <2>1, CreatingNamed, CreatingNamedNext
  <1>2. /\ \A u, v \in Thread : \A k : k \in Creating(u) /\ k \in Creating(v) => u = v
        /\ \A k \in Key : Under(k) <=> \E u \in Thread : k \in Creating(u)
        /\ \A u \in Thread : \A k \in Creating(u) : k \in Key
     BY CreatorFacts
  <1>3. /\ \A u, v \in Thread : \A k : k \in Creating(u)' /\ k \in Creating(v)' => u = v
        /\ \A k \in Key : Under(k)' <=> \E u \in Thread : k \in Creating(u)'
        /\ \A u \in Thread : \A k \in Creating(u)' : k \in Key
     <2>1. CASE /\ \A k : k \in Creating(t)' <=> k \in Creating(t)
                /\ \A k : Under(k)' <=> Under(k)
        BY <1>1, <1>2, <2>1
     <2>2. CASE \E c \in Key : /\ ~Under(c)
                               /\ \A k : k \in Creating(t)' <=> k \in Creating(t) \/ k = c
                               /\ \A k : Under(k)' <=> Under(k) \/ k = c
        <3>1. PICK c \in Key : /\ ~Under(c)
                               /\ \A k : k \in Creating(t)' <=> k \in Creating(t) \/ k = c
                               /\ \A k : Under(k)' <=> Under(k) \/ k = c
           BY <2>2
        <3>2. \A u \in Thread : c \notin Creating(u)
           BY <1>2, <3>1
        <3>3. \A u, v \in Thread : \A k : k \in Creating(u)' /\ k \in Creating(v)' => u = v
           BY <1>1, <1>2, <3>1, <3>2
        <3>4. \A k \in Key : Under(k)' <=> \E u \in Thread : k \in Creating(u)'
           BY <1>1, <1>2, <3>1
        <3>5. \A u \in Thread : \A k \in Creating(u)' : k \in Key
           BY <1>1, <1>2, <3>1
        <3> QED BY <3>3, <3>4, <3>5
     <2>3. CASE \E c \in Creating(t) : /\ \A k : k \in Creating(t)' <=> k \in Creating(t) /\ k # c
                                       /\ \A k : Under(k)' <=> Under(k) /\ k # c
        <3>1. PICK c \in Creating(t) : /\ \A k : k \in Creating(t)' <=> k \in Creating(t) /\ k # c
                                       /\ \A k : Under(k)' <=> Under(k) /\ k # c
           BY <2>3
        <3>2. \A u \in Thread \ {t} : c \notin Creating(u)
           BY <1>2
        <3>3. \A u, v \in Thread : \A k : k \in Creating(u)' /\ k \in Creating(v)' => u = v
           BY <1>1, <1>2, <3>1
        <3>4. \A k \in Key : Under(k)' <=> \E u \in Thread : k \in Creating(u)'
           BY <1>1, <1>2, <3>1, <3>2
        <3>5. \A u \in Thread : \A k \in Creating(u)' : k \in Key
           BY <1>1, <1>2, <3>1
        <3> QED BY <3>3, <3>4, <3>5
     <2> QED BY <2>1, <2>2, <2>3
  <1>4. \A u \in Thread : \A k \in Creating(u)' : Under(k)'
     BY <1>3
  <1>5. \A k \in Keys' : k \in Key
     BY DEF ControlInv, Types
  <1> QED BY <1>3, <1>4, <1>5 DEF OneCreator, Under

(* The keys a thread creates when a call of its returns ... *)
LEMMA BackCreating ==
  ASSUME ControlInv, ControlInv', NEW t \in Thread, NEW o, NEW r, Back(t, o, r)
  PROVE  /\ pc[t] \in {"poll", "slice"} => \A k : k \in Creating(t)' <=> k \in Creating(t)
         /\ pc[t] = "put" => \A k : k \in Creating(t)' <=> k \in Creating(t) /\ k # stack[t][Len(stack[t])]
  <1>1. /\ \A k : k \in Creating(t) <=> Named(stack[t], pc[t], k)
        /\ \A k : k \in Creating(t)' <=> Named(stack'[t], pc'[t], k)
     BY CreatingNamed, CreatingNamedNext
  <1>2. Len(stack[t]) \in {1, 2}
     BY DEF Back
  <1>3. CASE Len(stack[t]) = 1
     BY <1>1, <1>3 DEF Named, Back
  <1>4. CASE Len(stack[t]) = 2
     <2>1. stack[t][1] # stack[t][2]
        BY <1>4, StackTypes
     <2> QED BY <1>1, <1>4, <2>1 DEF Named, Back
  <1> QED BY <1>2, <1>3, <1>4

(* ... and when a slice follows a put. *)
LEMMA StartedCreating ==
  ASSUME ControlInv, ControlInv', NEW t \in Thread, NEW n, Started(t, n)
  PROVE  /\ pc[t] = "put" => \A k : k \in Creating(t)' <=> k \in Creating(t) /\ k # stack[t][Len(stack[t])]
         /\ pc[t] = "decItems" => \A k : k \in Creating(t)' <=> k \in Creating(t)
  <1>1. /\ \A k : k \in Creating(t) <=> Named(stack[t], pc[t], k)
        /\ \A k : k \in Creating(t)' <=> Named(stack'[t], pc'[t], k)
     BY CreatingNamed, CreatingNamedNext
  <1>2. /\ pc[t] = "put" => Len(stack[t]) > 0
        /\ pc[t] = "decItems" => Len(stack[t]) = 0
     BY DEF ControlInv, Control
  <1>3. CASE Len(stack[t]) > 0 /\ Back(t, val[t], status[t])
     <2>1. Len(stack[t]) # 0
        BY <1>3 DEF Back
     <2> QED BY <1>2, <1>3, <2>1, BackCreating
  <1>4. CASE Len(stack[t]) = 0 /\ pc'[t] = "free" /\ stack'[t] = stack[t]
     <2>1. pc[t] # "put"
        BY <1>2, <1>4
     <2> QED BY <1>1, <1>4, <2>1 DEF Named
  <1>5. CASE n > 0 /\ lock' = t /\ pc'[t] = "slice" /\ stack'[t] = stack[t]
     <2>1. Len(stack[t]) \in {0, 1, 2} /\ (Len(stack[t]) = 2 => stack[t][1] # stack[t][2])
        BY StackTypes
     <2>2. ASSUME pc[t] = "decItems" PROVE \A k : k \in Creating(t)' <=> k \in Creating(t)
        BY <1>1, <1>2, <1>5, <2>2 DEF Named
     <2>3. ASSUME pc[t] = "put" PROVE \A k : k \in Creating(t)' <=> k \in Creating(t) /\ k # stack[t][Len(stack[t])]
        <3>1. CASE Len(stack[t]) = 1
           BY <1>1, <1>5, <2>3, <3>1 DEF Named
        <3>2. CASE Len(stack[t]) = 2
           BY <1>1, <1>5, <2>1, <2>3, <3>2 DEF Named
        <3>3. Len(stack[t]) # 0
           BY <1>2, <2>3
        <3> QED BY <2>1, <3>1, <3>2, <3>3
     <2> QED BY <2>2, <2>3
  <1> QED BY <1>3, <1>4, <1>5 DEF Started, Ended

(* Slices and flushes leave entries under construction alone. *)
LEMMA VisitedUnder ==
  ASSUME NEW k0, Visited(k0)
  PROVE  \A k : Under(k)' <=> Under(k)
  BY DEF Visited, Removed, Under, IsEvictable, InProgress, Keys

(* Entries and creators change together. *)
LEMMA CreatorStep ==
  ASSUME CreatorInv, NEW t \in Thread, Step(t)
  PROVE  OneCreator'
  <1>0. ControlInv' /\ ControlInv /\ OneCreator /\ TodoInv
     BY ControlStep DEF CreatorInv
  <1>1. /\ \A k : k \in Creating(t) <=> Named(stack[t], pc[t], k)
        /\ \A k : k \in Creating(t)' <=> Named(stack'[t], pc'[t], k)
     BY <1>0, CreatingNamed, CreatingNamedNext
  <1>2. ASSUME UNCHANGED table PROVE \A k : Under(k)' <=> Under(k)
     BY <1>2 DEF Under, Keys, InProgress
  <1>3. ASSUME NEW k \in Key, Get(t, k) PROVE OneCreator'
     <2>1. /\ Others(t) /\ pc[t] = "idle" /\ pc'[t] = "poll" /\ Len(stack[t]) = 0 /\ Len(stack'[t]) = 1
           /\ UNCHANGED table
        BY <1>0, <1>3, GetEffect DEF cacheVars
     <2>2. \A j : j \in Creating(t)' <=> j \in Creating(t)
        BY <1>1, <2>1 DEF Named
     <2> QED BY <1>0, <1>2, <2>1, <2>2, CreatorFramed
  <1>4. ASSUME NEW k \in Key, SliceVisit(t, k) PROVE OneCreator'
     <2>1. /\ Others(t) /\ pc[t] = "slice" /\ Visited(k)
           /\ Ended(t) \/ UNCHANGED <<pc, stack>>
        BY <1>0, <1>4, SliceVisitEffect
     <2>2. \A j : Under(j)' <=> Under(j)
        BY <2>1, VisitedUnder
     <2>3. CASE UNCHANGED <<pc, stack>>
        BY <1>0, <1>1, <2>1, <2>2, <2>3, CreatorFramed
     <2>4. CASE Len(stack[t]) > 0 /\ Back(t, val[t], status[t])
        BY <1>0, <2>1, <2>2, <2>4, BackCreating, CreatorFramed
     <2>5. CASE Len(stack[t]) = 0 /\ pc'[t] = "free" /\ stack'[t] = stack[t]
        <3>1. \A j : j \in Creating(t)' <=> j \in Creating(t)
           BY <1>1, <2>1, <2>5 DEF Named
        <3> QED BY <1>0, <2>1, <2>2, <3>1, CreatorFramed
     <2> QED BY <2>1, <2>3, <2>4, <2>5 DEF Ended
  <1>5. ASSUME NEW k \in Key, FlushVisit(t, k) PROVE OneCreator'
     <2>1. k \in Keys
        BY <1>0, <1>5 DEF FlushVisit, TodoInv
     <2>2. Others(t) /\ Visited(k) /\ UNCHANGED <<pc, stack>>
        BY <1>0, <1>5, <2>1, FlushVisitEffect
     <2>3. \A j : Under(j)' <=> Under(j)
        BY <2>2, VisitedUnder
     <2> QED BY <1>0, <1>1, <2>2, <2>3, CreatorFramed
  <1>6. ASSUME PollHits(t) PROVE OneCreator'
     <2> DEFINE o == table[Last(stack[t])].value
                r == table[Last(stack[t])].status
     <2>1. Others(t) /\ pc[t] = "poll" /\ Back(t, o, r) /\ UNCHANGED table
        BY <1>0, <1>6, PollHitsEffect
     <2> QED BY <1>0, <1>2, <2>1, BackCreating, CreatorFramed
  <1>7. ASSUME PollMisses(t) PROVE OneCreator'
     <2> DEFINE c == Last(stack[t])
     <2>1. /\ Others(t) /\ pc[t] = "poll" /\ c \in Key \ Keys /\ c = stack[t][Len(stack[t])]
           /\ \/ /\ Keys' = Keys \cup {c}
                 /\ table'[c] = [value |-> NoValue, status |-> "ok", master |-> FALSE]
                 /\ \A j \in Keys : table'[j] = table[j]
                 /\ pc'[t] = "create"
                 /\ UNCHANGED <<stack, held, val, status>>
              \/ Back(t, NoValue, "error") /\ UNCHANGED table
        BY <1>0, <1>7, PollMissesEffect
     <2>2. CASE Back(t, NoValue, "error") /\ UNCHANGED table
        BY <1>0, <1>2, <2>1, <2>2, BackCreating, CreatorFramed
     <2>3. CASE /\ Keys' = Keys \cup {c}
                /\ table'[c] = [value |-> NoValue, status |-> "ok", master |-> FALSE]
                /\ \A j \in Keys : table'[j] = table[j]
                /\ pc'[t] = "create"
                /\ UNCHANGED <<stack, held, val, status>>
        <3>1. Len(stack[t]) \in {1, 2}
           <4>1. Len(stack[t]) \in {0, 1, 2} /\ Len(stack[t]) # 0
              BY <1>0, <2>1, StackTypes DEF ControlInv, Control
           <4> QED BY <4>1
        <3>2. \A k : k \in Creating(t)' <=> k \in Creating(t) \/ k = c
           <4>1. CASE Len(stack[t]) = 1
              BY <1>1, <2>1, <2>3, <4>1 DEF Named
           <4>2. CASE Len(stack[t]) = 2
              BY <1>1, <2>1, <2>3, <4>2 DEF Named
           <4> QED BY <3>1, <4>1, <4>2
        <3> HIDE DEF c
        <3>3. \A k : Under(k)' <=> Under(k) \/ k = c
           BY <2>1, <2>3 DEF Under, InProgress
        <3>4. ~Under(c)
           BY <2>1 DEF Under
        <3> QED BY <1>0, <2>1, <3>2, <3>3, <3>4, CreatorFramed
     <2> QED BY <2>1, <2>2, <2>3
  <1>8. ASSUME CreateFromCache(t) PROVE OneCreator'
     <2>1. /\ Others(t)
           /\ pc[t] = "create" /\ pc'[t] = "poll" /\ Len(stack[t]) = 1 /\ Len(stack'[t]) = 2
           /\ stack'[t][1] = stack[t][1] /\ UNCHANGED table
        BY <1>0, <1>8, CreateFromCacheEffect DEF cacheVars
     <2>2. \A j : j \in Creating(t)' <=> j \in Creating(t)
        BY <1>1, <2>1 DEF Named
     <2> QED BY <1>0, <1>2, <2>1, <2>2, CreatorFramed
  <1>9. ASSUME (\E o \in Obj : CreateNew(t, o)) \/ CreateFails(t) PROVE OneCreator'
     <2>1. Others(t) /\ pc[t] = "create" /\ pc'[t] = "put" /\ UNCHANGED <<stack, table>>
        BY <1>0, <1>9, CreateNewEffect, CreateFailsEffect DEF cacheVars
     <2>2. \A j : j \in Creating(t)' <=> j \in Creating(t)
        BY <1>1, <2>1 DEF Named
     <2> QED BY <1>0, <1>2, <2>1, <2>2, CreatorFramed
  <1>10. ASSUME PutIfAbsentAndGet(t) PROVE OneCreator'
     <2> DEFINE c == Last(stack[t])
                m == val[t] # NoValue /\ soft[val[t]] = 0
                n == CountOfItemsToEvict(Keys', items')
     <2>1. pc[t] = "put" /\ c \in Creating(t) /\ c \in Keys /\ InProgress(c)
        BY <1>0, <1>10, PutTakes DEF PutIfAbsentAndGet
     <2>2. Others(t) /\ c = stack[t][Len(stack[t])] /\ Stored(t, c, m) /\ Started(t, n)
        BY <1>0, <1>10, <2>1, PutStoresEffect
     <2> HIDE DEF c, n, m
     <2>3. \A k : k \in Creating(t)' <=> k \in Creating(t) /\ k # c
        BY <1>0, <2>1, <2>2, StartedCreating
     <2>4. ~(val[t] = NoValue /\ status[t] = "ok")
        BY <1>0, <2>1 DEF ControlInv, Control
     <2>5. \A k : Under(k)' <=> Under(k) /\ k # c
        BY <2>1, <2>2, <2>4 DEF Under, InProgress, Stored
     <2> QED BY <1>0, <2>1, <2>2, <2>3, <2>5, CreatorFramed
  <1>11. ASSUME RemoveRef(t) PROVE OneCreator'
     <2>1. Others(t) /\ pc[t] = "idle" /\ pc'[t] = "decTotal" /\ UNCHANGED <<stack, table>>
        BY <1>0, <1>11, RemoveRefEffect DEF cacheVars
     <2>2. \A j : j \in Creating(t)' <=> j \in Creating(t)
        BY <1>1, <2>1 DEF Named
     <2> QED BY <1>0, <1>2, <2>1, <2>2, CreatorFramed
  <1>12. ASSUME DecTotal(t) \/ ReadCachePtr(t) PROVE OneCreator'
     <2>1. Others(t) /\ pc[t] \in {"decTotal", "readCache"} /\ pc'[t] \in {"readCache", "decItems", "free"} /\ UNCHANGED <<stack, table>>
        BY <1>0, <1>12, DecTotalEffect, ReadCachePtrEffect DEF cacheVars
     <2>2. \A j : j \in Creating(t)' <=> j \in Creating(t)
        BY <1>1, <2>1 DEF Named
     <2> QED BY <1>0, <1>2, <2>1, <2>2, CreatorFramed
  <1>13. ASSUME DecItems(t) PROVE OneCreator'
     <2> DEFINE n == CountOfItemsToEvict(Keys, items - 1)
     <2>1. Others(t) /\ pc[t] = "decItems" /\ Started(t, n) /\ UNCHANGED table
        BY <1>0, <1>13, DecItemsEffect
     <2> HIDE DEF n
     <2>2. \A j : j \in Creating(t)' <=> j \in Creating(t)
        BY <1>0, <2>1, StartedCreating
     <2> QED BY <1>0, <1>2, <2>1, <2>2, CreatorFramed
  <1>14. ASSUME Free(t) \/ Flush(t) \/ FlushPassEnds(t) PROVE OneCreator'
     <2>1. /\ Others(t) /\ UNCHANGED <<stack, table>>
           /\ pc[t] \in {"free", "idle", "flush"} /\ pc'[t] \in {"free", "idle", "flush"}
        <3>1. CASE Free(t)
           BY <1>0, <3>1, FreeEffect DEF cacheVars
        <3>2. CASE Flush(t)
           BY <1>0, <3>2, FlushEffect DEF cacheVars
        <3>3. CASE FlushPassEnds(t)
           BY <1>0, <3>3, FlushPassEndsEffect DEF cacheVars
        <3> QED BY <1>14, <3>1, <3>2, <3>3
     <2>2. \A j : j \in Creating(t)' <=> j \in Creating(t)
        BY <1>1, <2>1 DEF Named
     <2> QED BY <1>0, <1>2, <2>1, <2>2, CreatorFramed
  <1> QED BY <1>3, <1>4, <1>5, <1>6, <1>7, <1>8, <1>9, <1>10, <1>11, <1>12, <1>13, <1>14 DEF Step

(* A flush visits keys that are there: nobody else removes an entry meanwhile. *)
LEMMA TodoStep ==
  ASSUME CreatorInv, NEW t \in Thread, Step(t)
  PROVE  TodoInv'
  <1>0. ControlInv' /\ ControlInv /\ OneCreator /\ TodoInv
     BY ControlStep DEF CreatorInv
  <1>a. ASSUME Others(t), UNCHANGED todo, Keys \subseteq Keys', pc'[t] = "flush" => pc[t] = "flush"
        PROVE  TodoInv'
     BY <1>0, <1>a DEF TodoInv, Others
  <1>b. ASSUME Others(t), pc'[t] # "flush", UNCHANGED todo, lock = t
        PROVE  TodoInv'
     BY <1>0, <1>b DEF TodoInv, Others, ControlInv, LockInv
  <1>c. ASSUME UNCHANGED table PROVE Keys \subseteq Keys'
     BY <1>c DEF Keys
  <1>d. ASSUME NEW o, NEW r, Back(t, o, r) PROVE pc'[t] # "flush"
     BY <1>d DEF Back
  <1>e. ASSUME NEW n, Started(t, n) PROVE pc'[t] # "flush"
     BY <1>d, <1>e DEF Started, Ended
  <1>3. ASSUME NEW k \in Key, Get(t, k) PROVE TodoInv'
     <2>1. Others(t) /\ pc'[t] = "poll" /\ UNCHANGED <<todo, table>>
        BY <1>0, <1>3, GetEffect DEF cacheVars, localVars
     <2> QED BY <1>a, <1>c, <2>1
  <1>4. ASSUME NEW k \in Key, SliceVisit(t, k) PROVE TodoInv'
     <2>1. /\ Others(t) /\ pc[t] = "slice" /\ UNCHANGED todo
           /\ Ended(t) \/ UNCHANGED <<pc, stack>>
        BY <1>0, <1>4, SliceVisitEffect
     <2>2. lock = t
        BY <1>0, <2>1 DEF ControlInv, LockInv
     <2>3. pc'[t] # "flush"
        BY <1>d, <2>1 DEF Ended
     <2> QED BY <1>b, <2>1, <2>2, <2>3
  <1>5. ASSUME NEW k \in Key, FlushVisit(t, k) PROVE TodoInv'
     <2>1. k \in Keys /\ todo' = [todo EXCEPT ![t] = @ \ {k}]
        BY <1>0, <1>5 DEF FlushVisit, TodoInv
     <2>2. Others(t) /\ Visited(k) /\ UNCHANGED pc /\ pc[t] = "flush"
        BY <1>0, <1>5, <2>1, FlushVisitEffect
     <2>3. lock = t /\ \A u \in Thread \ {t} : pc[u] # "flush"
        BY <1>0, <2>2 DEF ControlInv, LockInv
     <2>4. todo'[t] = todo[t] \ {k}
        BY <1>0, <2>1 DEF ControlInv, Types
     <2>5. Keys \ {k} \subseteq Keys'
        BY <2>2 DEF Visited, Removed, Keys
     <2> QED BY <1>0, <2>2, <2>3, <2>4, <2>5 DEF TodoInv
  <1>6. ASSUME PollHits(t) PROVE TodoInv'
     <2> DEFINE o == table[Last(stack[t])].value
                r == table[Last(stack[t])].status
     <2>1. Others(t) /\ Back(t, o, r) /\ UNCHANGED <<todo, table>>
        BY <1>0, <1>6, PollHitsEffect
     <2> HIDE DEF o, r
     <2> QED BY <1>a, <1>c, <1>d, <2>1
  <1>7. ASSUME PollMisses(t) PROVE TodoInv'
     <2>1. /\ Others(t) /\ UNCHANGED todo
           /\ \/ Keys' = Keys \cup {Last(stack[t])} /\ pc'[t] = "create"
              \/ Back(t, NoValue, "error") /\ UNCHANGED table
        BY <1>0, <1>7, PollMissesEffect
     <2> QED BY <1>a, <1>c, <1>d, <2>1
  <1>8. ASSUME CreateFromCache(t) \/ (\E o \in Obj : CreateNew(t, o)) \/ CreateFails(t) PROVE TodoInv'
     <2>1. Others(t) /\ pc'[t] \in {"poll", "put"} /\ UNCHANGED <<todo, table>>
        BY <1>0, <1>8, CreateFromCacheEffect, CreateNewEffect, CreateFailsEffect DEF cacheVars, localVars
     <2> QED BY <1>a, <1>c, <2>1
  <1>9. ASSUME PutIfAbsentAndGet(t) PROVE TodoInv'
     <2> DEFINE c == Last(stack[t])
                m == val[t] # NoValue /\ soft[val[t]] = 0
                n == CountOfItemsToEvict(Keys', items')
     <2>1. InProgress(c)
        BY <1>0, <1>9, PutTakes DEF PutIfAbsentAndGet
     <2>2. Others(t) /\ Stored(t, c, m) /\ Started(t, n) /\ UNCHANGED todo
        BY <1>0, <1>9, <2>1, PutStoresEffect
     <2> HIDE DEF c, n, m
     <2>3. Keys \subseteq Keys'
        BY <2>2 DEF Stored
     <2> QED BY <1>a, <1>e, <2>2, <2>3
  <1>10. ASSUME RemoveRef(t) \/ DecTotal(t) \/ ReadCachePtr(t) PROVE TodoInv'
     <2>1. Others(t) /\ pc'[t] \in {"decTotal", "readCache", "decItems", "free"} /\ UNCHANGED <<todo, table>>
        <3>1. CASE RemoveRef(t)
           BY <1>0, <3>1, RemoveRefEffect DEF cacheVars, localVars
        <3>2. CASE DecTotal(t)
           BY <1>0, <3>2, DecTotalEffect DEF cacheVars, localVars
        <3>3. CASE ReadCachePtr(t)
           BY <1>0, <3>3, ReadCachePtrEffect DEF cacheVars, localVars
        <3> QED BY <1>10, <3>1, <3>2, <3>3
     <2> QED BY <1>a, <1>c, <2>1
  <1>11. ASSUME DecItems(t) PROVE TodoInv'
     <2> DEFINE n == CountOfItemsToEvict(Keys, items - 1)
     <2>1. Others(t) /\ Started(t, n) /\ UNCHANGED <<todo, table>>
        BY <1>0, <1>11, DecItemsEffect
     <2> HIDE DEF n
     <2> QED BY <1>a, <1>c, <1>e, <2>1
  <1>12. ASSUME Free(t) PROVE TodoInv'
     <2>1. Others(t) /\ pc'[t] = "idle" /\ UNCHANGED <<todo, table>>
        BY <1>0, <1>12, FreeEffect DEF cacheVars
     <2> QED BY <1>a, <1>c, <2>1
  <1>13. ASSUME Flush(t) PROVE TodoInv'
     <2>1. Others(t) /\ todo' = [todo EXCEPT ![t] = Keys] /\ UNCHANGED table
        BY <1>0, <1>13, FlushEffect DEF cacheVars
     <2>2. todo'[t] = Keys /\ \A u \in Thread \ {t} : todo'[u] = todo[u]
        BY <1>0, <2>1 DEF ControlInv, Types
     <2> QED BY <1>0, <1>c, <2>1, <2>2 DEF TodoInv, Others
  <1>14. ASSUME FlushPassEnds(t) PROVE TodoInv'
     <2>1. /\ Others(t) /\ UNCHANGED table
           /\ \/ todo' = [todo EXCEPT ![t] = Keys] /\ UNCHANGED pc
              \/ pc'[t] = "idle" /\ UNCHANGED todo
        BY <1>0, <1>14, FlushPassEndsEffect DEF cacheVars
     <2>2. CASE todo' = [todo EXCEPT ![t] = Keys]
        <3>1. todo'[t] = Keys /\ \A u \in Thread \ {t} : todo'[u] = todo[u]
           BY <1>0, <2>2 DEF ControlInv, Types
        <3> QED BY <1>0, <1>c, <2>1, <3>1 DEF TodoInv, Others
     <2>3. CASE pc'[t] = "idle" /\ UNCHANGED todo
        BY <1>a, <1>c, <2>1, <2>3
     <2> QED BY <2>1, <2>2, <2>3
  <1> QED BY <1>3, <1>4, <1>5, <1>6, <1>7, <1>8, <1>9, <1>10, <1>11, <1>12, <1>13, <1>14 DEF Step

(* Quiet steps keep the invariant. *)
LEMMA QuietCreator ==
  ASSUME CreatorInv, Quiet
  PROVE  CreatorInv'
  <1>1. ControlInv'
     BY QuietControl DEF CreatorInv
  <1>2. TodoInv'
     BY DEF CreatorInv, TodoInv, Quiet, Keys
  <1>3. OneCreator'
     BY DEF CreatorInv, OneCreator, Quiet, Keys, Creating, InProgress
  <1> QED BY <1>1, <1>2, <1>3 DEF CreatorInv

(* The cache starts with no entry and no call. *)
LEMMA CreatorInit ==
  ASSUME Init
  PROVE  CreatorInv
  <1>1. Keys = {}
     BY DEF Init, Keys
  <1>2. Len(<<>>) = 0 /\ <<>> \in Seq(Key)
     OBVIOUS
  <1>3. Types
     <2>1. /\ lock \in Thread \cup {Nobody} /\ items \in Int /\ policy \in Policies
           /\ Keys \subseteq Key /\ \A k \in Keys : table[k] \in Entry
           /\ waiting \subseteq Thread /\ stale \in BOOLEAN
        <3>1. Keys \subseteq Key /\ \A k \in Keys : table[k] \in Entry
           BY <1>1
        <3>2. lock = Nobody /\ items = 0 /\ policy \in Policies /\ waiting = {}
           BY DEF Init
        <3>3. stale \in BOOLEAN
           BY DEF Init
        <3>4. items \in Int
           BY <3>2
        <3> QED BY <3>1, <3>2, <3>3, <3>4
     <2>2. /\ life \in [Obj -> {"unborn", "live", "deleted"}]
           /\ hard \in [Obj -> Int] /\ soft \in [Obj -> Int] /\ total \in [Obj -> Int]
           /\ cached \in [Obj -> BOOLEAN]
        BY DEF Init
     <2>3. /\ pc \in [Thread -> {"idle", "poll", "create", "put", "slice",
                        "decTotal", "readCache", "decItems", "free", "flush"}]
           /\ stack \in [Thread -> Seq(Key)]
           /\ val \in [Thread -> Obj \cup {NoValue}]
           /\ status \in [Thread -> {"ok", "error"}]
           /\ held \in [Thread -> SUBSET (Key \X Obj)]
        BY <1>2 DEF Init
     <2>4. /\ last \in [Thread -> BOOLEAN] /\ gone \in [Thread -> BOOLEAN]
           /\ left \in [Thread -> [evict : Nat, visit : Nat]]
           /\ todo \in [Thread -> SUBSET Key] /\ result \in [Thread -> BOOLEAN]
        BY DEF Init
     <2> QED BY <2>1, <2>2, <2>3, <2>4 DEF Types
  <1>4. \A t \in Thread : pc[t] = "idle" /\ Len(stack[t]) = 0 /\ val[t] = NoValue /\ ~last[t] /\ ~gone[t] /\ lock # t
     BY <1>2, NobodyAssumption DEF Init
  <1>5. ControlInv
     BY <1>3, <1>4 DEF ControlInv, LockInv, Control, CallShape, Removing
  <1>6. TodoInv
     BY <1>4 DEF TodoInv
  <1>7. \A t \in Thread : Creating(t) = {}
     BY <1>4, <1>5, CreatingNamed DEF Named
  <1>8. OneCreator
     BY <1>1, <1>7 DEF OneCreator
  <1> QED BY <1>5, <1>6, <1>8 DEF CreatorInv

(* CreatorInv is inductive. *)
LEMMA CreatorInductive ==
  CreatorInv /\ [Next]_vars => CreatorInv'
  <1> SUFFICES ASSUME CreatorInv, [Next]_vars PROVE CreatorInv'
     OBVIOUS
  <1>1. Types
     BY DEF CreatorInv, ControlInv
  <1>2. CASE Quiet
     BY <1>2, QuietCreator
  <1>3. ASSUME NEW t \in Thread, Step(t) PROVE CreatorInv'
     BY <1>3, ControlStep, TodoStep, CreatorStep DEF CreatorInv
  <1> QED BY <1>1, <1>2, <1>3, Steps

(* The inductive invariant holds of every reachable state. *)
THEOREM CreatorSafe == Spec => []CreatorInv
  BY CreatorInit, CreatorInductive, PTL DEF Spec

(* One thread at a time creates the value of a key, behind an entry no      *)
(* slice or flush takes away (_poll, _put, _isEvictable), for any number of *)
(* threads and keys.                                                        *)
THEOREM OneCreatorAlways == Spec => []OneCreator
  <1>1. CreatorInv => OneCreator
     BY DEF CreatorInv
  <1> QED BY <1>1, CreatorSafe, PTL

-------------------------------------------------------------------------------
(* References and deletion. *)

(* Nobody but v knows o, and v only as the value it is about to put. *)
Hidden(o, v) == /\ \A k \in Keys : table[k].value # o
                /\ \A t \in Thread : (t # v => val[t] # o) /\ \A h \in held[t] : h[2] # o
                /\ ~cached[o]
Unknown(o) == Hidden(o, Nobody)
UnbornUnknown == \A o \in Obj : life[o] = "unborn" => Unknown(o)
HeldOnce == \A t \in Thread : Len(stack[t]) > 0 => \A h \in held[t] : h[1] # stack[t][1]

(* A call that returns leaves its thread with no call open for a key it *)
(* holds.                                                               *)
LEMMA HeldOnceBack ==
  ASSUME ControlInv, HeldOnce, NEW t \in Thread, NEW o, NEW r, Back(t, o, r)
  PROVE  Len(stack'[t]) > 0 => \A h \in held'[t] : h[1] # stack'[t][1]
  <1>1. Len(stack[t]) \in {1, 2}
     BY DEF Back
  <1>2. CASE Len(stack[t]) = 1
     BY <1>2 DEF Back
  <1>3. CASE Len(stack[t]) = 2
     BY <1>3 DEF Back, HeldOnce
  <1> QED BY <1>1, <1>2, <1>3

(* Nobody asks for a value it holds. *)
LEMMA HeldOnceStep ==
  ASSUME CreatorInv, HeldOnce, NEW t \in Thread, Step(t)
  PROVE  HeldOnce'
  <1>0. ControlInv /\ OneCreator /\ TodoInv
     BY DEF CreatorInv
  <1>1. SUFFICES /\ Others(t)
                 /\ Len(stack'[t]) > 0 => \A h \in held'[t] : h[1] # stack'[t][1]
     BY DEF HeldOnce, Others
  <1>2. ASSUME Others(t), held'[t] \subseteq held[t], stack'[t] = stack[t]
        PROVE  Len(stack'[t]) > 0 => \A h \in held'[t] : h[1] # stack'[t][1]
     BY <1>2 DEF HeldOnce
  <1>3. ASSUME NEW k \in Key, Get(t, k)
        PROVE  Others(t) /\ (Len(stack'[t]) > 0 => \A h \in held'[t] : h[1] # stack'[t][1])
     BY <1>0, <1>3, GetEffect
  <1>4. ASSUME NEW k \in Key, SliceVisit(t, k)
        PROVE  Others(t) /\ (Len(stack'[t]) > 0 => \A h \in held'[t] : h[1] # stack'[t][1])
     <2>1. /\ Others(t)
           /\ Ended(t) \/ UNCHANGED <<stack, held>>
        BY <1>0, <1>4, SliceVisitEffect
     <2> QED BY <1>0, <1>2, <2>1, HeldOnceBack DEF Ended
  <1>5. ASSUME NEW k \in Key, FlushVisit(t, k)
        PROVE  Others(t) /\ (Len(stack'[t]) > 0 => \A h \in held'[t] : h[1] # stack'[t][1])
     <2>1. k \in Keys
        BY <1>0, <1>5 DEF FlushVisit, TodoInv
     <2> QED BY <1>0, <1>2, <1>5, <2>1, FlushVisitEffect
  <1>6. ASSUME PollHits(t)
        PROVE  Others(t) /\ (Len(stack'[t]) > 0 => \A h \in held'[t] : h[1] # stack'[t][1])
     <2> DEFINE o == table[Last(stack[t])].value
                r == table[Last(stack[t])].status
     <2>1. Others(t) /\ Back(t, o, r)
        BY <1>0, <1>6, PollHitsEffect
     <2> HIDE DEF o, r
     <2> QED BY <1>0, <2>1, HeldOnceBack
  <1>7. ASSUME PollMisses(t)
        PROVE  Others(t) /\ (Len(stack'[t]) > 0 => \A h \in held'[t] : h[1] # stack'[t][1])
     <2>1. /\ Others(t)
           /\ UNCHANGED <<stack, held>> \/ Back(t, NoValue, "error")
        BY <1>0, <1>7, PollMissesEffect
     <2> QED BY <1>0, <1>2, <2>1, HeldOnceBack
  <1>8. ASSUME CreateFromCache(t)
        PROVE  Others(t) /\ (Len(stack'[t]) > 0 => \A h \in held'[t] : h[1] # stack'[t][1])
     <2>1. Others(t) /\ Len(stack[t]) = 1 /\ stack'[t][1] = stack[t][1] /\ UNCHANGED held
        BY <1>0, <1>8, CreateFromCacheEffect
     <2> QED BY <2>1 DEF HeldOnce
  <1>9. ASSUME (\E o \in Obj : CreateNew(t, o)) \/ CreateFails(t)
        PROVE  Others(t) /\ (Len(stack'[t]) > 0 => \A h \in held'[t] : h[1] # stack'[t][1])
     BY <1>0, <1>2, <1>9, CreateNewEffect, CreateFailsEffect
  <1>10. ASSUME PutIfAbsentAndGet(t)
        PROVE  Others(t) /\ (Len(stack'[t]) > 0 => \A h \in held'[t] : h[1] # stack'[t][1])
     <2> DEFINE n == CountOfItemsToEvict(Keys', items')
     <2>1. InProgress(Last(stack[t]))
        BY <1>0, <1>10, PutTakes DEF PutIfAbsentAndGet
     <2>2. Others(t) /\ Started(t, n)
        BY <1>0, <1>10, <2>1, PutStoresEffect
     <2> HIDE DEF n
     <2> QED BY <1>0, <1>2, <2>2, HeldOnceBack DEF Started, Ended
  <1>11. ASSUME RemoveRef(t)
        PROVE  Others(t) /\ (Len(stack'[t]) > 0 => \A h \in held'[t] : h[1] # stack'[t][1])
     BY <1>0, <1>2, <1>11, RemoveRefEffect
  <1>12. ASSUME DecTotal(t) \/ ReadCachePtr(t) \/ Free(t)
        PROVE  Others(t) /\ (Len(stack'[t]) > 0 => \A h \in held'[t] : h[1] # stack'[t][1])
     BY <1>0, <1>2, <1>12, DecTotalEffect, ReadCachePtrEffect, FreeEffect
  <1>13. ASSUME DecItems(t)
        PROVE  Others(t) /\ (Len(stack'[t]) > 0 => \A h \in held'[t] : h[1] # stack'[t][1])
     <2> DEFINE n == CountOfItemsToEvict(Keys, items - 1)
     <2>1. Others(t) /\ Started(t, n)
        BY <1>0, <1>13, DecItemsEffect
     <2> HIDE DEF n
     <2> QED BY <1>0, <1>2, <2>1, HeldOnceBack DEF Started, Ended
  <1>14. ASSUME Flush(t) \/ FlushPassEnds(t)
        PROVE  Others(t) /\ (Len(stack'[t]) > 0 => \A h \in held'[t] : h[1] # stack'[t][1])
     BY <1>0, <1>2, <1>14, FlushEffect, FlushPassEndsEffect
  <1> QED BY <1>3, <1>4, <1>5, <1>6, <1>7, <1>8, <1>9, <1>10, <1>11, <1>12, <1>13, <1>14 DEF Step

(* An object stays hidden if the step neither stores, carries nor holds it. *)
LEMMA UnknownFramed ==
  ASSUME NEW t \in Thread, Others(t), NEW o \in Obj, NEW v, v # t, Hidden(o, v),
         \A k \in Keys' : table'[k].value # o,
         val'[t] # o, \A h \in held'[t] : h[2] # o, ~cached'[o]
  PROVE  Hidden(o, v)'
  BY DEF Hidden, Others

(* A call that returns brings no hidden object. *)
LEMMA UnknownBack ==
  ASSUME ControlInv, NEW t \in Thread, NEW o \in Obj, NEW v, v # t, Hidden(o, v), NEW p, NEW r, Back(t, p, r), p # o
  PROVE  val'[t] # o /\ \A h \in held'[t] : h[2] # o
  <1>1. Len(stack[t]) \in {1, 2} /\ NoValue # o
     BY NoValueAssumption DEF Back
  <1>2. CASE Len(stack[t]) = 1
     BY <1>1, <1>2 DEF Back, Hidden
  <1>3. CASE Len(stack[t]) = 2
     BY <1>3 DEF Back, Hidden
  <1> QED BY <1>1, <1>2, <1>3

(* Nor does the start or the end of a slice. *)
LEMMA UnknownStarted ==
  ASSUME ControlInv, NEW t \in Thread, NEW o \in Obj, NEW v, v # t, Hidden(o, v), Ended(t) \/ \E n : Started(t, n)
  PROVE  val'[t] # o /\ \A h \in held'[t] : h[2] # o
  <1>1. val[t] # o /\ \A h \in held[t] : h[2] # o
     BY DEF Hidden
  <1>2. CASE Back(t, val[t], status[t])
     BY <1>1, <1>2, UnknownBack
  <1>3. CASE val'[t] = val[t] /\ held'[t] = held[t]
     BY <1>1, <1>3
  <1> QED BY <1>2, <1>3 DEF Started, Ended

(* An eviction makes no object known, nor unborn again. *)
LEMMA UnknownVisited ==
  ASSUME Types, NEW k0 \in Keys, Visited(k0), NEW o \in Obj, NEW v
  PROVE  /\ Hidden(o, v) => \A k \in Keys' : table'[k].value # o
         /\ life'[o] = "unborn" => life[o] = "unborn"
  <1>1. Hidden(o, v) => \A k \in Keys' : table'[k].value # o
     BY DEF Visited, Removed, Hidden, Keys
  <1>2. life'[o] = "unborn" => life[o] = "unborn"
     BY DEF Visited, Dropped, Types
  <1> QED BY <1>1, <1>2

(* What only v knows, another thread does not come to know. *)
LEMMA HiddenStep ==
  ASSUME CreatorInv, NEW t \in Thread, Step(t), NEW o \in Obj, ~CreateNew(t, o),
         NEW v, v # t, Hidden(o, v)
  PROVE  Hidden(o, v)'
  <1>0. ControlInv /\ OneCreator /\ TodoInv /\ Types
     BY DEF CreatorInv, ControlInv
  <1>u. val[t] # o /\ (\A h \in held[t] : h[2] # o) /\ ~cached[o]
     BY DEF Hidden
  <1>t. ASSUME Hidden(o, v), UNCHANGED table PROVE \A k \in Keys' : table'[k].value # o
     BY <1>t DEF Hidden, Keys
  <1>n. NoValue # o
     BY NoValueAssumption
  <1>3. ASSUME NEW k \in Key, Get(t, k) PROVE Hidden(o, v)'
     <2>1. Others(t) /\ UNCHANGED <<table, life, cached, val, held>>
        BY <1>0, <1>3, GetEffect DEF cacheVars, objVars, localVars
     <2> QED BY <1>u, <1>t, <2>1, UnknownFramed
  <1>4. ASSUME NEW k \in Key, SliceVisit(t, k) PROVE Hidden(o, v)'
     <2>1. /\ Others(t) /\ Visited(k) /\ k \in Keys /\ UNCHANGED cached
           /\ Ended(t) \/ UNCHANGED <<val, held>>
        BY <1>0, <1>4, SliceVisitEffect
     <2>2. Hidden(o, v) /\ \A j \in Keys' : table'[j].value # o
        BY <1>0, <1>u, <2>1, UnknownVisited
     <2>3. val'[t] # o /\ \A h \in held'[t] : h[2] # o
        BY <1>0, <1>u, <2>1, <2>2, UnknownStarted DEF Hidden
     <2> QED BY <1>u, <2>1, <2>2, <2>3, UnknownFramed DEF Hidden
  <1>5. ASSUME NEW k \in Key, FlushVisit(t, k) PROVE Hidden(o, v)'
     <2>1. k \in Keys
        BY <1>0, <1>5 DEF FlushVisit, TodoInv
     <2>2. /\ Others(t) /\ Visited(k) /\ UNCHANGED <<cached, val, held>>
        BY <1>0, <1>5, <2>1, FlushVisitEffect
     <2>3. Hidden(o, v) /\ \A j \in Keys' : table'[j].value # o
        BY <1>0, <1>u, <2>1, <2>2, UnknownVisited
     <2> QED BY <2>2, <2>3, UnknownFramed DEF Hidden
  <1>6. ASSUME PollHits(t) PROVE Hidden(o, v)'
     <2> DEFINE p == table[Last(stack[t])].value
                r == table[Last(stack[t])].status
     <2>1. Others(t) /\ Last(stack[t]) \in Keys /\ Back(t, p, r) /\ UNCHANGED <<table, life, cached>>
        BY <1>0, <1>6, PollHitsEffect
     <2>2. Hidden(o, v) /\ p # o
        BY <1>u, <2>1 DEF Hidden
     <2> HIDE DEF p, r
     <2>3. val'[t] # o /\ \A h \in held'[t] : h[2] # o
        BY <1>0, <2>1, <2>2, UnknownBack
     <2> QED BY <1>t, <2>1, <2>2, <2>3, UnknownFramed DEF Hidden
  <1>7. ASSUME PollMisses(t) PROVE Hidden(o, v)'
     <2> DEFINE c == Last(stack[t])
     <2>1. /\ Others(t) /\ UNCHANGED objVars /\ c \in Key \ Keys
           /\ \/ /\ Keys' = Keys \cup {c}
                 /\ table'[c] = [value |-> NoValue, status |-> "ok", master |-> FALSE]
                 /\ \A j \in Keys : table'[j] = table[j]
                 /\ UNCHANGED <<held, val>>
              \/ Back(t, NoValue, "error") /\ UNCHANGED table
        BY <1>0, <1>7, PollMissesEffect
     <2>2. Hidden(o, v) /\ ~cached'[o]
        BY <1>u, <2>1 DEF objVars
     <2>3. CASE Back(t, NoValue, "error") /\ UNCHANGED table
        <3>1. val'[t] # o /\ \A h \in held'[t] : h[2] # o
           BY <1>0, <1>n, <2>2, <2>3, UnknownBack
        <3> QED BY <1>t, <2>1, <2>2, <2>3, <3>1, UnknownFramed
     <2>4. CASE /\ Keys' = Keys \cup {c}
                /\ table'[c] = [value |-> NoValue, status |-> "ok", master |-> FALSE]
                /\ \A j \in Keys : table'[j] = table[j]
                /\ UNCHANGED <<held, val>>
        <3> HIDE DEF c
        <3>1. \A k \in Keys' : table'[k].value # o
           BY <1>n, <2>2, <2>4 DEF Hidden
        <3> QED BY <2>1, <2>2, <2>4, <3>1, UnknownFramed DEF Hidden
     <2> QED BY <2>1, <2>3, <2>4
  <1>8. ASSUME CreateFromCache(t) PROVE Hidden(o, v)'
     <2>1. Others(t) /\ UNCHANGED <<table, life, cached, val, held>>
        BY <1>0, <1>8, CreateFromCacheEffect DEF cacheVars, objVars, localVars
     <2> QED BY <1>u, <1>t, <2>1, UnknownFramed
  <1>9. ASSUME NEW p \in Obj, CreateNew(t, p) PROVE Hidden(o, v)'
     <2>1. Others(t) /\ UNCHANGED <<table, cached, held>> /\ life' = [life EXCEPT ![p] = "live"] /\ val'[t] = p
        BY <1>0, <1>9, CreateNewEffect DEF cacheVars
     <2>2. p # o
        BY <1>9
     <2> QED BY <1>u, <1>t, <2>1, <2>2, UnknownFramed
  <1>10. ASSUME CreateFails(t) PROVE Hidden(o, v)'
     <2>1. Others(t) /\ UNCHANGED <<table, life, cached, held>> /\ val'[t] = NoValue
        BY <1>0, <1>10, CreateFailsEffect DEF cacheVars, objVars
     <2> QED BY <1>u, <1>t, <1>n, <2>1, UnknownFramed
  <1>11. ASSUME PutIfAbsentAndGet(t) PROVE Hidden(o, v)'
     <2> DEFINE c == Last(stack[t])
                m == val[t] # NoValue /\ soft[val[t]] = 0
                n == CountOfItemsToEvict(Keys', items')
     <2>1. InProgress(c)
        BY <1>0, <1>11, PutTakes DEF PutIfAbsentAndGet
     <2>2. /\ Others(t) /\ Stored(t, c, m) /\ Started(t, n) /\ UNCHANGED life
           /\ \/ val[t] = NoValue /\ UNCHANGED cached
              \/ val[t] \in Obj /\ cached' = [cached EXCEPT ![val[t]] = @ \/ m]
        BY <1>0, <1>11, <2>1, PutStoresEffect
     <2> HIDE DEF c, n, m
     <2>3. Hidden(o, v) /\ val[t] # o /\ ~cached[o]
        BY <1>u, <2>2
     <2>4. ~cached'[o]
        BY <1>0, <2>2, <2>3 DEF Types
     <2>5. val'[t] # o /\ \A h \in held'[t] : h[2] # o
        BY <1>0, <2>2, <2>3, UnknownStarted
     <2>6. \A k \in Keys' : table'[k].value # o
        BY <2>2, <2>3 DEF Stored, Hidden
     <2> QED BY <2>2, <2>3, <2>4, <2>5, <2>6, UnknownFramed
  <1>12. ASSUME RemoveRef(t) PROVE Hidden(o, v)'
     <2>1. PICK h \in held[t] : Others(t) /\ held'[t] = held[t] \ {h} /\ val'[t] = h[2] /\ UNCHANGED <<table, life, cached>>
        BY <1>0, <1>12, RemoveRefEffect DEF cacheVars
     <2> QED BY <1>u, <1>t, <2>1, UnknownFramed
  <1>13. ASSUME DecTotal(t) \/ ReadCachePtr(t) PROVE Hidden(o, v)'
     <2>1. Others(t) /\ UNCHANGED <<table, life, cached, val, held>>
        BY <1>0, <1>13, DecTotalEffect, ReadCachePtrEffect DEF cacheVars, objVars, localVars
     <2> QED BY <1>u, <1>t, <2>1, UnknownFramed
  <1>14. ASSUME DecItems(t) PROVE Hidden(o, v)'
     <2> DEFINE n == CountOfItemsToEvict(Keys, items - 1)
     <2>1. Others(t) /\ Started(t, n) /\ UNCHANGED <<table, life, cached>>
        BY <1>0, <1>14, DecItemsEffect DEF objVars
     <2> HIDE DEF n
     <2>2. Hidden(o, v) /\ ~cached[o]
        BY <1>u, <2>1
     <2>5. val'[t] # o /\ \A h \in held'[t] : h[2] # o
        BY <1>0, <2>1, <2>2, UnknownStarted
     <2> QED BY <1>t, <2>1, <2>2, <2>5, UnknownFramed
  <1>15. ASSUME Free(t) PROVE Hidden(o, v)'
     <2>1. /\ Others(t) /\ UNCHANGED <<table, cached, held>> /\ val'[t] = NoValue /\ val[t] \in Obj
           /\ life' = IF gone[t] THEN [life EXCEPT ![val[t]] = "deleted"] ELSE life
        BY <1>0, <1>15, FreeEffect DEF cacheVars
     <2> QED BY <1>u, <1>t, <1>n, <2>1, UnknownFramed
  <1>16. ASSUME Flush(t) \/ FlushPassEnds(t) PROVE Hidden(o, v)'
     <2>1. Others(t) /\ UNCHANGED <<table, life, cached, val, held>>
        BY <1>0, <1>16, FlushEffect, FlushPassEndsEffect DEF cacheVars, objVars
     <2> QED BY <1>u, <1>t, <2>1, UnknownFramed
  <1> QED BY <1>3, <1>4, <1>5, <1>6, <1>7, <1>8, <1>9, <1>10, <1>11, <1>12, <1>13, <1>14, <1>15, <1>16
     DEF Step

(* An object that is still unborn was not created by the step. *)
LEMMA StaysUnborn ==
  ASSUME CreatorInv, NEW t \in Thread, Step(t), NEW o \in Obj, life'[o] = "unborn"
  PROVE  life[o] = "unborn" /\ ~CreateNew(t, o)
  <1>0. ControlInv /\ OneCreator /\ TodoInv /\ Types
     BY DEF CreatorInv, ControlInv
  <1>1. ASSUME UNCHANGED life PROVE life[o] = "unborn"
     BY <1>1
  <1>2. ASSUME NEW k \in Key, Get(t, k) PROVE life[o] = "unborn"
     BY <1>0, <1>1, <1>2, GetEffect DEF objVars
  <1>3. ASSUME NEW k \in Key, SliceVisit(t, k) PROVE life[o] = "unborn"
     <2>1. Visited(k) /\ k \in Keys
        BY <1>0, <1>3, SliceVisitEffect
     <2> QED BY <1>0, <2>1, UnknownVisited
  <1>4. ASSUME NEW k \in Key, FlushVisit(t, k) PROVE life[o] = "unborn"
     <2>1. k \in Keys
        BY <1>0, <1>4 DEF FlushVisit, TodoInv
     <2>2. Visited(k)
        BY <1>0, <1>4, <2>1, FlushVisitEffect
     <2> QED BY <1>0, <2>1, <2>2, UnknownVisited
  <1>5. ASSUME NEW p \in Obj, CreateNew(t, p) PROVE life[o] = "unborn" /\ p # o
     <2>1. life' = [life EXCEPT ![p] = "live"]
        BY <1>0, <1>5, CreateNewEffect
     <2> QED BY <1>0, <2>1 DEF Types
  <1>6. ASSUME Free(t) PROVE life[o] = "unborn"
     <2>1. life' = (IF gone[t] THEN [life EXCEPT ![val[t]] = "deleted"] ELSE life) /\ val[t] \in Obj
        BY <1>0, <1>6, FreeEffect
     <2> QED BY <1>0, <2>1 DEF Types
  <1>7. ASSUME PutIfAbsentAndGet(t) PROVE life[o] = "unborn"
     <2>1. InProgress(Last(stack[t]))
        BY <1>0, <1>7, PutTakes DEF PutIfAbsentAndGet
     <2> QED BY <1>0, <1>1, <1>7, <2>1, PutStoresEffect
  <1>8. ASSUME PollHits(t) \/ PollMisses(t) \/ CreateFromCache(t) \/ CreateFails(t) PROVE life[o] = "unborn"
     BY <1>0, <1>1, <1>8, PollHitsEffect, PollMissesEffect, CreateFromCacheEffect, CreateFailsEffect
        DEF objVars
  <1>9. ASSUME RemoveRef(t) \/ DecTotal(t) \/ ReadCachePtr(t) \/ DecItems(t) PROVE life[o] = "unborn"
     BY <1>0, <1>1, <1>9, RemoveRefEffect, DecTotalEffect, ReadCachePtrEffect, DecItemsEffect DEF objVars
  <1>10. ASSUME Flush(t) \/ FlushPassEnds(t) PROVE life[o] = "unborn"
     BY <1>0, <1>1, <1>10, FlushEffect, FlushPassEndsEffect DEF objVars
  <1>11. ~CreateNew(t, o)
     BY <1>5
  <1> QED BY <1>2, <1>3, <1>4, <1>5, <1>6, <1>7, <1>8, <1>9, <1>10, <1>11 DEF Step

(* A SharedObject is known to nobody before it is made. *)
LEMMA UnbornStep ==
  ASSUME CreatorInv, UnbornUnknown, NEW t \in Thread, Step(t)
  PROVE  UnbornUnknown'
  <1>1. SUFFICES ASSUME NEW o \in Obj, life'[o] = "unborn" PROVE Hidden(o, Nobody)'
     BY DEF UnbornUnknown, Unknown
  <1>2. life[o] = "unborn" /\ ~CreateNew(t, o)
     BY <1>1, StaysUnborn
  <1>3. Hidden(o, Nobody) /\ Nobody # t
     BY <1>2, NobodyAssumption DEF UnbornUnknown, Unknown
  <1> QED BY <1>2, <1>3, HiddenStep

(* The threads that count for an object, and the four counts. *)
Carrying(t, o) == InFlight(t) /\ val[t] = o
Deciding(t, o) == pc[t] = "decTotal" /\ val[t] = o
Deciders(o) == {t \in Thread : pc[t] = "decTotal" /\ val[t] = o}

HolderCount(o)  == Cardinality(Holders(o))
CarrierCount(o) == Cardinality(Carriers(o))
DeciderCount(o) == Cardinality(Deciders(o))
EntryCount(o)   == Cardinality(EntriesOf(o))

(* One element more or less. *)
LEMMA CountChange ==
  ASSUME NEW S, IsFiniteSet(S)
  PROVE  /\ Cardinality(S) \in Nat
         /\ \A T, x : T = S \cup {x} /\ x \notin S => Cardinality(T) = Cardinality(S) + 1
         /\ \A T, x : T = S \ {x} /\ x \in S => Cardinality(T) = Cardinality(S) - 1
  BY FS_CardinalityType, FS_AddElement, FS_RemoveElement

(* Who refers to an object is finite. *)
LEMMA SetsFinite ==
  ASSUME Types, NEW o
  PROVE  IsFiniteSet(Holders(o)) /\ IsFiniteSet(Carriers(o)) /\ IsFiniteSet(Deciders(o)) /\ IsFiniteSet(EntriesOf(o))
  <1>1. IsFiniteSet(Thread \X Key) /\ IsFiniteSet(Thread) /\ IsFiniteSet(Key)
     BY FiniteAssumption, FS_Product
  <1>2. Holders(o) \subseteq Thread \X Key /\ Carriers(o) \subseteq Thread /\ Deciders(o) \subseteq Thread
     BY DEF Holders, Carriers, Deciders
  <1>3. EntriesOf(o) \subseteq Key
     BY DEF Types, EntriesOf
  <1> QED BY <1>1, <1>2, <1>3, FS_Subset

(* How one thread's references change the number of holders ... *)
LEMMA HolderChange ==
  ASSUME ControlInv, NEW t \in Thread, Others(t), NEW o
  PROVE  /\ HolderCount(o) \in Nat
         /\ held'[t] = held[t] => HolderCount(o)' = HolderCount(o)
         /\ \A k \in Key : \A p : held'[t] = held[t] \cup {<<k, p>>} /\ <<k, p>> \notin held[t]
               => HolderCount(o)' = HolderCount(o) + IF p = o THEN 1 ELSE 0
         /\ \A k \in Key : \A p : held'[t] = held[t] \ {<<k, p>>} /\ <<k, p>> \in held[t]
               => HolderCount(o)' = HolderCount(o) - IF p = o THEN 1 ELSE 0
  <1>1. IsFiniteSet(Holders(o)) /\ HolderCount(o) \in Nat
     BY SetsFinite, CountChange DEF ControlInv, HolderCount
  <1>2. \A u \in Thread \ {t} : held'[u] = held[u]
     BY DEF Others
  <1>3. ASSUME held'[t] = held[t] PROVE HolderCount(o)' = HolderCount(o)
     BY <1>2, <1>3 DEF Holders, HolderCount
  <1>4. ASSUME NEW k \in Key, NEW p, held'[t] = held[t] \cup {<<k, p>>}, <<k, p>> \notin held[t]
        PROVE HolderCount(o)' = HolderCount(o) + IF p = o THEN 1 ELSE 0
     <2>1. CASE p = o
        <3>1. Holders(o)' = Holders(o) \cup {<<t, k>>} /\ <<t, k>> \notin Holders(o)
           BY <1>2, <1>4, <2>1 DEF Holders
        <3> QED BY <1>1, <2>1, <3>1, CountChange DEF HolderCount
     <2>2. CASE p # o
        <3>1. Holders(o)' = Holders(o)
           BY <1>2, <1>4, <2>2 DEF Holders
        <3> QED BY <1>1, <2>2, <3>1 DEF HolderCount
     <2> QED BY <2>1, <2>2
  <1>5. ASSUME NEW k \in Key, NEW p, held'[t] = held[t] \ {<<k, p>>}, <<k, p>> \in held[t]
        PROVE HolderCount(o)' = HolderCount(o) - IF p = o THEN 1 ELSE 0
     <2>1. CASE p = o
        <3>1. Holders(o)' = Holders(o) \ {<<t, k>>} /\ <<t, k>> \in Holders(o)
           BY <1>2, <1>5, <2>1 DEF Holders
        <3> QED BY <1>1, <2>1, <3>1, CountChange DEF HolderCount
     <2>2. CASE p # o
        <3>1. Holders(o)' = Holders(o)
           BY <1>2, <1>5, <2>2 DEF Holders
        <3> QED BY <1>1, <2>2, <3>1 DEF HolderCount
     <2> QED BY <2>1, <2>2
  <1> QED BY <1>1, <1>3, <1>4, <1>5

(* ... its local variables the carriers and those that have one decrement *)
(* to go ...                                                              *)
LEMMA ThreadChange ==
  ASSUME ControlInv, NEW t \in Thread, Others(t), NEW o
  PROVE  /\ CarrierCount(o) \in Nat /\ DeciderCount(o) \in Nat
         /\ CarrierCount(o)' = CarrierCount(o) + (IF Carrying(t, o)' THEN 1 ELSE 0) - (IF Carrying(t, o) THEN 1 ELSE 0)
         /\ DeciderCount(o)' = DeciderCount(o) + (IF Deciding(t, o)' THEN 1 ELSE 0) - (IF Deciding(t, o) THEN 1 ELSE 0)
  <1>1. /\ IsFiniteSet(Carriers(o)) /\ CarrierCount(o) \in Nat
        /\ IsFiniteSet(Deciders(o)) /\ DeciderCount(o) \in Nat
     BY SetsFinite, CountChange DEF ControlInv, CarrierCount, DeciderCount
  <1>2. \A u \in Thread \ {t} : (Carrying(u, o)' <=> Carrying(u, o)) /\ (Deciding(u, o)' <=> Deciding(u, o))
     BY DEF Others, Carrying, Deciding, InFlight
  <1>3. /\ Carriers(o) = {u \in Thread : Carrying(u, o)}
        /\ Carriers(o)' = {u \in Thread : Carrying(u, o)'}
        /\ Deciders(o) = {u \in Thread : Deciding(u, o)}
        /\ Deciders(o)' = {u \in Thread : Deciding(u, o)'}
     BY DEF Carriers, Deciders, Carrying, Deciding
  <1>4. CarrierCount(o)' = CarrierCount(o) + (IF Carrying(t, o)' THEN 1 ELSE 0) - (IF Carrying(t, o) THEN 1 ELSE 0)
     <2>1. CASE Carrying(t, o)' /\ ~Carrying(t, o)
        <3>1. Carriers(o)' = Carriers(o) \cup {t} /\ t \notin Carriers(o)
           BY <1>2, <1>3, <2>1
        <3> QED BY <1>1, <2>1, <3>1, CountChange DEF CarrierCount
     <2>2. CASE ~Carrying(t, o)' /\ Carrying(t, o)
        <3>1. Carriers(o)' = Carriers(o) \ {t} /\ t \in Carriers(o)
           BY <1>2, <1>3, <2>2
        <3> QED BY <1>1, <2>2, <3>1, CountChange DEF CarrierCount
     <2>3. CASE Carrying(t, o)' <=> Carrying(t, o)
        <3>1. Carriers(o)' = Carriers(o)
           BY <1>2, <1>3, <2>3
        <3> QED BY <1>1, <2>3, <3>1 DEF CarrierCount
     <2> QED BY <2>1, <2>2, <2>3
  <1>5. DeciderCount(o)' = DeciderCount(o) + (IF Deciding(t, o)' THEN 1 ELSE 0) - (IF Deciding(t, o) THEN 1 ELSE 0)
     <2>1. CASE Deciding(t, o)' /\ ~Deciding(t, o)
        <3>1. Deciders(o)' = Deciders(o) \cup {t} /\ t \notin Deciders(o)
           BY <1>2, <1>3, <2>1
        <3> QED BY <1>1, <2>1, <3>1, CountChange DEF DeciderCount
     <2>2. CASE ~Deciding(t, o)' /\ Deciding(t, o)
        <3>1. Deciders(o)' = Deciders(o) \ {t} /\ t \in Deciders(o)
           BY <1>2, <1>3, <2>2
        <3> QED BY <1>1, <2>2, <3>1, CountChange DEF DeciderCount
     <2>3. CASE Deciding(t, o)' <=> Deciding(t, o)
        <3>1. Deciders(o)' = Deciders(o)
           BY <1>2, <1>3, <2>3
        <3> QED BY <1>1, <2>3, <3>1 DEF DeciderCount
     <2> QED BY <2>1, <2>2, <2>3
  <1> QED BY <1>1, <1>4, <1>5

(* ... and the table the number of entries. *)
LEMMA EntryChange ==
  ASSUME Types, NEW o \in Obj
  PROVE  /\ EntryCount(o) \in Nat
         /\ UNCHANGED table => EntryCount(o)' = EntryCount(o)
         /\ \A k \in Keys : Removed(k) => EntryCount(o)' = EntryCount(o) - IF table[k].value = o THEN 1 ELSE 0
         /\ \A k : /\ Keys' = Keys \cup {k} /\ \A j \in Keys \ {k} : table'[j] = table[j]
                   /\ k \notin Keys \/ table[k].value = NoValue
                   => EntryCount(o)' = EntryCount(o) + IF table'[k].value = o THEN 1 ELSE 0
  <1>1. IsFiniteSet(EntriesOf(o)) /\ EntryCount(o) \in Nat
     BY SetsFinite, CountChange DEF EntryCount
  <1>2. ASSUME UNCHANGED table PROVE EntryCount(o)' = EntryCount(o)
     BY <1>2 DEF EntryCount, EntriesOf, Keys
  <1>3. ASSUME NEW k \in Keys, Removed(k) PROVE EntryCount(o)' = EntryCount(o) - IF table[k].value = o THEN 1 ELSE 0
     <2>1. CASE table[k].value = o
        <3>1. EntriesOf(o)' = EntriesOf(o) \ {k} /\ k \in EntriesOf(o)
           BY <1>3, <2>1 DEF Removed, EntriesOf
        <3> QED BY <1>1, <2>1, <3>1, CountChange DEF EntryCount
     <2>2. CASE table[k].value # o
        <3>1. EntriesOf(o)' = EntriesOf(o)
           BY <1>3, <2>2 DEF Removed, EntriesOf
        <3> QED BY <1>1, <2>2, <3>1 DEF EntryCount
     <2> QED BY <2>1, <2>2
  <1>4. ASSUME NEW k, Keys' = Keys \cup {k}, \A j \in Keys \ {k} : table'[j] = table[j],
               k \notin Keys \/ table[k].value = NoValue
        PROVE  EntryCount(o)' = EntryCount(o) + IF table'[k].value = o THEN 1 ELSE 0
     <2>0. k \notin EntriesOf(o)
        BY <1>4, NoValueAssumption DEF EntriesOf
     <2>1. CASE table'[k].value = o
        <3>1. EntriesOf(o)' = EntriesOf(o) \cup {k}
           BY <1>4, <2>1 DEF EntriesOf
        <3> QED BY <1>1, <2>0, <2>1, <3>1, CountChange DEF EntryCount
     <2>2. CASE table'[k].value # o
        <3>1. EntriesOf(o)' = EntriesOf(o)
           BY <1>4, <2>0, <2>2 DEF EntriesOf
        <3> QED BY <1>1, <2>2, <3>1 DEF EntryCount
     <2> QED BY <2>1, <2>2
  <1> QED BY <1>1, <1>2, <1>3, <1>4

(* RefsExact for one object. *)
RefsFor(o) == /\ hard[o] = HolderCount(o) + CarrierCount(o)
              /\ soft[o] = EntryCount(o)
              /\ total[o] = hard[o] + soft[o] + DeciderCount(o)

(* RefsExact, with a name for each count. *)
LEMMA RefsAre == RefsExact <=> \A o \in Obj : RefsFor(o)
  BY DEF RefsExact, RefsFor, HolderCount, CarrierCount, DeciderCount, EntryCount, Deciders

(* A call that returns hands its reference from the carrier to the holder. *)
LEMMA BackCounts ==
  ASSUME ControlInv, HeldOnce, NEW t \in Thread, Others(t), NEW p, NEW r, Back(t, p, r),
         pc[t] # "decTotal", NEW o \in Obj
  PROVE  /\ HolderCount(o)' + CarrierCount(o)'
              = HolderCount(o) + CarrierCount(o) + (IF p = o THEN 1 ELSE 0) - (IF Carrying(t, o) THEN 1 ELSE 0)
         /\ DeciderCount(o)' = DeciderCount(o)
  <1>1. /\ HolderCount(o) \in Nat /\ CarrierCount(o) \in Nat /\ DeciderCount(o) \in Nat
        /\ CarrierCount(o)' = CarrierCount(o) + (IF Carrying(t, o)' THEN 1 ELSE 0) - (IF Carrying(t, o) THEN 1 ELSE 0)
        /\ DeciderCount(o)' = DeciderCount(o) + (IF Deciding(t, o)' THEN 1 ELSE 0) - (IF Deciding(t, o) THEN 1 ELSE 0)
     BY HolderChange, ThreadChange
  <1>2. NoValue # o /\ ~Deciding(t, o) /\ Len(stack[t]) \in {1, 2}
     BY NoValueAssumption DEF Deciding, Back
  <1>3. CASE Len(stack[t]) = 1
     <2>1. ~Carrying(t, o)' /\ ~Deciding(t, o)'
        BY <1>3 DEF Back, Carrying, Deciding, InFlight
     <2>2. stack[t][1] \in Key /\ \A h \in held[t] : h[1] # stack[t][1]
        BY <1>3, StackTypes DEF HeldOnce
     <2>3. <<stack[t][1], p>> \notin held[t]
        BY <2>2
     <2>4. HolderCount(o)' = HolderCount(o) + IF p = o THEN 1 ELSE 0
        <3>1. CASE p = NoValue
           <4>1. held'[t] = held[t]
              BY <1>3, <3>1 DEF Back
           <4> QED BY <1>1, <1>2, <3>1, <4>1, HolderChange
        <3>2. CASE p # NoValue
           <4>1. held'[t] = held[t] \cup {<<stack[t][1], p>>}
              BY <1>3, <3>2 DEF Back
           <4> QED BY <2>2, <2>3, <4>1, HolderChange
        <3> QED BY <3>1, <3>2
     <2> QED BY <1>1, <1>2, <2>1, <2>4
  <1>4. CASE Len(stack[t]) = 2
     <2>1. (Carrying(t, o)' <=> p = o) /\ ~Deciding(t, o)' /\ held'[t] = held[t]
        BY <1>4 DEF Back, Carrying, Deciding, InFlight
     <2>2. HolderCount(o)' = HolderCount(o)
        BY <2>1, HolderChange
     <2> QED BY <1>1, <1>2, <2>1, <2>2
  <1> QED BY <1>2, <1>3, <1>4

(* The end of a slice hands the reference on, if there is one. *)
LEMMA StartedCounts ==
  ASSUME ControlInv, HeldOnce, NEW t \in Thread, Others(t), pc[t] \in {"put", "slice", "decItems"},
         Ended(t) \/ \E n : Started(t, n), NEW o \in Obj
  PROVE  /\ HolderCount(o)' + CarrierCount(o)' = HolderCount(o) + CarrierCount(o)
         /\ DeciderCount(o)' = DeciderCount(o)
  <1>1. /\ HolderCount(o) \in Nat /\ CarrierCount(o) \in Nat /\ DeciderCount(o) \in Nat
        /\ held'[t] = held[t] => HolderCount(o)' = HolderCount(o)
        /\ CarrierCount(o)' = CarrierCount(o) + (IF Carrying(t, o)' THEN 1 ELSE 0) - (IF Carrying(t, o) THEN 1 ELSE 0)
        /\ DeciderCount(o)' = DeciderCount(o) + (IF Deciding(t, o)' THEN 1 ELSE 0) - (IF Deciding(t, o) THEN 1 ELSE 0)
     BY HolderChange, ThreadChange
  <1>2. /\ pc[t] = "put" => Len(stack[t]) > 0
        /\ pc[t] = "decItems" => Len(stack[t]) = 0
        /\ stack[t] = <<>> <=> Len(stack[t]) = 0
     BY StackTypes DEF ControlInv, Control
  <1>3. CASE Len(stack[t]) > 0 /\ Back(t, val[t], status[t])
     <2>1. Len(stack[t]) # 0
        BY <1>3 DEF Back
     <2>2. Carrying(t, o) <=> val[t] = o
        BY <1>2, <2>1 DEF Carrying, InFlight
     <2>3. pc[t] # "decTotal"
        OBVIOUS
     <2>4. /\ HolderCount(o)' + CarrierCount(o)'
              = HolderCount(o) + CarrierCount(o) + (IF val[t] = o THEN 1 ELSE 0) - (IF Carrying(t, o) THEN 1 ELSE 0)
           /\ DeciderCount(o)' = DeciderCount(o)
        BY <1>3, <2>3, BackCounts
     <2> QED BY <1>1, <2>2, <2>4
  <1>4. CASE /\ Len(stack[t]) = 0 /\ pc'[t] = "free"
             /\ stack'[t] = stack[t] /\ val'[t] = val[t] /\ status'[t] = status[t] /\ held'[t] = held[t]
     <2>1. ~Carrying(t, o) /\ ~Carrying(t, o)' /\ ~Deciding(t, o) /\ ~Deciding(t, o)'
        BY <1>2, <1>4 DEF Carrying, InFlight, Deciding
     <2> QED BY <1>1, <1>4, <2>1
  <1>5. CASE pc'[t] = "slice" /\ stack'[t] = stack[t] /\ val'[t] = val[t] /\ held'[t] = held[t]
     <2>1. (Carrying(t, o)' <=> Carrying(t, o)) /\ ~Deciding(t, o) /\ ~Deciding(t, o)'
        BY <1>2, <1>5 DEF Carrying, InFlight, Deciding
     <2> QED BY <1>1, <1>5, <2>1
  <1> QED BY <1>3, <1>4, <1>5 DEF Started, Ended

(* Nothing changes for an object the step does not move. *)
LEMMA StayCounts ==
  ASSUME ControlInv, NEW t \in Thread, Others(t), held'[t] = held[t], NEW o,
         Carrying(t, o)' <=> Carrying(t, o), Deciding(t, o)' <=> Deciding(t, o)
  PROVE  HolderCount(o)' = HolderCount(o) /\ CarrierCount(o)' = CarrierCount(o) /\ DeciderCount(o)' = DeciderCount(o)
  <1>1. /\ CarrierCount(o) \in Nat /\ DeciderCount(o) \in Nat
        /\ held'[t] = held[t] => HolderCount(o)' = HolderCount(o)
        /\ CarrierCount(o)' = CarrierCount(o) + (IF Carrying(t, o)' THEN 1 ELSE 0) - (IF Carrying(t, o) THEN 1 ELSE 0)
        /\ DeciderCount(o)' = DeciderCount(o) + (IF Deciding(t, o)' THEN 1 ELSE 0) - (IF Deciding(t, o) THEN 1 ELSE 0)
     BY HolderChange, ThreadChange
  <1> QED BY <1>1

(* An eviction gives up the soft reference of the entry it removes. *)
LEMMA VisitedCounts ==
  ASSUME ControlInv, NEW k \in Keys, Visited(k), NEW o \in Obj
  PROVE  /\ EntryCount(o)' - EntryCount(o) = soft'[o] - soft[o]
         /\ total'[o] - total[o] = soft'[o] - soft[o]
         /\ soft'[o] - soft[o] = IF IsEvictable(k) /\ table[k].value = o THEN -1 ELSE 0
  <1>1. Types /\ EntryCount(o) \in Nat /\ soft[o] \in Int /\ total[o] \in Int
     BY EntryChange DEF ControlInv, Types
  <1>2. CASE ~IsEvictable(k) /\ UNCHANGED <<table, life, soft, total>>
     BY <1>1, <1>2, EntryChange
  <1>3. CASE IsEvictable(k) /\ Removed(k) /\ Dropped(table[k].value)
     <2> DEFINE v == table[k].value
     <2>1. EntryCount(o)' = EntryCount(o) - IF v = o THEN 1 ELSE 0
        BY <1>1, <1>3, EntryChange
     <2>2. NoValue # o
        BY NoValueAssumption
     <2> HIDE DEF v
     <2>3. soft'[o] = soft[o] - (IF v = o THEN 1 ELSE 0) /\ total'[o] = total[o] - (IF v = o THEN 1 ELSE 0)
        BY <1>1, <1>3, <2>2 DEF Dropped, Types, v
     <2> QED BY <1>1, <1>3, <2>1, <2>3 DEF v
  <1> QED BY <1>2, <1>3 DEF Visited

(* Arithmetic on one element of a function. *)
LEMMA AddAt ==
  ASSUME NEW f \in [Obj -> Int], NEW p \in Obj, NEW d \in Int, NEW o \in Obj
  PROVE  [f EXCEPT ![p] = @ + d][o] = f[o] + IF p = o THEN d ELSE 0
  OBVIOUS

(* Equal starts and equal differences make equal ends. *)
LEMMA SameRise ==
  ASSUME NEW a \in Int, NEW b \in Int, NEW c \in Int, NEW d \in Int, b - a = d - c, a = c
  PROVE  b = d
  OBVIOUS

(* The counts stay exact when each changes as what it counts. *)
LEMMA RefsSum ==
  ASSUME Types, Types', RefsExact, NEW o \in Obj,
         HolderCount(o) \in Nat, CarrierCount(o) \in Nat, DeciderCount(o) \in Nat, EntryCount(o) \in Nat,
         hard'[o] - hard[o] = HolderCount(o)' + CarrierCount(o)' - (HolderCount(o) + CarrierCount(o)),
         soft'[o] - soft[o] = EntryCount(o)' - EntryCount(o),
         total'[o] - total[o] = (hard'[o] - hard[o]) + (soft'[o] - soft[o]) + (DeciderCount(o)' - DeciderCount(o)),
         HolderCount(o)' \in Int, CarrierCount(o)' \in Int, DeciderCount(o)' \in Int, EntryCount(o)' \in Int
  PROVE  RefsFor(o)'
  <1>1. RefsFor(o)
     BY RefsAre
  <1>2. /\ hard[o] \in Int /\ soft[o] \in Int /\ total[o] \in Int
        /\ hard'[o] \in Int /\ soft'[o] \in Int /\ total'[o] \in Int
     BY DEF Types
  <1>3. hard[o] = HolderCount(o) + CarrierCount(o) /\ soft[o] = EntryCount(o) /\ total[o] = hard[o] + soft[o] + DeciderCount(o)
     BY <1>1 DEF RefsFor
  <1>4. hard'[o] = HolderCount(o)' + CarrierCount(o)'
     <2> DEFINE c == HolderCount(o) + CarrierCount(o)
                d == HolderCount(o)' + CarrierCount(o)'
     <2>1. c \in Int /\ d \in Int /\ hard'[o] - hard[o] = d - c /\ hard[o] = c
        BY <1>3
     <2> HIDE DEF c, d
     <2>2. hard'[o] = d
        BY <1>2, <2>1, SameRise
     <2> QED BY <2>2 DEF d
  <1>5. soft'[o] = EntryCount(o)'
     BY <1>2, <1>3, SameRise
  <1>6. total'[o] = hard'[o] + soft'[o] + DeciderCount(o)'
     <2> DEFINE c == hard[o] + soft[o] + DeciderCount(o)
                d == hard'[o] + soft'[o] + DeciderCount(o)'
     <2>1. c \in Int /\ d \in Int
        BY <1>2
     <2>2. total'[o] - total[o] = d - c
        BY <1>2
     <2>3. total[o] = c
        BY <1>3
     <2> HIDE DEF c, d
     <2>4. total'[o] = d
        BY <1>2, <2>1, <2>2, <2>3, SameRise
     <2> QED BY <2>4 DEF d
  <1> QED BY <1>4, <1>5, <1>6 DEF RefsFor

(* The counts of an object follow what holds and carries it. *)
LEMMA RefsStep ==
  ASSUME CreatorInv, UnbornUnknown, HeldOnce, RefsExact, NEW t \in Thread, Step(t)
  PROVE  RefsExact'
  <1>0. ControlInv /\ OneCreator /\ TodoInv /\ Types /\ ControlInv' /\ Types'
     BY ControlStep DEF CreatorInv, ControlInv
  <1>1. SUFFICES ASSUME NEW o \in Obj PROVE RefsFor(o)'
     BY DEF RefsExact, RefsFor, HolderCount, CarrierCount, DeciderCount, EntryCount, Deciders
  <1>2. /\ HolderCount(o) \in Nat /\ CarrierCount(o) \in Nat /\ DeciderCount(o) \in Nat /\ EntryCount(o) \in Nat
        /\ HolderCount(o)' \in Int /\ CarrierCount(o)' \in Int /\ DeciderCount(o)' \in Int /\ EntryCount(o)' \in Int
     <2>1. /\ IsFiniteSet(Holders(o)) /\ IsFiniteSet(Carriers(o)) /\ IsFiniteSet(Deciders(o)) /\ IsFiniteSet(EntriesOf(o))
        BY <1>0, SetsFinite
     <2>2. IsFiniteSet(Thread \X Key) /\ IsFiniteSet(Thread) /\ IsFiniteSet(Key)
        BY FiniteAssumption, FS_Product
     <2>3. Holders(o)' \subseteq Thread \X Key /\ Carriers(o)' \subseteq Thread /\ Deciders(o)' \subseteq Thread
        BY DEF Holders, Carriers, Deciders
     <2>4. EntriesOf(o)' \subseteq Key
        BY <1>0 DEF Types, EntriesOf
     <2>5. /\ IsFiniteSet(Holders(o)') /\ IsFiniteSet(Carriers(o)') /\ IsFiniteSet(Deciders(o)') /\ IsFiniteSet(EntriesOf(o)')
        BY <2>2, <2>3, <2>4, FS_Subset
     <2> QED BY <2>1, <2>5, FS_CardinalityType DEF HolderCount, CarrierCount, DeciderCount, EntryCount
  <1>3. /\ hard[o] \in Int /\ soft[o] \in Int /\ total[o] \in Int
        /\ hard'[o] \in Int /\ soft'[o] \in Int /\ total'[o] \in Int
     BY <1>0 DEF Types
  <1>4. NoValue # o
     BY NoValueAssumption
  <1>t. hard \in [Obj -> Int] /\ soft \in [Obj -> Int] /\ total \in [Obj -> Int]
     BY <1>0 DEF Types
  <1>5. ASSUME Others(t), UNCHANGED <<table, hard, soft, total, held>>,
               Carrying(t, o)' <=> Carrying(t, o), Deciding(t, o)' <=> Deciding(t, o)
        PROVE  RefsFor(o)'
     <2>1. HolderCount(o)' = HolderCount(o) /\ CarrierCount(o)' = CarrierCount(o) /\ DeciderCount(o)' = DeciderCount(o)
        BY <1>0, <1>5, StayCounts
     <2>2. EntryCount(o)' = EntryCount(o)
        BY <1>0, <1>5, EntryChange
     <2>3. hard'[o] = hard[o] /\ soft'[o] = soft[o] /\ total'[o] = total[o]
        BY <1>5
     <2>4. RefsFor(o)
        BY RefsAre
     <2>5. RefsFor(o)' <=> /\ hard'[o] = HolderCount(o)' + CarrierCount(o)'
                           /\ soft'[o] = EntryCount(o)'
                           /\ total'[o] = hard'[o] + soft'[o] + DeciderCount(o)'
        BY DEF RefsFor
     <2> QED BY <2>1, <2>2, <2>3, <2>4, <2>5 DEF RefsFor
  <1>6. ASSUME NEW k \in Key, Get(t, k) PROVE RefsFor(o)'
     <2>1. /\ Others(t) /\ pc[t] = "idle" /\ pc'[t] = "poll"
           /\ UNCHANGED <<table, hard, soft, total, held>>
        BY <1>0, <1>6, GetEffect DEF cacheVars, objVars
     <2> QED BY <1>5, <2>1 DEF Carrying, InFlight, Deciding
  <1>7. ASSUME NEW k \in Key, SliceVisit(t, k) PROVE RefsFor(o)'
     <2>1. /\ Others(t) /\ pc[t] = "slice" /\ k \in Keys /\ Visited(k) /\ UNCHANGED hard
           /\ Ended(t) \/ UNCHANGED <<pc, stack, held, val>>
        BY <1>0, <1>7, SliceVisitEffect
     <2>2. /\ HolderCount(o)' + CarrierCount(o)' = HolderCount(o) + CarrierCount(o)
           /\ DeciderCount(o)' = DeciderCount(o)
        <3>1. CASE Ended(t)
           BY <1>0, <2>1, <3>1, StartedCounts
        <3>2. CASE UNCHANGED <<pc, stack, held, val>>
           <4>1. (Carrying(t, o)' <=> Carrying(t, o)) /\ (Deciding(t, o)' <=> Deciding(t, o))
              BY <3>2 DEF Carrying, InFlight, Deciding
           <4> QED BY <1>0, <2>1, <3>2, <4>1, StayCounts
        <3> QED BY <2>1, <3>1, <3>2
     <2>3. /\ EntryCount(o)' - EntryCount(o) = soft'[o] - soft[o]
           /\ total'[o] - total[o] = soft'[o] - soft[o]
        BY <1>0, <2>1, VisitedCounts
     <2> QED BY <1>0, <1>2, <1>3, <2>1, <2>2, <2>3, RefsSum
  <1>8. ASSUME NEW k \in Key, FlushVisit(t, k) PROVE RefsFor(o)'
     <2>1. k \in Keys
        BY <1>0, <1>8 DEF FlushVisit, TodoInv
     <2>2. Others(t) /\ Visited(k) /\ UNCHANGED <<pc, stack, held, val, hard>>
        BY <1>0, <1>8, <2>1, FlushVisitEffect
     <2>3. (Carrying(t, o)' <=> Carrying(t, o)) /\ (Deciding(t, o)' <=> Deciding(t, o))
        BY <2>2 DEF Carrying, InFlight, Deciding
     <2>4. HolderCount(o)' = HolderCount(o) /\ CarrierCount(o)' = CarrierCount(o) /\ DeciderCount(o)' = DeciderCount(o)
        BY <1>0, <2>2, <2>3, StayCounts
     <2>5. /\ EntryCount(o)' - EntryCount(o) = soft'[o] - soft[o]
           /\ total'[o] - total[o] = soft'[o] - soft[o]
        BY <1>0, <2>1, <2>2, VisitedCounts
     <2> QED BY <1>0, <1>2, <1>3, <2>2, <2>4, <2>5, RefsSum
  <1>9. ASSUME PollHits(t) PROVE RefsFor(o)'
     <2> DEFINE p == table[Last(stack[t])].value
                r == table[Last(stack[t])].status
     <2>1. /\ Others(t) /\ pc[t] = "poll" /\ Back(t, p, r) /\ UNCHANGED <<table, soft>>
           /\ \/ p = NoValue /\ UNCHANGED <<items, hard, total>>
              \/ p \in Obj /\ AddRef(p)
        BY <1>0, <1>9, PollHitsEffect
     <2> HIDE DEF p, r
     <2>2. ~Carrying(t, o) /\ pc[t] # "decTotal"
        BY <2>1 DEF Carrying, InFlight
     <2>3. /\ HolderCount(o)' + CarrierCount(o)' = HolderCount(o) + CarrierCount(o) + (IF p = o THEN 1 ELSE 0)
           /\ DeciderCount(o)' = DeciderCount(o)
        BY <1>0, <1>2, <2>1, <2>2, BackCounts
     <2>4. EntryCount(o)' = EntryCount(o)
        BY <1>0, <2>1, EntryChange
     <2>5. /\ hard'[o] = hard[o] + (IF p = o THEN 1 ELSE 0)
           /\ total'[o] = total[o] + (IF p = o THEN 1 ELSE 0)
        <3>1. CASE p = NoValue /\ UNCHANGED <<items, hard, total>>
           BY <1>3, <1>4, <3>1
        <3>2. CASE p \in Obj /\ AddRef(p)
           <4>1. hard' = [hard EXCEPT ![p] = @ + 1] /\ total' = [total EXCEPT ![p] = @ + 1]
              BY <3>2 DEF AddRef
           <4> QED BY <1>t, <3>2, <4>1, AddAt
        <3> QED BY <2>1, <3>1, <3>2
     <2> QED BY <1>0, <1>2, <1>3, <2>1, <2>3, <2>4, <2>5, RefsSum
  <1>10. ASSUME PollMisses(t) PROVE RefsFor(o)'
     <2> DEFINE c == Last(stack[t])
     <2>1. /\ Others(t) /\ pc[t] = "poll" /\ c \in Key \ Keys /\ UNCHANGED <<hard, soft, total>>
           /\ \/ /\ Keys' = Keys \cup {c}
                 /\ table'[c] = [value |-> NoValue, status |-> "ok", master |-> FALSE]
                 /\ \A j \in Keys : table'[j] = table[j]
                 /\ pc'[t] = "create"
                 /\ UNCHANGED held
              \/ Back(t, NoValue, "error") /\ UNCHANGED table
        BY <1>0, <1>10, PollMissesEffect DEF objVars
     <2> HIDE DEF c
     <2>2. ~Carrying(t, o) /\ pc[t] # "decTotal"
        BY <2>1 DEF Carrying, InFlight
     <2>3. CASE Back(t, NoValue, "error") /\ UNCHANGED table
        <3>1. /\ HolderCount(o)' + CarrierCount(o)' = HolderCount(o) + CarrierCount(o)
              /\ DeciderCount(o)' = DeciderCount(o)
           BY <1>0, <1>2, <1>4, <2>1, <2>2, <2>3, BackCounts
        <3>2. EntryCount(o)' = EntryCount(o)
           BY <1>0, <2>3, EntryChange
        <3> QED BY <1>0, <1>2, <1>3, <2>1, <3>1, <3>2, RefsSum
     <2>4. CASE /\ Keys' = Keys \cup {c}
                /\ table'[c] = [value |-> NoValue, status |-> "ok", master |-> FALSE]
                /\ \A j \in Keys : table'[j] = table[j]
                /\ pc'[t] = "create"
                /\ UNCHANGED held
        <3>1. HolderCount(o)' = HolderCount(o) /\ CarrierCount(o)' = CarrierCount(o) /\ DeciderCount(o)' = DeciderCount(o)
           <4>1. (Carrying(t, o)' <=> Carrying(t, o)) /\ (Deciding(t, o)' <=> Deciding(t, o))
              <5>1. pc[t] = "poll" /\ pc'[t] = "create"
                 BY <2>1, <2>4
              <5> QED BY <5>1 DEF Carrying, InFlight, Deciding
           <4>2. held'[t] = held[t]
              BY <2>4
           <4> QED BY <1>0, <2>1, <4>1, <4>2, StayCounts
        <3>2. EntryCount(o)' = EntryCount(o)
           <4>1. EntryCount(o)' = EntryCount(o) + IF table'[c].value = o THEN 1 ELSE 0
              BY <1>0, <2>1, <2>4, EntryChange
           <4> QED BY <1>2, <1>4, <2>4, <4>1
        <3> QED BY <1>0, <1>2, <1>3, <2>1, <3>1, <3>2, RefsSum
     <2> QED BY <2>1, <2>3, <2>4
  <1>11. ASSUME CreateFromCache(t) PROVE RefsFor(o)'
     <2>1. /\ Others(t) /\ pc[t] = "create" /\ pc'[t] = "poll"
           /\ UNCHANGED <<table, hard, soft, total, held>>
        BY <1>0, <1>11, CreateFromCacheEffect DEF cacheVars, objVars
     <2> QED BY <1>5, <2>1 DEF Carrying, InFlight, Deciding
  <1>12. ASSUME NEW p \in Obj, CreateNew(t, p) PROVE RefsFor(o)'
     <2>1. /\ Others(t) /\ pc[t] = "create" /\ pc'[t] = "put" /\ val'[t] = p /\ life[p] = "unborn"
           /\ hard' = [hard EXCEPT ![p] = 1] /\ total' = [total EXCEPT ![p] = 1]
           /\ UNCHANGED <<table, soft, held>>
        BY <1>0, <1>12, CreateNewEffect DEF cacheVars
     <2>2. CASE p # o
        <3>1. (Carrying(t, o)' <=> Carrying(t, o)) /\ (Deciding(t, o)' <=> Deciding(t, o))
           BY <2>1, <2>2 DEF Carrying, InFlight, Deciding
        <3>2. HolderCount(o)' = HolderCount(o) /\ CarrierCount(o)' = CarrierCount(o) /\ DeciderCount(o)' = DeciderCount(o)
           BY <1>0, <2>1, <3>1, StayCounts
        <3>3. EntryCount(o)' = EntryCount(o)
           BY <1>0, <2>1, EntryChange
        <3>4. hard'[o] = hard[o] /\ total'[o] = total[o]
           BY <1>0, <2>1, <2>2 DEF Types
        <3> QED BY <1>0, <1>2, <1>3, <2>1, <3>2, <3>3, <3>4, RefsSum
     <2>3. CASE p = o
        <3>1. Unknown(o)
           BY <2>1, <2>3 DEF UnbornUnknown
        <3>2. HolderCount(o) = 0 /\ CarrierCount(o) = 0 /\ DeciderCount(o) = 0 /\ EntryCount(o) = 0
           <4>1. Holders(o) = {} /\ Carriers(o) = {} /\ Deciders(o) = {} /\ EntriesOf(o) = {}
              BY <3>1, NobodyAssumption DEF Unknown, Hidden, Holders, Carriers, Deciders, EntriesOf
           <4> QED BY <4>1, FS_EmptySet DEF HolderCount, CarrierCount, DeciderCount, EntryCount
        <3>3. hard[o] = 0 /\ soft[o] = 0 /\ total[o] = 0
           BY <3>2, RefsAre DEF RefsFor
        <3>4. hard'[o] = 1 /\ total'[o] = 1
           BY <1>0, <2>1, <2>3 DEF Types
        <3>5. Carrying(t, o)' /\ ~Carrying(t, o) /\ ~Deciding(t, o)' /\ ~Deciding(t, o)
           BY <2>1, <2>3 DEF Carrying, InFlight, Deciding
        <3>6. HolderCount(o)' = 0 /\ CarrierCount(o)' = 1 /\ DeciderCount(o)' = 0
           <4>1. held'[t] = held[t]
              BY <2>1
           <4>2. HolderCount(o)' = HolderCount(o)
              BY <1>0, <2>1, <4>1, HolderChange
           <4>3. /\ CarrierCount(o)' = CarrierCount(o) + (IF Carrying(t, o)' THEN 1 ELSE 0) - (IF Carrying(t, o) THEN 1 ELSE 0)
                 /\ DeciderCount(o)' = DeciderCount(o) + (IF Deciding(t, o)' THEN 1 ELSE 0) - (IF Deciding(t, o) THEN 1 ELSE 0)
              BY <1>0, <2>1, ThreadChange
           <4> QED BY <3>2, <3>5, <4>2, <4>3
        <3>7. EntryCount(o)' = EntryCount(o)
           BY <1>0, <2>1, EntryChange
        <3> QED BY <1>0, <1>2, <1>3, <2>1, <3>2, <3>3, <3>4, <3>6, <3>7, RefsSum
     <2> QED BY <2>2, <2>3
  <1>13. ASSUME CreateFails(t) PROVE RefsFor(o)'
     <2>1. /\ Others(t) /\ pc[t] = "create" /\ pc'[t] = "put" /\ val'[t] = NoValue
           /\ UNCHANGED <<table, hard, soft, total, held>>
        BY <1>0, <1>13, CreateFailsEffect DEF cacheVars, objVars
     <2> QED BY <1>4, <1>5, <2>1 DEF Carrying, InFlight, Deciding
  <1>14. ASSUME PutIfAbsentAndGet(t) PROVE RefsFor(o)'
     <2> DEFINE c == Last(stack[t])
                m == val[t] # NoValue /\ soft[val[t]] = 0
                n == CountOfItemsToEvict(Keys', items')
     <2>1. c \in Keys /\ InProgress(c) /\ pc[t] = "put"
        BY <1>0, <1>14, PutTakes DEF PutIfAbsentAndGet
     <2>2. /\ Others(t) /\ Stored(t, c, m) /\ Started(t, n) /\ UNCHANGED hard
           /\ \/ val[t] = NoValue /\ UNCHANGED <<soft, total>>
              \/ /\ val[t] \in Obj
                 /\ soft' = [soft EXCEPT ![val[t]] = @ + 1]
                 /\ total' = [total EXCEPT ![val[t]] = @ + 1]
        BY <1>0, <1>14, <2>1, PutStoresEffect
     <2> HIDE DEF c, n, m
     <2>3. /\ HolderCount(o)' + CarrierCount(o)' = HolderCount(o) + CarrierCount(o)
           /\ DeciderCount(o)' = DeciderCount(o)
        BY <1>0, <2>1, <2>2, StartedCounts
     <2>4. EntryCount(o)' = EntryCount(o) + IF val[t] = o THEN 1 ELSE 0
        <3>1. /\ Keys' = Keys \cup {c} /\ \A j \in Keys \ {c} : table'[j] = table[j]
              /\ table[c].value = NoValue /\ table'[c].value = val[t]
           BY <2>1, <2>2 DEF Stored, InProgress
        <3>2. EntryCount(o)' = EntryCount(o) + IF table'[c].value = o THEN 1 ELSE 0
           BY <1>0, <3>1, EntryChange
        <3> QED BY <3>1, <3>2
     <2>5. /\ soft'[o] = soft[o] + (IF val[t] = o THEN 1 ELSE 0)
           /\ total'[o] = total[o] + (IF val[t] = o THEN 1 ELSE 0)
        <3>1. CASE val[t] = NoValue /\ UNCHANGED <<soft, total>>
           BY <1>3, <1>4, <3>1
        <3>2. CASE /\ val[t] \in Obj
                   /\ soft' = [soft EXCEPT ![val[t]] = @ + 1]
                   /\ total' = [total EXCEPT ![val[t]] = @ + 1]
           BY <1>t, <3>2, AddAt
        <3> QED BY <2>2, <3>1, <3>2
     <2> QED BY <1>0, <1>2, <1>3, <2>2, <2>3, <2>4, <2>5, RefsSum
  <1>15. ASSUME RemoveRef(t) PROVE RefsFor(o)'
     <2>1. PICK h \in held[t] :
           /\ Others(t) /\ pc[t] = "idle" /\ pc'[t] = "decTotal"
           /\ h = <<h[1], h[2]>> /\ h[1] \in Key /\ h[2] \in Obj
           /\ held'[t] = held[t] \ {h} /\ val'[t] = h[2]
           /\ hard' = [hard EXCEPT ![h[2]] = @ - 1]
           /\ UNCHANGED <<table, soft, total>>
        BY <1>0, <1>15, RemoveRefEffect DEF cacheVars
     <2> DEFINE p == h[2]
     <2>2. HolderCount(o)' = HolderCount(o) - IF p = o THEN 1 ELSE 0
        BY <1>0, <2>1, HolderChange
     <2>3. (Deciding(t, o)' <=> p = o) /\ ~Deciding(t, o) /\ ~Carrying(t, o)' /\ ~Carrying(t, o)
        BY <2>1 DEF Carrying, InFlight, Deciding
     <2>4. /\ CarrierCount(o)' = CarrierCount(o) + (IF Carrying(t, o)' THEN 1 ELSE 0) - (IF Carrying(t, o) THEN 1 ELSE 0)
           /\ DeciderCount(o)' = DeciderCount(o) + (IF Deciding(t, o)' THEN 1 ELSE 0) - (IF Deciding(t, o) THEN 1 ELSE 0)
        BY <1>0, <2>1, ThreadChange
     <2>5. EntryCount(o)' = EntryCount(o)
        BY <1>0, <2>1, EntryChange
     <2>6. hard'[o] = hard[o] - IF p = o THEN 1 ELSE 0
        <3>1. hard' = [hard EXCEPT ![p] = @ - 1] /\ p \in Obj
           BY <2>1
        <3> HIDE DEF p
        <3> QED BY <1>t, <3>1
     <2> HIDE DEF p
     <2>7. soft' = soft /\ total' = total
        BY <2>1
     <2> QED BY <1>0, <1>2, <1>3, <2>2, <2>3, <2>4, <2>5, <2>6, <2>7, RefsSum, SMTT(30)
  <1>16. ASSUME DecTotal(t) PROVE RefsFor(o)'
     <2>1. /\ Others(t) /\ pc[t] = "decTotal" /\ val[t] \in Obj /\ pc'[t] \in {"readCache", "free"}
           /\ total' = [total EXCEPT ![val[t]] = @ - 1]
           /\ UNCHANGED <<table, hard, soft, held, val>>
        BY <1>0, <1>16, DecTotalEffect DEF cacheVars
     <2>2. HolderCount(o)' = HolderCount(o)
        BY <1>0, <2>1, HolderChange
     <2>3. ~Deciding(t, o)' /\ (Deciding(t, o) <=> val[t] = o) /\ ~Carrying(t, o)' /\ ~Carrying(t, o)
        BY <2>1 DEF Carrying, InFlight, Deciding
     <2>4. /\ CarrierCount(o)' = CarrierCount(o) + (IF Carrying(t, o)' THEN 1 ELSE 0) - (IF Carrying(t, o) THEN 1 ELSE 0)
           /\ DeciderCount(o)' = DeciderCount(o) + (IF Deciding(t, o)' THEN 1 ELSE 0) - (IF Deciding(t, o) THEN 1 ELSE 0)
        BY <1>0, <2>1, ThreadChange
     <2>5. EntryCount(o)' = EntryCount(o)
        BY <1>0, <2>1, EntryChange
     <2>6. total'[o] = total[o] - IF val[t] = o THEN 1 ELSE 0
        BY <1>t, <2>1
     <2> QED BY <1>0, <1>2, <1>3, <2>1, <2>2, <2>3, <2>4, <2>5, <2>6, RefsSum
  <1>17. ASSUME ReadCachePtr(t) PROVE RefsFor(o)'
     <2>1. /\ Others(t) /\ pc[t] = "readCache" /\ pc'[t] \in {"decItems", "free"}
           /\ UNCHANGED <<table, hard, soft, total, held, val>>
        BY <1>0, <1>17, ReadCachePtrEffect DEF cacheVars, objVars, localVars
     <2> QED BY <1>5, <2>1 DEF Carrying, InFlight, Deciding
  <1>18. ASSUME DecItems(t) PROVE RefsFor(o)'
     <2> DEFINE n == CountOfItemsToEvict(Keys, items - 1)
     <2>1. Others(t) /\ pc[t] = "decItems" /\ Started(t, n) /\ UNCHANGED <<table, hard, soft, total>>
        BY <1>0, <1>18, DecItemsEffect DEF objVars
     <2> HIDE DEF n
     <2>3. /\ HolderCount(o)' + CarrierCount(o)' = HolderCount(o) + CarrierCount(o)
           /\ DeciderCount(o)' = DeciderCount(o)
        BY <1>0, <2>1, StartedCounts
     <2>4. EntryCount(o)' = EntryCount(o)
        BY <1>0, <2>1, EntryChange
     <2> QED BY <1>0, <1>2, <1>3, <2>1, <2>3, <2>4, RefsSum
  <1>19. ASSUME Free(t) PROVE RefsFor(o)'
     <2>1. /\ Others(t) /\ pc[t] = "free" /\ pc'[t] = "idle"
           /\ UNCHANGED <<table, hard, soft, total, held>>
        BY <1>0, <1>19, FreeEffect DEF cacheVars
     <2> QED BY <1>5, <2>1 DEF Carrying, InFlight, Deciding
  <1>20. ASSUME Flush(t) \/ FlushPassEnds(t) PROVE RefsFor(o)'
     <2>1. /\ Others(t) /\ pc[t] \in {"idle", "flush"} /\ pc'[t] \in {"idle", "flush"}
           /\ UNCHANGED <<table, hard, soft, total, held>>
        <3>1. CASE Flush(t)
           BY <1>0, <3>1, FlushEffect DEF cacheVars, objVars
        <3>2. CASE FlushPassEnds(t)
           BY <1>0, <3>2, FlushPassEndsEffect DEF cacheVars, objVars
        <3> QED BY <1>20, <3>1, <3>2
     <2> QED BY <1>5, <2>1 DEF Carrying, InFlight, Deciding
  <1> QED BY <1>6, <1>7, <1>8, <1>9, <1>10, <1>11, <1>12, <1>13, <1>14, <1>15, <1>16, <1>17, <1>18, <1>19,
     <1>20 DEF Step

(* The counts are exact; nobody knows an object before it is created, nor *)
(* asks for a value it holds.                                             *)
RefsInv == CreatorInv /\ UnbornUnknown /\ HeldOnce /\ RefsExact

(* No object is referred to at the start. *)
LEMMA RefsInit ==
  ASSUME Init
  PROVE  RefsInv
  <1>1. CreatorInv /\ Keys = {} /\ NoValue \notin Obj
     <2>1. Keys = {}
        BY DEF Init, Keys
     <2> QED BY <2>1, CreatorInit, NoValueAssumption
  <1>2. \A t \in Thread : val[t] = NoValue /\ held[t] = {} /\ pc[t] = "idle"
     BY DEF Init
  <1>3. \A o \in Obj : hard[o] = 0 /\ soft[o] = 0 /\ total[o] = 0 /\ ~cached[o]
     BY DEF Init
  <1>4. UnbornUnknown
     BY <1>1, <1>2, <1>3 DEF UnbornUnknown, Unknown, Hidden
  <1>5. HeldOnce
     BY <1>2 DEF HeldOnce
  <1>6. ASSUME NEW o \in Obj PROVE RefsFor(o)
     <2>1. Holders(o) = {} /\ Carriers(o) = {} /\ Deciders(o) = {} /\ EntriesOf(o) = {}
        BY <1>1, <1>2 DEF Holders, Carriers, InFlight, Deciders, EntriesOf
     <2> QED BY <1>3, <2>1, FS_EmptySet DEF RefsFor, HolderCount, CarrierCount, DeciderCount, EntryCount
  <1> QED BY <1>1, <1>4, <1>5, <1>6, RefsAre DEF RefsInv

(* RefsInv is inductive. *)
LEMMA RefsInductive ==
  RefsInv /\ [Next]_vars => RefsInv'
  <1> SUFFICES ASSUME RefsInv, [Next]_vars PROVE RefsInv'
     OBVIOUS
  <1>1. CreatorInv /\ CreatorInv' /\ Types
     BY CreatorInductive DEF RefsInv, CreatorInv, ControlInv
  <1>2. CASE Quiet
     <2>1. UnbornUnknown' /\ HeldOnce'
        BY <1>2 DEF RefsInv, UnbornUnknown, Unknown, Hidden, HeldOnce, Quiet, Keys
     <2>2. RefsExact'
        BY <1>2 DEF RefsInv, RefsExact, Quiet, Holders, Carriers, EntriesOf, InFlight, Keys
     <2> QED BY <1>1, <2>1, <2>2 DEF RefsInv
  <1>3. ASSUME NEW t \in Thread, Step(t) PROVE RefsInv'
     BY <1>1, <1>3, UnbornStep, HeldOnceStep, RefsStep DEF RefsInv
  <1> QED BY <1>1, <1>2, <1>3, Steps

(* The inductive invariant holds of every reachable state. *)
THEOREM RefsSafe == Spec => []RefsInv
  BY RefsInit, RefsInductive, PTL DEF Spec

(* Counts of something are never negative: the type invariant of the *)
(* specification.                                                    *)
LEMMA CountsNatural ==
  ASSUME RefsInv
  PROVE  TypeOK
  <1>1. Types /\ RefsExact
     BY DEF RefsInv, CreatorInv, ControlInv
  <1>2. ASSUME NEW o \in Obj PROVE hard[o] \in Nat /\ soft[o] \in Nat /\ total[o] \in Nat
     <2>1. /\ HolderCount(o) \in Nat /\ CarrierCount(o) \in Nat /\ DeciderCount(o) \in Nat /\ EntryCount(o) \in Nat
        BY <1>1, SetsFinite, FS_CardinalityType DEF HolderCount, CarrierCount, DeciderCount, EntryCount
     <2>2. RefsFor(o)
        BY <1>1, RefsAre
     <2>3. hard[o] \in Nat /\ soft[o] \in Nat
        BY <2>1, <2>2 DEF RefsFor
     <2> QED BY <2>1, <2>2, <2>3 DEF RefsFor
  <1>3. hard \in [Obj -> Nat] /\ soft \in [Obj -> Nat] /\ total \in [Obj -> Nat]
     BY <1>1, <1>2 DEF Types
  <1> QED BY <1>1, <1>3 DEF Types, TypeOK

(* hardRefCount, softRefCount and totalRefCount say what they are named *)
(* for, in every interleaving of addRef, removeRef, put, slices and     *)
(* flushes.                                                             *)
THEOREM RefsExactAlways == Spec => [](TypeOK /\ RefsExact)
  <1>1. RefsInv => TypeOK /\ RefsExact
     BY CountsNatural DEF RefsInv
  <1> QED BY <1>1, RefsSafe, PTL

(* removeRef found that no reference is left and will delete o. *)
Deleting(t, o) == gone[t] /\ val[t] = o

(* An object is deleted by the thread or the step that gave up its last reference. *)
DeletionFor(o) ==
  /\ total[o] > 0 => life[o] = "live"
  /\ life[o] = "live" => total[o] > 0 \/ \E t \in Thread : Deleting(t, o)
  /\ \A t \in Thread : Deleting(t, o) => life[o] = "live" /\ total[o] = 0
  /\ \A t, u \in Thread : Deleting(t, o) /\ Deleting(u, o) => t = u
DeletionInv == \A o \in Obj : DeletionFor(o)

(* Who refers to an object keeps its count up. *)
LEMMA TotalsSay ==
  ASSUME RefsInv, NEW o \in Obj
  PROVE  /\ total[o] \in Nat
         /\ \A k \in Keys : table[k].value = o => total[o] >= 1
         /\ \A t \in Thread : InFlight(t) /\ val[t] = o => total[o] >= 1
         /\ \A t \in Thread : pc[t] = "decTotal" /\ val[t] = o => total[o] >= 1
         /\ life[o] = "unborn" => \A t \in Thread : val[t] # o
  <1>1. Types /\ RefsFor(o)
     BY RefsAre DEF RefsInv, CreatorInv, ControlInv
  <1>2. /\ IsFiniteSet(Holders(o)) /\ IsFiniteSet(Carriers(o)) /\ IsFiniteSet(EntriesOf(o)) /\ IsFiniteSet(Deciders(o))
        /\ HolderCount(o) \in Nat /\ CarrierCount(o) \in Nat /\ EntryCount(o) \in Nat /\ DeciderCount(o) \in Nat
     BY <1>1, SetsFinite, FS_CardinalityType DEF HolderCount, CarrierCount, EntryCount, DeciderCount
  <1>3. total[o] = HolderCount(o) + CarrierCount(o) + EntryCount(o) + DeciderCount(o)
     BY <1>1, <1>2 DEF RefsFor
  <1>4. total[o] \in Nat
     BY <1>2, <1>3
  <1>5. ASSUME NEW k \in Keys, table[k].value = o PROVE total[o] >= 1
     <2>1. k \in EntriesOf(o)
        BY <1>5 DEF EntriesOf
     <2>2. EntryCount(o) # 0
        BY <1>2, <2>1, FS_EmptySet DEF EntryCount
     <2> QED BY <1>2, <1>3, <2>2
  <1>6. ASSUME NEW t \in Thread, InFlight(t), val[t] = o PROVE total[o] >= 1
     <2>1. t \in Carriers(o)
        BY <1>6 DEF Carriers
     <2>2. CarrierCount(o) # 0
        BY <1>2, <2>1, FS_EmptySet DEF CarrierCount
     <2> QED BY <1>2, <1>3, <2>2
  <1>7. ASSUME NEW t \in Thread, pc[t] = "decTotal", val[t] = o PROVE total[o] >= 1
     <2>1. t \in Deciders(o)
        BY <1>7 DEF Deciders
     <2>2. DeciderCount(o) # 0
        BY <1>2, <2>1, FS_EmptySet DEF DeciderCount
     <2> QED BY <1>2, <1>3, <2>2
  <1>8. life[o] = "unborn" => \A t \in Thread : val[t] # o
     BY NobodyAssumption DEF RefsInv, UnbornUnknown, Unknown, Hidden
  <1> QED BY <1>4, <1>5, <1>6, <1>7, <1>8

(* An object whose count and deleters stay is deleted no sooner and no *)
(* later.                                                              *)
LEMMA DeletionStays ==
  ASSUME NEW t \in Thread, Others(t), NEW o \in Obj, DeletionFor(o), life'[o] = life[o],
         total'[o] = total[o] \/ (total[o] > 0 /\ total'[o] > 0),
         Deleting(t, o)' <=> Deleting(t, o)
  PROVE  DeletionFor(o)'
  <1>1. \A u \in Thread : Deleting(u, o)' <=> Deleting(u, o)
     BY DEF Others, Deleting
  <1>2. CASE total'[o] = total[o]
     BY <1>1, <1>2 DEF DeletionFor
  <1>3. CASE total[o] > 0 /\ total'[o] > 0
     <2>1. life[o] = "live"
        BY <1>3 DEF DeletionFor
     <2>2. \A u \in Thread : ~Deleting(u, o)
        BY <1>3 DEF DeletionFor
     <2> QED BY <1>1, <1>3, <2>1, <2>2 DEF DeletionFor
  <1> QED BY <1>2, <1>3

(* An eviction gives up one reference, and deletes what it was the last of. *)
LEMMA DeletionVisited ==
  ASSUME RefsInv, NEW t \in Thread, Others(t), NEW o \in Obj, DeletionFor(o), NEW k \in Keys, Visited(k),
         Deleting(t, o)' <=> Deleting(t, o)
  PROVE  DeletionFor(o)'
  <1>0. Types
     BY DEF RefsInv, CreatorInv, ControlInv
  <1>1. CASE IsEvictable(k) /\ table[k].value = o
     <2>1. total[o] \in Nat /\ total[o] >= 1
        BY <1>1, TotalsSay
     <2>2. total' = [total EXCEPT ![o] = @ - 1] /\ life' = [life EXCEPT ![o] = IF total[o] = 1 THEN "deleted" ELSE @]
        BY <1>1, NoValueAssumption DEF Visited, Dropped
     <2>3. total'[o] = total[o] - 1 /\ life'[o] = IF total[o] = 1 THEN "deleted" ELSE life[o]
        BY <1>0, <2>2 DEF Types
     <2>4. CASE total[o] = 1
        <3>1. \A u \in Thread : ~Deleting(u, o)
           BY <2>4 DEF DeletionFor
        <3>2. \A u \in Thread : ~Deleting(u, o)'
           BY <3>1 DEF Others, Deleting
        <3>3. total'[o] = 0 /\ life'[o] = "deleted"
           BY <2>3, <2>4
        <3> QED BY <3>2, <3>3 DEF DeletionFor
     <2>5. CASE total[o] # 1
        BY <2>1, <2>3, <2>5, DeletionStays
     <2> QED BY <2>4, <2>5
  <1>2. CASE ~(IsEvictable(k) /\ table[k].value = o)
     <2>1. total'[o] = total[o] /\ life'[o] = life[o]
        BY <1>0, <1>2 DEF Visited, Dropped, Types
     <2> QED BY <2>1, DeletionStays
  <1> QED BY <1>1, <1>2

(* Every step keeps deletion right. *)
LEMMA DeletionStep ==
  ASSUME RefsInv, DeletionInv, NEW t \in Thread, Step(t)
  PROVE  DeletionInv'
  <1>0. CreatorInv /\ ControlInv /\ OneCreator /\ TodoInv /\ Types
     BY DEF RefsInv, CreatorInv, ControlInv
  <1>1. SUFFICES ASSUME NEW o \in Obj PROVE DeletionFor(o)'
     BY DEF DeletionInv
  <1>2. DeletionFor(o)
     BY DEF DeletionInv
  <1>n. ASSUME gone' = gone, ~Removing(t) PROVE Deleting(t, o)' <=> Deleting(t, o)
     BY <1>0, <1>n, NotRemoving DEF Deleting
  <1>s. ASSUME gone' = gone, val'[t] = val[t] PROVE Deleting(t, o)' <=> Deleting(t, o)
     BY <1>s DEF Deleting
  <1>3. ASSUME NEW k \in Key, Get(t, k) PROVE DeletionFor(o)'
     <2>1. Others(t) /\ pc[t] = "idle" /\ UNCHANGED <<life, total, gone>>
        BY <1>0, <1>3, GetEffect DEF objVars, localVars
     <2>2. ~Removing(t)
        BY <2>1 DEF Removing
     <2> QED BY <1>2, <1>n, <2>1, <2>2, DeletionStays
  <1>4. ASSUME NEW k \in Key, SliceVisit(t, k) PROVE DeletionFor(o)'
     <2>1. /\ Others(t) /\ pc[t] = "slice" /\ k \in Keys /\ Visited(k) /\ gone' = gone
           /\ Ended(t) \/ UNCHANGED <<stack, val>>
        BY <1>0, <1>4, SliceVisitEffect
     <2>2. Len(stack[t]) > 0 => ~Removing(t)
        BY <2>1 DEF Removing
     <2>3. Len(stack[t]) > 0 \/ val'[t] = val[t]
        BY <2>1 DEF Ended
     <2> QED BY <1>2, <1>n, <1>s, <2>1, <2>2, <2>3, DeletionVisited
  <1>5. ASSUME NEW k \in Key, FlushVisit(t, k) PROVE DeletionFor(o)'
     <2>1. k \in Keys
        BY <1>0, <1>5 DEF FlushVisit, TodoInv
     <2>2. Others(t) /\ Visited(k) /\ gone' = gone /\ val' = val
        BY <1>0, <1>5, <2>1, FlushVisitEffect
     <2> QED BY <1>2, <1>s, <2>1, <2>2, DeletionVisited
  <1>6. ASSUME PollHits(t) PROVE DeletionFor(o)'
     <2> DEFINE k == Last(stack[t])
                p == table[k].value
     <2>1. /\ Others(t) /\ pc[t] = "poll" /\ k \in Keys /\ UNCHANGED <<life, gone>>
           /\ (p = NoValue /\ UNCHANGED total) \/ (p \in Obj /\ AddRef(p))
        BY <1>0, <1>6, PollHitsEffect
     <2>2. ~Removing(t)
        BY <2>1 DEF Removing
     <2>3. CASE p = o
        <3>1. total' = [total EXCEPT ![o] = @ + 1]
           BY <2>1, <2>3, NoValueAssumption DEF AddRef
        <3>2. total'[o] = total[o] + 1
           BY <1>0, <3>1 DEF Types
        <3>3. total[o] \in Nat /\ total[o] >= 1
           BY <2>1, <2>3, TotalsSay
        <3>4. total[o] > 0 /\ total'[o] > 0
           BY <3>2, <3>3
        <3> QED BY <1>2, <1>n, <2>1, <2>2, <3>4, DeletionStays
     <2>4. CASE p # o
        <3>1. total'[o] = total[o]
           BY <1>0, <2>1, <2>4 DEF AddRef, Types
        <3> QED BY <1>2, <1>n, <2>1, <2>2, <3>1, DeletionStays
     <2> QED BY <2>3, <2>4
  <1>7. ASSUME PollMisses(t) PROVE DeletionFor(o)'
     <2>1. Others(t) /\ pc[t] = "poll" /\ UNCHANGED <<life, total, gone>>
        BY <1>0, <1>7, PollMissesEffect DEF objVars
     <2>2. ~Removing(t)
        BY <2>1 DEF Removing
     <2> QED BY <1>2, <1>n, <2>1, <2>2, DeletionStays
  <1>8. ASSUME CreateFromCache(t) \/ CreateFails(t) PROVE DeletionFor(o)'
     <2>1. Others(t) /\ pc[t] = "create" /\ UNCHANGED <<life, total, gone>>
        BY <1>0, <1>8, CreateFromCacheEffect, CreateFailsEffect DEF objVars, localVars
     <2>2. ~Removing(t)
        BY <2>1 DEF Removing
     <2> QED BY <1>2, <1>n, <2>1, <2>2, DeletionStays
  <1>9. ASSUME NEW p \in Obj, CreateNew(t, p) PROVE DeletionFor(o)'
     <2>1. /\ Others(t) /\ pc[t] = "create" /\ gone' = gone /\ val'[t] = p /\ life[p] = "unborn"
           /\ life' = [life EXCEPT ![p] = "live"] /\ total' = [total EXCEPT ![p] = 1]
        BY <1>0, <1>9, CreateNewEffect
     <2>2. ~Removing(t)
        BY <2>1 DEF Removing
     <2>3. CASE p = o
        <3>1. life'[o] = "live" /\ total'[o] = 1
           BY <1>0, <2>1, <2>3 DEF Types
        <3>2. \A u \in Thread : ~Deleting(u, o)
           BY <2>1, <2>3, TotalsSay DEF Deleting
        <3>3. \A u \in Thread : ~Deleting(u, o)'
           BY <1>n, <2>1, <2>2, <3>2 DEF Others, Deleting
        <3> QED BY <3>1, <3>3 DEF DeletionFor
     <2>4. CASE p # o
        <3>1. life'[o] = life[o] /\ total'[o] = total[o]
           BY <1>0, <2>1, <2>4 DEF Types
        <3> QED BY <1>2, <1>n, <2>1, <2>2, <3>1, DeletionStays
     <2> QED BY <2>3, <2>4
  <1>10. ASSUME PutIfAbsentAndGet(t) PROVE DeletionFor(o)'
     <2>1. InProgress(Last(stack[t])) /\ pc[t] = "put"
        BY <1>0, <1>10, PutTakes DEF PutIfAbsentAndGet
     <2>2. /\ Others(t) /\ UNCHANGED <<life, gone>> /\ Len(stack[t]) > 0
           /\ \/ UNCHANGED total
              \/ val[t] \in Obj /\ total' = [total EXCEPT ![val[t]] = @ + 1]
        BY <1>0, <1>10, <2>1, PutStoresEffect
     <2>3. ~Removing(t)
        BY <2>1 DEF Removing
     <2>4. CASE total'[o] = total[o]
        BY <1>2, <1>n, <2>2, <2>3, <2>4, DeletionStays
     <2>5. CASE total'[o] # total[o]
        <3>1. val[t] = o /\ total'[o] = total[o] + 1
           BY <1>0, <2>2, <2>5 DEF Types
        <3>2. total[o] \in Nat /\ total[o] >= 1
           BY <2>1, <3>1, TotalsSay DEF InFlight
        <3>3. total[o] > 0 /\ total'[o] > 0
           BY <3>1, <3>2
        <3> QED BY <1>2, <1>n, <2>2, <2>3, <3>3, DeletionStays
     <2> QED BY <2>4, <2>5
  <1>11. ASSUME RemoveRef(t) PROVE DeletionFor(o)'
     <2>1. Others(t) /\ pc[t] = "idle" /\ UNCHANGED <<life, total, gone>>
        BY <1>0, <1>11, RemoveRefEffect
     <2>2. ~Removing(t)
        BY <2>1 DEF Removing
     <2> QED BY <1>2, <1>n, <2>1, <2>2, DeletionStays
  <1>12. ASSUME DecTotal(t) PROVE DeletionFor(o)'
     <2>1. /\ Others(t) /\ pc[t] = "decTotal" /\ total' = [total EXCEPT ![val[t]] = @ - 1]
           /\ gone'[t] = (total[val[t]] = 1) /\ UNCHANGED <<life, val>>
        BY <1>0, <1>12, DecTotalEffect DEF objVars
     <2>2. ~gone[t]
        BY <1>0, <2>1 DEF ControlInv, Control
     <2>3. CASE val[t] = o
        <3>1. total[o] \in Nat /\ total[o] >= 1
           BY <2>1, <2>3, TotalsSay
        <3>2. total'[o] = total[o] - 1 /\ life'[o] = life[o] /\ life[o] = "live"
           BY <1>0, <1>2, <2>1, <2>3, <3>1 DEF Types, DeletionFor
        <3>3. Deleting(t, o)' <=> total[o] = 1
           BY <2>1, <2>3 DEF Deleting
        <3>4. \A u \in Thread \ {t} : ~Deleting(u, o)'
           <4>1. total[o] # 0
              BY <3>1
           <4> QED BY <1>2, <2>1, <4>1 DEF DeletionFor, Others, Deleting
        <3>5. CASE total[o] = 1
           <4>1. total'[o] = 0
              BY <3>2, <3>5
           <4> QED BY <3>2, <3>3, <3>4, <3>5, <4>1 DEF DeletionFor
        <3>6. CASE total[o] # 1
           <4>1. total'[o] > 0
              BY <3>1, <3>2, <3>6
           <4> QED BY <3>2, <3>3, <3>4, <3>6, <4>1 DEF DeletionFor
        <3> QED BY <3>5, <3>6
     <2>4. CASE val[t] # o
        <3>1. total'[o] = total[o] /\ (Deleting(t, o)' <=> Deleting(t, o))
           BY <1>0, <2>1, <2>4 DEF Types, Deleting
        <3> QED BY <1>2, <2>1, <3>1, DeletionStays
     <2> QED BY <2>3, <2>4
  <1>13. ASSUME ReadCachePtr(t) PROVE DeletionFor(o)'
     <2>1. Others(t) /\ UNCHANGED <<life, total, gone, val>>
        BY <1>0, <1>13, ReadCachePtrEffect DEF objVars, localVars
     <2> QED BY <1>2, <1>s, <2>1, DeletionStays
  <1>14. ASSUME DecItems(t) PROVE DeletionFor(o)'
     <2> DEFINE n == CountOfItemsToEvict(Keys, items - 1)
     <2>1. Others(t) /\ UNCHANGED <<life, total, gone>> /\ Started(t, n) /\ Len(stack[t]) = 0
        BY <1>0, <1>14, DecItemsEffect DEF objVars
     <2> HIDE DEF n
     <2>2. val'[t] = val[t]
        BY <2>1 DEF Started, Ended
     <2> QED BY <1>2, <1>s, <2>1, <2>2, DeletionStays
  <1>15. ASSUME Free(t) PROVE DeletionFor(o)'
     <2>1. /\ Others(t) /\ val[t] \in Obj /\ gone'[t] = FALSE /\ total' = total
           /\ life' = IF gone[t] THEN [life EXCEPT ![val[t]] = "deleted"] ELSE life
        BY <1>0, <1>15, FreeEffect
     <2>2. CASE Deleting(t, o)
        <3>1. life'[o] = "deleted" /\ total'[o] = 0
           BY <1>0, <1>2, <2>1, <2>2 DEF Types, Deleting, DeletionFor
        <3>2. \A u \in Thread : ~Deleting(u, o)'
           BY <1>2, <2>1, <2>2 DEF Others, Deleting, DeletionFor
        <3> QED BY <3>1, <3>2 DEF DeletionFor
     <2>3. CASE ~Deleting(t, o)
        <3>1. life'[o] = life[o]
           BY <1>0, <2>1, <2>3 DEF Types, Deleting
        <3>2. Deleting(t, o)' <=> Deleting(t, o)
           BY <2>1, <2>3 DEF Deleting
        <3> QED BY <1>2, <2>1, <3>1, <3>2, DeletionStays
     <2> QED BY <2>2, <2>3
  <1>16. ASSUME Flush(t) \/ FlushPassEnds(t) PROVE DeletionFor(o)'
     <2>1. Others(t) /\ UNCHANGED <<life, total, gone, val>>
        BY <1>0, <1>16, FlushEffect, FlushPassEndsEffect DEF objVars
     <2> QED BY <1>2, <1>s, <2>1, DeletionStays
  <1> QED BY <1>3, <1>4, <1>5, <1>6, <1>7, <1>8, <1>9, <1>10, <1>11, <1>12, <1>13, <1>14, <1>15, <1>16
     DEF Step

(* The invariant, in the words of DeletedOnce. *)
LEMMA DeletionSays ==
  ASSUME RefsInv, DeletionInv
  PROVE  DeletedOnce
  <1>1. SUFFICES ASSUME NEW o \in Obj
                 PROVE  LET deleters == {t \in Thread : gone[t] /\ val[t] = o}
                        IN  /\ total[o] > 0 => life[o] = "live"
                            /\ life[o] = "live" => total[o] > 0 \/ deleters # {}
                            /\ deleters # {} => life[o] = "live" /\ Cardinality(deleters) = 1
     BY DEF DeletedOnce
  <1> DEFINE deleters == {t \in Thread : gone[t] /\ val[t] = o}
  <1>2. DeletionFor(o) /\ \A t \in Thread : t \in deleters <=> Deleting(t, o)
     BY DEF DeletionInv, Deleting
  <1>3. ASSUME NEW t \in deleters PROVE Cardinality(deleters) = 1
     <2>1. deleters = {t}
        BY <1>2 DEF DeletionFor
     <2> QED BY <2>1, FS_Singleton
  <1> QED BY <1>2, <1>3 DEF DeletionFor

(* There is nothing to delete at the start. *)
LEMMA DeletionInit ==
  ASSUME Init
  PROVE  DeletionInv
  <1>1. ASSUME NEW o \in Obj PROVE total[o] = 0 /\ life[o] = "unborn" /\ \A t \in Thread : ~Deleting(t, o)
     BY DEF Init, Deleting
  <1>2. ASSUME NEW o \in Obj PROVE DeletionFor(o)
     BY <1>1 DEF DeletionFor
  <1> QED BY <1>2 DEF DeletionInv

(* DeletionInv is inductive relative to RefsInv. *)
LEMMA DeletionInductive ==
  RefsInv /\ DeletionInv /\ [Next]_vars => DeletionInv'
  <1> SUFFICES ASSUME RefsInv, DeletionInv, [Next]_vars PROVE DeletionInv'
     OBVIOUS
  <1>1. Types
     BY DEF RefsInv, CreatorInv, ControlInv
  <1>2. CASE Quiet
     BY <1>2 DEF Quiet, DeletionInv, DeletionFor, Deleting
  <1> QED BY <1>1, <1>2, DeletionStep, Steps

(* Both invariants hold of every reachable state. *)
THEOREM DeletionSafe == Spec => [](RefsInv /\ DeletionInv)
  <1>1. Init => RefsInv /\ DeletionInv
     BY RefsInit, DeletionInit
  <1>2. RefsInv /\ DeletionInv /\ [Next]_vars => (RefsInv /\ DeletionInv)'
     BY RefsInductive, DeletionInductive
  <1> QED BY <1>1, <1>2, PTL DEF Spec

(* removeRef and removeSoftRef between them delete every object once, when *)
(* its last reference is gone, whichever of them gives that up.            *)
THEOREM DeletedOnceAlways == Spec => []DeletedOnce
  BY DeletionSays, DeletionSafe, PTL

-------------------------------------------------------------------------------
(* Values. *)

(* The key of the innermost call. *)
Top(t) == stack[t][Len(stack[t])]

(* A value its creator has not put into the cache yet is known to it alone. *)
Fresh(t) == pc[t] = "put" /\ val[t] \in Obj /\ Alias[Top(t)] = NoKey
FreshHidden == \A t \in Thread : Fresh(t) => Hidden(val[t], t)

(* The key whose entry is the master of the value a key leads to. *)
Root(k) == IF Alias[k] = NoKey THEN k ELSE Alias[k]
Leads(k, o) == Root(k) \in Keys /\ table[Root(k)].value = o

(* A value's first entry is its master and the one its other keys lead to, *)
(* in the table, in clients' hands and on the way to them.                 *)
MasterInv == \A k \in Keys : table[k].value \in Obj =>
   /\ table[k].master <=> Alias[k] = NoKey
   /\ Leads(k, table[k].value)
   /\ cached[table[k].value]
HeldLeads    == \A t \in Thread : \A h \in held[t] : Leads(h[1], h[2])
CarriedLeads == \A t \in Thread : InFlight(t) /\ val[t] \in Obj /\ ~Fresh(t) => Leads(Top(t), val[t])

(* How a step changes the hash table. *)
Marks(k) == /\ lock = Nobody /\ k \in Key \ Keys /\ Keys' = Keys \cup {k}
            /\ table'[k] = [value |-> NoValue, status |-> "ok", master |-> FALSE]
            /\ \A j \in Keys : table'[j] = table[j]
IsMaster(t) == val[t] # NoValue /\ soft[val[t]] = 0
Stores(t) == lock = Nobody /\ pc[t] = "put" /\ Top(t) \in Keys /\ InProgress(Top(t)) /\ Stored(t, Top(t), IsMaster(t))
Evicts(t, k) == k \in Keys /\ IsEvictable(k) /\ Removed(k) /\ lock = t

(* Keys lead to keys that create their own values, in one step. *)
LEMMA RootFacts ==
  ASSUME NEW k \in Key
  PROVE  Root(k) \in Key /\ Alias[Root(k)] = NoKey /\ Root(Root(k)) = Root(k)
  BY AliasAssumption DEF Root

(* The key of a thread's innermost call, and of the call around it. *)
LEMMA TopFacts ==
  ASSUME ControlInv, NEW t \in Thread, Len(stack[t]) > 0
  PROVE  /\ Len(stack[t]) \in {1, 2} /\ Top(t) = Last(stack[t]) /\ Top(t) \in Key
         /\ Len(stack[t]) = 1 => Top(t) = stack[t][1]
         /\ Len(stack[t]) = 2 => /\ Top(t) = stack[t][2] /\ stack[t][1] \in Key /\ Alias[stack[t][1]] = stack[t][2]
                                 /\ Alias[stack[t][1]] # NoKey /\ Alias[stack[t][2]] = NoKey
                                 /\ Root(stack[t][1]) = Top(t) /\ Root(Top(t)) = Top(t)
  <1> DEFINE l == Len(stack[t])
  <1>1. l > 0 /\ l \in {0, 1, 2}
     BY StackTypes
  <1>2. Last(stack[t]) = stack[t][l] /\ Last(stack[t]) \in Key /\ stack[t][1] \in Key
     BY <1>1, StackTypes
  <1>3. l = 2 => /\ Alias[stack[t][1]] = stack[t][2]
                 /\ Alias[stack[t][1]] # NoKey /\ Alias[stack[t][2]] = NoKey
     BY StackTypes
  <1>4. Top(t) = stack[t][l]
     BY DEF Top
  <1> HIDE DEF l
  <1>5. l \in {1, 2}
     BY <1>1
  <1> QED BY <1>2, <1>3, <1>4, <1>5 DEF l, Root

(* A step marks one entry, stores one value, evicts one entry or leaves the *)
(* table.                                                                   *)
LEMMA TableChange ==
  ASSUME CreatorInv, NEW t \in Thread, Step(t)
  PROVE  \/ UNCHANGED table
         \/ \E k \in Key : Marks(k)
         \/ Stores(t)
         \/ \E k \in Key : Evicts(t, k)
  <1>0. ControlInv /\ OneCreator /\ TodoInv
     BY DEF CreatorInv
  <1>3. ASSUME NEW k \in Key, Get(t, k) PROVE UNCHANGED table
     BY <1>0, <1>3, GetEffect DEF cacheVars
  <1>4. ASSUME NEW k \in Key, SliceVisit(t, k) \/ FlushVisit(t, k)
        PROVE UNCHANGED table \/ \E j \in Key : Evicts(t, j)
     <2>1. k \in Keys
        BY <1>0, <1>4 DEF FlushVisit, SliceVisit, TodoInv
     <2>2. pc[t] \in {"slice", "flush"} /\ Visited(k)
        BY <1>0, <1>4, <2>1, SliceVisitEffect, FlushVisitEffect
     <2>3. lock = t
        BY <1>0, <2>2 DEF ControlInv, LockInv
     <2> QED BY <2>1, <2>2, <2>3 DEF Visited, Evicts
  <1>5. ASSUME PollMisses(t) PROVE UNCHANGED table \/ \E k \in Key : Marks(k)
     BY <1>0, <1>5, PollMissesEffect DEF Marks
  <1>6. ASSUME PutIfAbsentAndGet(t) PROVE Stores(t)
     <2>1. lock = Nobody /\ pc[t] = "put" /\ Last(stack[t]) \in Keys /\ InProgress(Last(stack[t]))
        BY <1>0, <1>6, PutTakes DEF PutIfAbsentAndGet
     <2>2. Last(stack[t]) = Top(t) /\ Stored(t, Last(stack[t]), IsMaster(t))
        BY <1>0, <1>6, <2>1, PutStoresEffect DEF Top, IsMaster
     <2> QED BY <2>1, <2>2 DEF Stores
  <1>7. ASSUME PollHits(t) \/ CreateFromCache(t) \/ (\E o \in Obj : CreateNew(t, o)) \/ CreateFails(t) PROVE UNCHANGED table
     BY <1>0, <1>7, PollHitsEffect, CreateFromCacheEffect, CreateNewEffect, CreateFailsEffect DEF cacheVars
  <1>8. ASSUME RemoveRef(t) \/ DecTotal(t) \/ ReadCachePtr(t) \/ DecItems(t) \/ Free(t) PROVE UNCHANGED table
     BY <1>0, <1>8, RemoveRefEffect, DecTotalEffect, ReadCachePtrEffect, DecItemsEffect, FreeEffect
        DEF cacheVars
  <1>9. ASSUME Flush(t) \/ FlushPassEnds(t) PROVE UNCHANGED table
     BY <1>0, <1>9, FlushEffect, FlushPassEndsEffect DEF cacheVars
  <1> QED BY <1>3, <1>4, <1>5, <1>6, <1>7, <1>8, <1>9 DEF Step

(* A fresh value is made by createObject and becomes known by _put only. *)
LEMMA FreshStep ==
  ASSUME RefsInv, FreshHidden, NEW t \in Thread, Step(t)
  PROVE  FreshHidden'
  <1>0. CreatorInv /\ ControlInv /\ OneCreator /\ TodoInv /\ Types /\ ControlInv'
     BY ControlStep DEF RefsInv, CreatorInv, ControlInv
  <1>1. SUFFICES ASSUME NEW v \in Thread, Fresh(v)' PROVE Hidden(val[v], v)'
     BY DEF FreshHidden
  <1>o. ASSUME NEW x, NEW y, Back(t, x, y) PROVE pc'[t] = "put" => Alias[Top(t)'] # NoKey
     <2>1. Len(stack[t]) \in {1, 2} /\ (pc'[t] = "put" => Len(stack[t]) = 2)
        BY <1>o DEF Back
     <2>2. CASE Len(stack[t]) = 2
        <3>1. Len(stack'[t]) = 1 /\ stack'[t][1] = stack[t][1]
           BY <1>o, <2>2 DEF Back
        <3>2. Alias[stack[t][1]] # NoKey
           BY <1>0, <2>2, StackTypes
        <3> QED BY <3>1, <3>2 DEF Top
     <2> QED BY <2>1, <2>2
  <1>2. Others(t) /\ \/ pc'[t] # "put"
                     \/ Alias[Top(t)'] # NoKey
                     \/ val'[t] = NoValue
                     \/ \E o \in Obj : CreateNew(t, o)
     <2>1. ASSUME NEW k \in Key, Get(t, k) PROVE Others(t) /\ pc'[t] # "put"
        BY <1>0, <2>1, GetEffect
     <2>2. ASSUME NEW k \in Key, SliceVisit(t, k) PROVE Others(t) /\ (pc'[t] # "put" \/ Alias[Top(t)'] # NoKey)
        <3>1. Others(t) /\ pc[t] = "slice" /\ (Ended(t) \/ UNCHANGED pc)
           BY <1>0, <2>2, SliceVisitEffect
        <3> QED BY <1>o, <3>1 DEF Ended
     <2>3. ASSUME NEW k \in Key, FlushVisit(t, k) PROVE Others(t) /\ pc'[t] # "put"
        <3>1. k \in Keys
           BY <1>0, <2>3 DEF FlushVisit, TodoInv
        <3> QED BY <1>0, <2>3, <3>1, FlushVisitEffect
     <2>4. ASSUME PollHits(t) PROVE Others(t) /\ (pc'[t] # "put" \/ Alias[Top(t)'] # NoKey)
        BY <1>0, <1>o, <2>4, PollHitsEffect
     <2>5. ASSUME PollMisses(t) PROVE Others(t) /\ (pc'[t] # "put" \/ Alias[Top(t)'] # NoKey)
        <3>1. Others(t) /\ (pc'[t] = "create" \/ Back(t, NoValue, "error"))
           BY <1>0, <2>5, PollMissesEffect
        <3> QED BY <1>o, <3>1
     <2>6. ASSUME CreateFromCache(t) PROVE Others(t) /\ pc'[t] # "put"
        BY <1>0, <2>6, CreateFromCacheEffect
     <2>7. ASSUME NEW o \in Obj, CreateNew(t, o) PROVE Others(t)
        BY <1>0, <2>7, CreateNewEffect
     <2>8. ASSUME CreateFails(t) PROVE Others(t) /\ val'[t] = NoValue
        BY <1>0, <2>8, CreateFailsEffect
     <2>9. ASSUME PutIfAbsentAndGet(t) PROVE Others(t) /\ (pc'[t] # "put" \/ Alias[Top(t)'] # NoKey)
        <3> DEFINE n == CountOfItemsToEvict(Keys', items')
        <3>1. InProgress(Last(stack[t]))
           BY <1>0, <2>9, PutTakes DEF PutIfAbsentAndGet
        <3>2. Others(t) /\ Started(t, n)
           BY <1>0, <2>9, <3>1, PutStoresEffect
        <3> HIDE DEF n
        <3> QED BY <1>o, <3>2 DEF Started, Ended
     <2>10. ASSUME RemoveRef(t) PROVE Others(t) /\ pc'[t] # "put"
        BY <1>0, <2>10, RemoveRefEffect
     <2>11. ASSUME DecTotal(t) \/ ReadCachePtr(t) \/ Free(t) PROVE Others(t) /\ pc'[t] # "put"
        BY <1>0, <2>11, DecTotalEffect, ReadCachePtrEffect, FreeEffect
     <2>12. ASSUME DecItems(t) PROVE Others(t) /\ (pc'[t] # "put" \/ Alias[Top(t)'] # NoKey)
        <3> DEFINE n == CountOfItemsToEvict(Keys, items - 1)
        <3>1. Others(t) /\ Started(t, n)
           BY <1>0, <2>12, DecItemsEffect
        <3> HIDE DEF n
        <3> QED BY <1>o, <3>1 DEF Started, Ended
     <2>13. ASSUME Flush(t) \/ FlushPassEnds(t) PROVE Others(t) /\ pc'[t] # "put"
        BY <1>0, <2>13, FlushEffect, FlushPassEndsEffect
     <2> QED BY <2>1, <2>2, <2>3, <2>4, <2>5, <2>6, <2>7, <2>8, <2>9, <2>10, <2>11, <2>12, <2>13 DEF Step
  <1>3. CASE v # t
     <2>1. val'[v] = val[v] /\ Fresh(v) /\ val[v] \in Obj
        BY <1>1, <1>2, <1>3 DEF Others, Fresh, Top
     <2>2. Hidden(val[v], v)
        BY <2>1 DEF FreshHidden
     <2>3. ~CreateNew(t, val[v])
        <3>1. SUFFICES ASSUME CreateNew(t, val[v]) PROVE FALSE
           OBVIOUS
        <3>2. life[val[v]] = "unborn"
           BY <1>0, <2>1, <3>1, CreateNewEffect
        <3> QED BY <2>1, <3>2, NobodyAssumption DEF RefsInv, UnbornUnknown, Unknown, Hidden
     <2>4. PICK o \in Obj : o = val[v]
        BY <2>1
     <2>5. Hidden(o, v) /\ ~CreateNew(t, o) /\ val'[v] = o
        BY <2>1, <2>2, <2>3, <2>4
     <2>6. Hidden(o, v)'
        BY <1>0, <1>3, <2>5, HiddenStep
     <2>7. (\A k \in Keys' : table'[k].value # o) /\ (\A u \in Thread : (u # v => val'[u] # o) /\ \A h \in held'[u] : h[2] # o) /\ ~cached'[o]
        BY <2>6 DEF Hidden
     <2> QED BY <2>5, <2>7 DEF Hidden
  <1>4. CASE v = t
     <2>1. PICK o \in Obj : CreateNew(t, o)
        BY <1>1, <1>2, <1>4, NoValueAssumption DEF Fresh
     <2>2. /\ life[o] = "unborn" /\ val'[t] = o /\ Others(t)
           /\ UNCHANGED <<table, cached, held>>
        BY <1>0, <2>1, CreateNewEffect DEF cacheVars
     <2>3. Hidden(o, Nobody)
        BY <2>2 DEF RefsInv, UnbornUnknown, Unknown
     <2> QED BY <1>4, <2>2, <2>3, NobodyAssumption DEF Hidden, Others, Keys
  <1> QED BY <1>3, <1>4

(* What the exact counts say of one object. *)
LEMMA CountsSay ==
  ASSUME RefsInv, NEW o \in Obj
  PROVE  /\ hard[o] \in Nat /\ soft[o] \in Nat
         /\ \A k \in Keys : table[k].value = o => soft[o] >= 1
         /\ (\A k \in Keys : table[k].value # o) => soft[o] = 0
         /\ \A k, j \in Keys : k # j /\ table[k].value = o /\ table[j].value = o => soft[o] >= 2
         /\ \A t \in Thread : \A h \in held[t] : h[2] = o => hard[o] >= 1
         /\ \A t \in Thread : InFlight(t) /\ val[t] = o => hard[o] >= 1
  <1>1. Types /\ RefsFor(o)
     BY RefsAre DEF RefsInv, CreatorInv, ControlInv
  <1>2. /\ IsFiniteSet(Holders(o)) /\ IsFiniteSet(Carriers(o)) /\ IsFiniteSet(EntriesOf(o))
        /\ HolderCount(o) \in Nat /\ CarrierCount(o) \in Nat /\ EntryCount(o) \in Nat
     BY <1>1, SetsFinite, FS_CardinalityType DEF HolderCount, CarrierCount, EntryCount
  <1>3. hard[o] = HolderCount(o) + CarrierCount(o) /\ soft[o] = EntryCount(o)
     BY <1>1 DEF RefsFor
  <1>4. hard[o] \in Nat /\ soft[o] \in Nat
     BY <1>2, <1>3
  <1>5. ASSUME NEW k \in Keys, table[k].value = o PROVE soft[o] >= 1
     <2>1. EntriesOf(o) # {}
        BY <1>5 DEF EntriesOf
     <2>2. EntryCount(o) # 0
        BY <1>2, <2>1, FS_EmptySet DEF EntryCount
     <2> QED BY <1>2, <1>3, <2>2
  <1>6. ASSUME \A k \in Keys : table[k].value # o PROVE soft[o] = 0
     <2>1. EntriesOf(o) = {}
        BY <1>6 DEF EntriesOf
     <2> QED BY <1>3, <2>1, FS_EmptySet DEF EntryCount
  <1>7. ASSUME NEW k \in Keys, NEW j \in Keys, k # j, table[k].value = o, table[j].value = o
        PROVE  soft[o] >= 2
     <2>1. {k, j} \subseteq EntriesOf(o)
        BY <1>7 DEF EntriesOf
     <2>2. IsFiniteSet({k}) /\ Cardinality({k}) = 1 /\ {k, j} = {k} \cup {j} /\ j \notin {k}
        BY <1>7, FS_Singleton
     <2>5. Cardinality({k} \cup {j}) = Cardinality({k}) + 1
        BY <2>2, FS_AddElement
     <2>3. Cardinality({k, j}) = 2
        BY <2>2, <2>5
     <2>4. Cardinality({k, j}) <= EntryCount(o)
        BY <1>2, <2>1, FS_Subset DEF EntryCount
     <2> QED BY <1>2, <1>3, <2>3, <2>4
  <1>8. ASSUME NEW t \in Thread, NEW h \in held[t], h[2] = o PROVE hard[o] >= 1
     <2>1. h \in Key \X Obj
        BY <1>1 DEF Types
     <2>2. h = <<h[1], o>> /\ h[1] \in Key
        BY <1>8, <2>1
     <2>3. <<t, h[1]>> \in Holders(o)
        BY <2>2, <1>8 DEF Holders
     <2>4. HolderCount(o) # 0
        BY <1>2, <2>3, FS_EmptySet DEF HolderCount
     <2> QED BY <1>2, <1>3, <2>4
  <1>9. ASSUME NEW t \in Thread, InFlight(t), val[t] = o PROVE hard[o] >= 1
     <2>1. t \in Carriers(o)
        BY <1>9 DEF Carriers
     <2>2. CarrierCount(o) # 0
        BY <1>2, <2>1, FS_EmptySet DEF CarrierCount
     <2> QED BY <1>2, <1>3, <2>2
  <1> QED BY <1>4, <1>5, <1>6, <1>7, <1>8, <1>9

(* InFlight, by the length of the stack. *)
LEMMA InFlightIs ==
  ASSUME ControlInv, NEW t \in Thread
  PROVE  InFlight(t) <=> pc[t] \in {"put", "slice"} /\ Len(stack[t]) > 0
  <1>1. stack[t] = <<>> <=> Len(stack[t]) = 0
     BY StackTypes
  <1>2. Len(stack[t]) \in {0, 1, 2} /\ (pc[t] = "put" => Len(stack[t]) > 0)
     BY StackTypes DEF ControlInv, Control
  <1> QED BY <1>1, <1>2 DEF InFlight

(* cachePtr is never cleared again. *)
LEMMA CachedGrows ==
  ASSUME CreatorInv, NEW t \in Thread, Step(t), NEW o \in Obj, cached[o]
  PROVE  cached'[o]
  <1>0. ControlInv /\ OneCreator /\ TodoInv /\ Types
     BY DEF CreatorInv, ControlInv
  <1>1. ASSUME NEW k \in Key, Get(t, k) \/ SliceVisit(t, k) \/ FlushVisit(t, k)
        PROVE  UNCHANGED cached
     BY <1>1 DEF Get, SliceVisit, FlushVisit, objVars
  <1>2. ASSUME PutIfAbsentAndGet(t) PROVE cached'[o]
     <2>1. InProgress(Last(stack[t]))
        BY <1>0, <1>2, PutTakes DEF PutIfAbsentAndGet
     <2>2. \/ UNCHANGED cached
           \/ \E b : cached' = [cached EXCEPT ![val[t]] = @ \/ b]
        BY <1>0, <1>2, <2>1, PutStoresEffect
     <2>3. cached \in [Obj -> BOOLEAN]
        BY <1>0 DEF Types
     <2> QED BY <2>2, <2>3
  <1>3. ASSUME PollHits(t) \/ PollMisses(t) \/ CreateFromCache(t) \/ (\E p \in Obj : CreateNew(t, p)) \/ CreateFails(t)
        PROVE  UNCHANGED cached
     BY <1>3 DEF PollHits, PollMisses, CreateFromCache, CreateNew, CreateFails, objVars
  <1>4. ASSUME RemoveRef(t) \/ DecTotal(t) \/ ReadCachePtr(t) \/ DecItems(t) \/ Free(t) \/ Flush(t) \/ FlushPassEnds(t)
        PROVE  UNCHANGED cached
     BY <1>4 DEF RemoveRef, DecTotal, ReadCachePtr, DecItems, Free, Flush, FlushPassEnds, objVars
  <1> QED BY <1>1, <1>2, <1>3, <1>4 DEF Step

(* A key goes on leading to a value that is in use. *)
LEMMA LeadsStay ==
  ASSUME RefsInv, MasterInv, NEW t \in Thread, Step(t), NEW k \in Key, NEW o \in Obj,
         Leads(k, o), hard[o] >= 1
  PROVE  Leads(k, o)'
  <1> DEFINE r == Root(k)
  <1>1. r \in Keys /\ table[r].value = o /\ Alias[r] = NoKey /\ o # NoValue
     BY RootFacts, NoValueAssumption DEF Leads
  <1>2. SUFFICES r \in Keys' /\ table'[r] = table[r]
     BY <1>1 DEF Leads, Root
  <1> HIDE DEF r
  <1>3. CreatorInv
     BY DEF RefsInv
  <1>4. CASE UNCHANGED table
     BY <1>1, <1>4 DEF Keys
  <1>5. ASSUME NEW j \in Key, Marks(j) PROVE r \in Keys' /\ table'[r] = table[r]
     BY <1>1, <1>5 DEF Marks
  <1>6. CASE Stores(t)
     BY <1>1, <1>6 DEF Stores, Stored, InProgress
  <1>7. ASSUME NEW j \in Key, Evicts(t, j) PROVE r \in Keys' /\ table'[r] = table[r]
     <2>1. table[r].master
        BY <1>1 DEF MasterInv
     <2>2. hard[o] # 0
        BY CountsSay
     <2>3. j # r
        BY <1>1, <1>7, <2>1, <2>2 DEF Evicts, IsEvictable
     <2> QED BY <1>1, <1>7, <2>3 DEF Evicts, Removed
  <1> QED BY <1>3, <1>4, <1>5, <1>6, <1>7, TableChange

(* Every value in the cache is in use by, or came from, one master entry. *)
LEMMA MasterStep ==
  ASSUME RefsInv, FreshHidden, MasterInv, CarriedLeads, NEW t \in Thread, Step(t)
  PROVE  MasterInv'
  <1>0. CreatorInv /\ ControlInv /\ CreatorInv' /\ ControlInv' /\ Types
     <2>1. CreatorInv /\ ControlInv'
        BY ControlStep DEF RefsInv
     <2>2. OneCreator' /\ TodoInv'
        BY <2>1, CreatorStep, TodoStep
     <2> QED BY <2>1, <2>2 DEF CreatorInv, ControlInv
  <1>1. ASSUME NEW k \in Keys, k \in Keys', table'[k] = table[k], table[k].value \in Obj,
               Root(k) \in Keys', table'[Root(k)] = table[Root(k)]
        PROVE  (table'[k].master <=> Alias[k] = NoKey) /\ Leads(k, table[k].value)' /\ cached'[table[k].value]
     <2> DEFINE o == table[k].value
     <2>1. o \in Obj /\ (table[k].master <=> Alias[k] = NoKey) /\ Leads(k, o) /\ cached[o]
        BY <1>1 DEF MasterInv
     <2>2. cached'[o]
        <3>1. PICK p \in Obj : p = o
           BY <2>1
        <3> HIDE DEF o
        <3> QED BY <1>0, <2>1, <3>1, CachedGrows
     <2> QED BY <1>1, <2>1, <2>2 DEF Leads, Root
  <1>9. SUFFICES ASSUME NEW k \in Keys', table'[k].value \in Obj
                 PROVE  (table'[k].master <=> Alias[k] = NoKey) /\ Leads(k, table[k].value)' /\ cached'[table'[k].value]
     BY DEF MasterInv
  <1>2. ASSUME NEW j \in Keys, table[j].value \in Obj
        PROVE  Root(j) \in Keys /\ table[Root(j)].value = table[j].value
     BY <1>2 DEF MasterInv, Leads
  <1>3. CASE UNCHANGED table
     BY <1>1, <1>2, <1>3, <1>9 DEF Keys
  <1>4. ASSUME NEW j \in Key, Marks(j)
        PROVE  k \in Keys /\ table'[k] = table[k] /\ Root(k) \in Keys' /\ table'[Root(k)] = table[Root(k)]
     <2>1. k \in Keys /\ table'[k] = table[k]
        BY <1>4, <1>9, NoValueAssumption DEF Marks
     <2> QED BY <1>2, <1>4, <1>9, <2>1 DEF Marks
  <1>5. ASSUME NEW j \in Key, Evicts(t, j)
        PROVE  k \in Keys /\ table'[k] = table[k] /\ Root(k) \in Keys' /\ table'[Root(k)] = table[Root(k)]
     <2>1. k \in Keys /\ k # j /\ table'[k] = table[k]
        BY <1>5, <1>9 DEF Evicts, Removed
     <2>2. Root(k) \in Keys /\ table[Root(k)].value = table[k].value /\ k \in Key
        BY <1>0, <1>2, <1>9, <2>1 DEF Types
     <2>3. ASSUME Root(k) = j PROVE FALSE
        <3>1. PICK o \in Obj : o = table[k].value
           BY <1>9, <2>1
        <3>2. Alias[j] = NoKey /\ table[j].value = o /\ j \in Keys
           BY <2>2, <2>3, <3>1, RootFacts
        <3>3. table[j].master
           BY <3>1, <3>2 DEF MasterInv
        <3>4. soft[o] = 1
           BY <1>5, <3>2, <3>3 DEF Evicts, IsEvictable
        <3>5. soft[o] >= 2
           BY <2>1, <3>1, <3>2, CountsSay
        <3> QED BY <3>4, <3>5
     <2> QED BY <1>5, <2>1, <2>2, <2>3 DEF Evicts, Removed
  <1>6. CASE Stores(t)
     <2> DEFINE j == Top(t)
     <2>1. /\ pc[t] = "put" /\ j \in Keys /\ table[j].value = NoValue
           /\ Keys' = Keys \cup {j} /\ \A i \in Keys \ {j} : table'[i] = table[i]
           /\ table'[j].value = val[t] /\ table'[j].master = IsMaster(t)
        BY <1>6 DEF Stores, Stored, InProgress
     <2>2. Len(stack[t]) > 0
        BY <1>0, <2>1 DEF ControlInv, Control
     <2>3. PICK i \in Key : i = j
        BY <1>0, <2>2, TopFacts
     <2> HIDE DEF j
     <2>4. CASE k # j
        <3>1. k \in Keys /\ table'[k] = table[k]
           BY <2>1, <2>4, <1>9
        <3>2. Root(k) \in Keys /\ table[Root(k)].value # NoValue
           BY <1>2, <1>9, <3>1, NoValueAssumption
        <3>3. Root(k) \in Keys' /\ table'[Root(k)] = table[Root(k)]
           BY <2>1, <3>2
        <3> QED BY <1>1, <1>9, <3>1, <3>3
     <2>5. CASE k = j
        <3>1. PICK o \in Obj : o = val[t]
           BY <1>9, <2>1, <2>5
        <3>2. table'[k].value = o /\ (table'[k].master <=> IsMaster(t)) /\ o # NoValue /\ k = i
           BY <2>1, <2>3, <2>5, <3>1, NoValueAssumption
        <3>3. IsMaster(t) <=> soft[o] = 0
           BY <3>1, <3>2 DEF IsMaster
        <3>4. CASE Alias[k] = NoKey
           <4>1. Fresh(t)
              BY <2>1, <2>5, <3>1, <3>4 DEF Fresh, j
           <4>2. \A l \in Keys : table[l].value # o
              BY <3>1, <4>1 DEF FreshHidden, Hidden
           <4>3. soft[o] = 0
              BY <4>2, CountsSay
           <4>4. cached'[o]
              <5>1. PutIfAbsentAndGet(t)
                 BY <2>1
                    DEF Step, Get, SliceVisit, FlushVisit, PollHits, PollMisses, CreateFromCache, CreateNew,
                    CreateFails,
                     RemoveRef, DecTotal, ReadCachePtr, DecItems, Free, Flush, FlushPassEnds
              <5>2. InProgress(Last(stack[t]))
                 BY <1>0, <2>1, PutTakes DEF CreatorInv
              <5>3. cached' = [cached EXCEPT ![o] = @ \/ (o # NoValue /\ soft[o] = 0)]
                 BY <1>0, <3>1, <3>2, <5>1, <5>2, PutStoresEffect
              <5>4. cached \in [Obj -> BOOLEAN]
                 BY <1>0 DEF Types
              <5> QED BY <3>2, <4>3, <5>3, <5>4
           <4> QED BY <3>2, <3>3, <3>4, <4>3, <4>4, <1>9 DEF Leads, Root
        <3>5. CASE Alias[k] # NoKey
           <4>1. ~Fresh(t) /\ InFlight(t)
              BY <1>0, <2>1, <2>2, <2>5, <3>5, InFlightIs DEF Fresh, j
           <4>2. Leads(k, o)
              BY <4>1, <2>5, <3>1 DEF CarriedLeads, j
           <4>3. Root(k) \in Keys /\ table[Root(k)].value = o /\ Root(k) # k
              BY <4>2, <2>1, <2>5, <3>2 DEF Leads
           <4>4. Root(k) \in Keys' /\ table'[Root(k)] = table[Root(k)]
              BY <2>1, <2>5, <4>3
           <4>5. Leads(k, o)'
              BY <4>3, <4>4 DEF Leads, Root
           <4>6. soft[o] >= 1 /\ soft[o] \in Nat
              BY <4>3, CountsSay
           <4>7. cached[o]
              BY <4>3 DEF MasterInv
           <4>8. cached'[o]
              BY <1>0, <4>7, CachedGrows
           <4>9. ~IsMaster(t)
              BY <3>3, <4>6
           <4> QED BY <3>2, <3>5, <4>5, <4>8, <4>9 DEF Leads, Root
        <3> QED BY <3>4, <3>5
     <2> QED BY <2>4, <2>5
  <1>7. ASSUME k \in Keys /\ table'[k] = table[k] /\ Root(k) \in Keys' /\ table'[Root(k)] = table[Root(k)]
        PROVE  (table'[k].master <=> Alias[k] = NoKey) /\ Leads(k, table[k].value)' /\ cached'[table'[k].value]
     BY <1>1, <1>7, <1>9
  <1> QED BY <1>0, <1>3, <1>4, <1>5, <1>6, <1>7, TableChange

(* A value put into the cache is the one its key leads to. *)
LEMMA PutLeads ==
  ASSUME MasterInv', NEW t \in Thread, Stores(t), NEW k, k = Top(t), NEW o \in Obj, o = val[t]
  PROVE  Leads(k, o)'
  <1>1. k \in Keys' /\ table'[k].value = o
     BY DEF Stores, Stored
  <1> QED BY <1>1 DEF MasterInv

(* What becomes of the value a thread carries, and of what it holds. *)
Same(t) == stack'[t] = stack[t] /\ val'[t] = val[t] /\ status'[t] = status[t] /\ held'[t] = held[t]
Hits(t) == /\ pc[t] = "poll" /\ Top(t) \in Keys /\ ~InProgress(Top(t)) /\ UNCHANGED table
           /\ Back(t, table[Top(t)].value, table[Top(t)].status)
Gives(t) == Back(t, val[t], status[t])
Moves(t) ==
  \/ held'[t] \subseteq held[t] /\ ~InFlight(t)'
  \/ held'[t] = held[t] /\ pc[t] = "create" /\ pc'[t] = "put" /\ stack'[t] = stack[t] /\ Alias[Top(t)] = NoKey
  \/ Same(t) /\ Stores(t) /\ pc'[t] = "slice"
  \/ Same(t) /\ pc[t] = "slice" /\ pc'[t] = "slice"
  \/ Gives(t) /\ Stores(t)
  \/ Gives(t) /\ pc[t] = "slice"
  \/ Hits(t)
  \/ Back(t, NoValue, "error") /\ Top(t) \notin Keys /\ pc[t] = "poll" /\ UNCHANGED table

(* Every step is one of these for the thread that takes it. *)
LEMMA MovesStep ==
  ASSUME RefsInv, NEW t \in Thread, Step(t)
  PROVE  Others(t) /\ Moves(t)
  <1>0. CreatorInv /\ ControlInv /\ OneCreator /\ TodoInv /\ ControlInv' /\ (InFlight(t)' <=> pc'[t] \in {"put", "slice"} /\ Len(stack'[t]) > 0)
     <2>1. CreatorInv /\ ControlInv'
        BY ControlStep DEF RefsInv
     <2>2. InFlight(t)' <=> pc'[t] \in {"put", "slice"} /\ Len(stack'[t]) > 0
        <3>1. stack'[t] = <<>> <=> Len(stack'[t]) = 0
           BY <2>1, EmptySeq DEF ControlInv, Types
        <3>2. Len(stack'[t]) \in 0..2 /\ (pc'[t] = "put" => Len(stack'[t]) > 0)
           BY <2>1 DEF ControlInv, Control, CallShape
        <3> QED BY <3>1, <3>2 DEF InFlight
     <2> QED BY <2>1, <2>2 DEF CreatorInv
  <1>q. ASSUME held'[t] \subseteq held[t], pc'[t] \notin {"put", "slice"} \/ Len(stack'[t]) = 0 PROVE Moves(t)
     BY <1>0, <1>q DEF Moves
  <1>1. ASSUME NEW k \in Key, Get(t, k) PROVE Others(t) /\ Moves(t)
     BY <1>0, <1>q, <1>1, GetEffect
  <1>2. ASSUME NEW k \in Key, SliceVisit(t, k) PROVE Others(t) /\ Moves(t)
     <2>1. Others(t) /\ pc[t] = "slice" /\ (Ended(t) \/ UNCHANGED <<pc, stack, held, val, status>>)
        BY <1>0, <1>2, SliceVisitEffect
     <2>2. CASE Ended(t)
        BY <1>q, <2>1, <2>2 DEF Ended, Moves, Gives
     <2>3. CASE UNCHANGED <<pc, stack, held, val, status>>
        BY <2>1, <2>3 DEF Moves, Same
     <2> QED BY <2>1, <2>2, <2>3
  <1>3. ASSUME NEW k \in Key, FlushVisit(t, k) PROVE Others(t) /\ Moves(t)
     <2>1. k \in Keys
        BY <1>0, <1>3 DEF FlushVisit, TodoInv
     <2> QED BY <1>0, <1>q, <1>3, <2>1, FlushVisitEffect
  <1>4. ASSUME PollHits(t) PROVE Others(t) /\ Moves(t)
     <2> DEFINE k == Last(stack[t])
     <2>1. /\ Others(t) /\ pc[t] = "poll" /\ k \in Keys /\ ~InProgress(k) /\ k = stack[t][Len(stack[t])]
           /\ Back(t, table[k].value, table[k].status) /\ UNCHANGED table
        BY <1>0, <1>4, PollHitsEffect
     <2>2. k = Top(t)
        BY <2>1 DEF Top
     <2> HIDE DEF k
     <2> QED BY <2>1, <2>2 DEF Moves, Hits
  <1>5. ASSUME PollMisses(t) PROVE Others(t) /\ Moves(t)
     <2> DEFINE k == Last(stack[t])
     <2>1. /\ Others(t) /\ pc[t] = "poll" /\ k \notin Keys /\ k = stack[t][Len(stack[t])]
           /\ \/ pc'[t] = "create" /\ UNCHANGED held
              \/ Back(t, NoValue, "error") /\ UNCHANGED table
        BY <1>0, <1>5, PollMissesEffect
     <2>2. k = Top(t)
        BY <2>1 DEF Top
     <2> HIDE DEF k
     <2>3. CASE pc'[t] = "create" /\ UNCHANGED held
        BY <1>q, <2>1, <2>3
     <2> QED BY <2>1, <2>2, <2>3 DEF Moves
  <1>6. ASSUME CreateFromCache(t) PROVE Others(t) /\ Moves(t)
     BY <1>0, <1>q, <1>6, CreateFromCacheEffect
  <1>7. ASSUME (\E o \in Obj : CreateNew(t, o)) \/ CreateFails(t) PROVE Others(t) /\ Moves(t)
     <2>1. /\ Others(t) /\ pc[t] = "create" /\ pc'[t] = "put" /\ UNCHANGED <<stack, held>>
           /\ Alias[stack[t][Len(stack[t])]] = NoKey
        BY <1>0, <1>7, CreateNewEffect, CreateFailsEffect
     <2> QED BY <2>1 DEF Moves, Top
  <1>8. ASSUME PutIfAbsentAndGet(t) PROVE Others(t) /\ Moves(t)
     <2> DEFINE n == CountOfItemsToEvict(Keys', items')
     <2>1. lock = Nobody /\ pc[t] = "put" /\ Last(stack[t]) \in Keys /\ InProgress(Last(stack[t]))
        BY <1>0, <1>8, PutTakes DEF PutIfAbsentAndGet
     <2>2. Others(t) /\ Started(t, n) /\ Last(stack[t]) = Top(t) /\ Stored(t, Last(stack[t]), IsMaster(t)) /\ Len(stack[t]) > 0
        BY <1>0, <1>8, <2>1, PutStoresEffect DEF Top, IsMaster
     <2>3. Stores(t)
        BY <2>1, <2>2 DEF Stores
     <2> HIDE DEF n
     <2>4. CASE Ended(t)
        BY <2>2, <2>3, <2>4 DEF Ended, Moves, Gives
     <2>5. CASE pc'[t] = "slice" /\ Same(t)
        BY <2>2, <2>3, <2>5 DEF Moves
     <2> QED BY <2>2, <2>4, <2>5 DEF Started, Same
  <1>9. ASSUME RemoveRef(t) PROVE Others(t) /\ Moves(t)
     BY <1>0, <1>q, <1>9, RemoveRefEffect
  <1>10. ASSUME DecTotal(t) \/ ReadCachePtr(t) \/ Free(t) PROVE Others(t) /\ Moves(t)
     <2>1. CASE DecTotal(t)
        BY <1>0, <1>q, <2>1, DecTotalEffect
     <2>2. CASE ReadCachePtr(t)
        BY <1>0, <1>q, <2>2, ReadCachePtrEffect
     <2>3. CASE Free(t)
        BY <1>0, <1>q, <2>3, FreeEffect
     <2> QED BY <1>10, <2>1, <2>2, <2>3
  <1>11. ASSUME DecItems(t) PROVE Others(t) /\ Moves(t)
     <2> DEFINE n == CountOfItemsToEvict(Keys, items - 1)
     <2>1. Others(t) /\ Started(t, n) /\ Len(stack[t]) = 0
        BY <1>0, <1>11, DecItemsEffect
     <2> HIDE DEF n
     <2> QED BY <1>q, <2>1 DEF Started, Ended
  <1>12. ASSUME Flush(t) \/ FlushPassEnds(t) PROVE Others(t) /\ Moves(t)
     BY <1>0, <1>q, <1>12, FlushEffect, FlushPassEndsEffect
  <1> QED BY <1>1, <1>2, <1>3, <1>4, <1>5, <1>6, <1>7, <1>8, <1>9, <1>10, <1>11, <1>12 DEF Step

(* The value with which a call returns is the one its key leads to. *)
Brings(t, o) ==
  \/ Hits(t) /\ o = table[Top(t)].value
  \/ Gives(t) /\ Stores(t) /\ o = val[t]
  \/ Gives(t) /\ pc[t] = "slice" /\ o = val[t]

(* What a call returns is the value its key leads to. *)
LEMMA BringsLeads ==
  ASSUME RefsInv, FreshHidden, MasterInv, CarriedLeads, NEW t \in Thread, Step(t), NEW o \in Obj, Brings(t, o),
         NEW k, k = Top(t)
  PROVE  k \in Key /\ Leads(k, o)'
  <1>0. ControlInv /\ Types /\ Len(stack[t]) > 0 /\ k \in Key
     <2>1. Len(stack[t]) \in {1, 2} /\ ControlInv
        BY DEF Brings, Gives, Hits, Back, RefsInv, CreatorInv
     <2> QED BY <2>1, TopFacts DEF ControlInv
  <1>1. CASE Hits(t) /\ o = table[k].value
     <2>1. k \in Keys
        BY <1>1 DEF Hits
     <2>2. Leads(k, o)
        BY <1>1, <2>1 DEF MasterInv
     <2> QED BY <1>0, <1>1, <2>2 DEF Hits, Leads, Root, Keys
  <1>2. CASE Gives(t) /\ Stores(t) /\ o = val[t]
     BY <1>0, <1>2, MasterStep, PutLeads
  <1>3. CASE Gives(t) /\ pc[t] = "slice" /\ o = val[t]
     <2>1. InFlight(t)
        BY <1>0, <1>3, InFlightIs
     <2>2. Leads(k, o)
        BY <1>3, <2>1 DEF CarriedLeads, Fresh
     <2>3. hard[o] >= 1
        BY <1>3, <2>1, CountsSay
     <2> QED BY <1>0, <2>2, <2>3, LeadsStay
  <1> QED BY <1>0, <1>1, <1>2, <1>3 DEF Brings

(* What a thread holds after a step it held before, or its call brought. *)
LEMMA NewHold ==
  ASSUME RefsInv, NEW t \in Thread, Step(t), NEW u \in Thread, NEW h \in held'[u]
  PROVE  \/ h \in held[u]
         \/ /\ u = t /\ h[2] \in Obj /\ h[1] = Top(t) /\ Brings(t, h[2])
            /\ Len(stack[t]) = 1 /\ Len(stack'[t]) = 0
  <1>0. ControlInv' /\ Types' /\ ControlInv
     BY ControlStep DEF RefsInv, CreatorInv, ControlInv
  <1>1. Others(t) /\ Moves(t)
     BY MovesStep
  <1>2. CASE u # t
     BY <1>1, <1>2 DEF Others
  <1>3. CASE u = t
     <2>1. ASSUME NEW o, NEW r, Back(t, o, r), h \notin held[t]
           PROVE  /\ Len(stack[t]) = 1 /\ Len(stack'[t]) = 0 /\ o # NoValue /\ h = <<stack[t][1], o>>
        BY <1>3, <2>1 DEF Back
     <2>2. h[2] \in Obj
        <3>1. held'[u] \in SUBSET (Key \X Obj)
           BY <1>0 DEF Types
        <3> QED BY <3>1
     <2>3. CASE Back(t, NoValue, "error")
        BY <1>3, <2>1, <2>3
     <2>4. CASE Hits(t)
        BY <1>3, <2>1, <2>2, <2>4 DEF Hits, Brings, Top
     <2>5. CASE Gives(t) /\ (Stores(t) \/ pc[t] = "slice")
        BY <1>3, <2>1, <2>2, <2>5 DEF Gives, Brings, Top
     <2>6. CASE held'[t] \subseteq held[t]
        BY <1>3, <2>6
     <2> QED BY <1>1, <2>3, <2>4, <2>5, <2>6 DEF Moves, Same
  <1> QED BY <1>2, <1>3

(* What a client holds stays the value its key leads to. *)
LEMMA HeldLeadsStep ==
  ASSUME RefsInv, FreshHidden, MasterInv, HeldLeads, CarriedLeads, NEW t \in Thread, Step(t)
  PROVE  HeldLeads'
  <1>0. Types
     BY DEF RefsInv, CreatorInv, ControlInv
  <1>1. SUFFICES ASSUME NEW u \in Thread, NEW h \in held'[u] PROVE Leads(h[1], h[2])'
     BY DEF HeldLeads
  <1>2. CASE h \in held[u]
     <2>1. h[1] \in Key /\ h[2] \in Obj
        BY <1>0, <1>2 DEF Types
     <2>2. Leads(h[1], h[2])
        BY <1>2 DEF HeldLeads
     <2>3. hard[h[2]] >= 1
        BY <1>2, <2>1, CountsSay
     <2> QED BY <2>1, <2>2, <2>3, LeadsStay
  <1>3. CASE u = t /\ h[2] \in Obj /\ h[1] = Top(t) /\ Brings(t, h[2])
     BY <1>3, BringsLeads
  <1> QED BY <1>2, <1>3, NewHold

(* So does what is on its way to a client. *)
LEMMA CarriedLeadsStep ==
  ASSUME RefsInv, FreshHidden, MasterInv, CarriedLeads, NEW t \in Thread, Step(t)
  PROVE  CarriedLeads'
  <1>0. ControlInv' /\ Types' /\ ControlInv /\ Types
     BY ControlStep DEF RefsInv, CreatorInv, ControlInv
  <1>1. SUFFICES ASSUME NEW u \in Thread, InFlight(u)', val'[u] \in Obj, ~Fresh(u)'
                 PROVE  Leads(Top(u), val[u])'
     BY DEF CarriedLeads
  <1>2. Others(t) /\ Moves(t)
     BY MovesStep
  <1>3. ASSUME stack'[u] = stack[u], val'[u] = val[u], InFlight(u), ~Fresh(u) PROVE Leads(Top(u), val[u])'
     <2>1. PICK o \in Obj : o = val[u]
        BY <1>1, <1>3
     <2>2. Len(stack[u]) > 0
        BY <1>0, <1>3, InFlightIs
     <2>3. PICK k \in Key : k = Top(u)
        BY <1>0, <2>2, TopFacts
     <2>4. Leads(k, o) /\ hard[o] >= 1
        BY <1>3, <2>1, <2>3, CountsSay DEF CarriedLeads
     <2>5. Leads(k, o)'
        BY <2>4, LeadsStay
     <2> QED BY <1>3, <2>1, <2>3, <2>5 DEF Leads, Top
  <1>4. CASE u # t
     <2>1. InFlight(u) /\ ~Fresh(u) /\ stack'[u] = stack[u] /\ val'[u] = val[u]
        BY <1>1, <1>2, <1>4 DEF InFlight, Fresh, Others, Top
     <2> QED BY <1>3, <2>1
  <1>5. CASE u = t
     <2>1. ASSUME NEW o, Brings(t, o), NEW r, Back(t, o, r) PROVE Leads(Top(u), val[u])'
        <3>1. Len(stack[t]) = 2 /\ Len(stack'[t]) = 1 /\ stack'[t][1] = stack[t][1] /\ val'[t] = o
           BY <1>1, <1>5, <2>1 DEF Back, InFlight
        <3>2. Root(stack[t][1]) = Root(Top(t)) /\ Top(t) \in Key
           BY <1>0, <3>1, TopFacts
        <3>3. PICK p \in Obj : p = o
           BY <1>1, <1>5, <3>1
        <3>4. PICK k \in Key : k = Top(t)
           BY <3>2
        <3>5. Leads(k, p)'
           BY <2>1, <3>3, <3>4, BringsLeads
        <3>6. Top(t)' = stack[t][1]
           BY <3>1 DEF Top
        <3> QED BY <1>5, <3>1, <3>2, <3>3, <3>4, <3>5, <3>6 DEF Leads, Root
     <2>2. CASE pc[t] = "create" /\ pc'[t] = "put" /\ stack'[t] = stack[t] /\ Alias[Top(t)] = NoKey
        BY <1>1, <1>5, <2>2 DEF Fresh, Top
     <2>3. CASE Same(t) /\ Stores(t)
        <3>1. PICK o \in Obj : o = val[t]
           BY <1>1, <1>5, <2>3 DEF Same
        <3>2. PICK k : k = Top(t)
           OBVIOUS
        <3>3. Leads(k, o)'
           BY <2>3, <3>1, <3>2, MasterStep, PutLeads
        <3> QED BY <1>5, <2>3, <3>1, <3>2, <3>3 DEF Same, Leads, Top
     <2>4. CASE Same(t) /\ pc[t] = "slice" /\ pc'[t] = "slice"
        <3>1. InFlight(t) /\ ~Fresh(t)
           BY <1>1, <1>5, <2>4 DEF Same, InFlight, Fresh
        <3> QED BY <1>3, <1>5, <2>4, <3>1 DEF Same
     <2>5. CASE Gives(t) /\ (Stores(t) \/ pc[t] = "slice")
        BY <2>1, <2>5 DEF Gives, Brings
     <2>6. CASE Hits(t)
        BY <2>1, <2>6 DEF Hits, Brings
     <2>7. CASE Back(t, NoValue, "error")
        BY <1>1, <1>5, <2>7, NoValueAssumption DEF Back, InFlight
     <2> QED BY <1>1, <1>2, <1>5, <2>2, <2>3, <2>4, <2>5, <2>6, <2>7 DEF Moves
  <1> QED BY <1>4, <1>5

(* The slice a put begins leaves the entry alone or removes it. *)
StoredSame == \A t \in Thread : pc[t] = "slice" /\ Len(stack[t]) > 0 /\ Top(t) \in Keys =>
    table[Top(t)].value = val[t] /\ table[Top(t)].status = status[t]
ErrorAt(k) == k \in Keys /\ table[k].value = NoValue /\ table[k].status = "error"
Unheld(k) == \A t \in Thread : \A h \in held[t] : h[1] # k
(* Nobody holds a value for a key whose entry is an error or about to be. *)
ErrorUnheld == \A k \in Key : Alias[k] # NoKey /\ ErrorAt(k) => Unheld(k)
Failing(t) == /\ val[t] = NoValue /\ Alias[stack[t][1]] # NoKey
              /\ (pc[t] = "put" /\ Len(stack[t]) = 1) \/ (pc[t] = "slice" /\ Len(stack[t]) = 2)
FailingUnheld == \A t \in Thread : Failing(t) => Unheld(stack[t][1])

(* While its slice runs, nobody replaces the value a thread has put. *)
LEMMA StoredSameStep ==
  ASSUME RefsInv, StoredSame, NEW t \in Thread, Step(t)
  PROVE  StoredSame'
  <1>0. CreatorInv /\ ControlInv /\ LockInv
     BY DEF RefsInv, CreatorInv, ControlInv
  <1>1. SUFFICES ASSUME NEW u \in Thread, pc'[u] = "slice", Len(stack'[u]) > 0, Top(u)' \in Keys'
                 PROVE  table'[Top(u)'].value = val'[u] /\ table'[Top(u)'].status = status'[u]
     BY DEF StoredSame
  <1>2. Others(t) /\ Moves(t)
     BY MovesStep
  <1>3. UNCHANGED table \/ (\E k \in Key : Marks(k)) \/ Stores(t) \/ \E k \in Key : Evicts(t, k)
     BY <1>0, TableChange
  <1>4. ASSUME stack'[u] = stack[u], val'[u] = val[u], status'[u] = status[u], pc[u] = "slice"
        PROVE  table'[Top(u)'].value = val'[u] /\ table'[Top(u)'].status = status'[u]
     <2>1. lock = u /\ Top(u)' = Top(u)
        BY <1>0, <1>4 DEF LockInv, Top
     <2>2. lock # Nobody
        BY <2>1, NobodyAssumption
     <2>3. UNCHANGED table \/ \E k \in Key : Evicts(t, k)
        BY <1>3, <2>2 DEF Marks, Stores
     <2>4. Top(u) \in Keys /\ table'[Top(u)] = table[Top(u)]
        BY <1>1, <2>1, <2>3 DEF Evicts, Removed, Keys
     <2> QED BY <1>1, <1>4, <2>1, <2>4 DEF StoredSame
  <1>5. CASE u # t
     BY <1>1, <1>2, <1>4, <1>5 DEF Others
  <1>6. CASE u = t
     <2>1. CASE Same(t) /\ Stores(t)
        <3>1. Top(t)' = Top(t)
           BY <2>1 DEF Same, Top
        <3> QED BY <1>6, <2>1, <3>1 DEF Same, Stores, Stored
     <2>2. CASE Same(t) /\ pc[t] = "slice" /\ pc'[t] = "slice"
        BY <1>4, <1>6, <2>2 DEF Same
     <2>3. ASSUME NEW o, NEW r, Back(t, o, r) PROVE FALSE
        BY <1>1, <1>6, <2>3 DEF Back
     <2>4. CASE ~InFlight(t)'
        <3>1. Len(stack'[t]) = 0
           <4>1. stack'[t] = <<>>
              BY <1>1, <1>6, <2>4 DEF InFlight
           <4> QED BY <4>1, EmptySeq
        <3> QED BY <1>1, <1>6, <3>1
     <2> QED BY <1>1, <1>2, <1>6, <2>1, <2>2, <2>3, <2>4 DEF Moves, Gives, Hits
  <1> QED BY <1>5, <1>6

(* What a call brings agrees with the entry of its key. *)
LEMMA BringsSame ==
  ASSUME RefsInv, StoredSame, NEW t \in Thread, Step(t), NEW o \in Obj, Brings(t, o), NEW k, k = Top(t)
  PROVE  /\ k \in Keys' => table'[k].value = o
         /\ k \in Keys /\ pc[t] # "put" => table[k].value = o
  <1>0. CreatorInv /\ ControlInv /\ LockInv /\ Len(stack[t]) > 0
     BY DEF RefsInv, CreatorInv, ControlInv, Brings, Gives, Hits, Back
  <1>1. CASE Hits(t) /\ o = table[k].value
     BY <1>1 DEF Hits
  <1>2. CASE Stores(t) /\ o = val[t]
     BY <1>2 DEF Stores, Stored
  <1>3. CASE pc[t] = "slice" /\ o = val[t]
     <2>1. UNCHANGED table \/ (\E j \in Key : Marks(j)) \/ Stores(t) \/ \E j \in Key : Evicts(t, j)
        BY <1>0, TableChange
     <2>2. lock = t /\ lock # Nobody
        BY <1>0, <1>3, NobodyAssumption DEF LockInv
     <2>3. UNCHANGED table \/ \E j \in Key : Evicts(t, j)
        BY <2>1, <2>2 DEF Marks, Stores
     <2>4. k \in Keys' => k \in Keys /\ table'[k] = table[k]
        BY <2>3 DEF Evicts, Removed, Keys
     <2>5. k \in Keys => table[k].value = o
        BY <1>0, <1>3 DEF StoredSame
     <2> QED BY <2>4, <2>5
  <1> QED BY <1>1, <1>2, <1>3 DEF Brings

(* A key nobody holds stays so unless a call for it returns a value. *)
LEMMA StaysUnheld ==
  ASSUME RefsInv, NEW t \in Thread, Step(t), NEW k, Unheld(k),
         \A o \in Obj : ~(k = Top(t) /\ Brings(t, o))
  PROVE  Unheld(k)'
  BY NewHold DEF Unheld

(* An error is stored under a key only while nobody holds a value of it. *)
LEMMA ErrorUnheldStep ==
  ASSUME RefsInv, StoredSame, ErrorUnheld, FailingUnheld, NEW t \in Thread, Step(t)
  PROVE  ErrorUnheld'
  <1>0. CreatorInv /\ ControlInv
     BY DEF RefsInv, CreatorInv
  <1>1. SUFFICES ASSUME NEW k \in Key, Alias[k] # NoKey, k \in Keys', table'[k].value = NoValue, table'[k].status = "error"
                 PROVE  Unheld(k)'
     BY DEF ErrorUnheld, ErrorAt
  <1>2. ASSUME NEW o \in Obj, k = Top(t), Brings(t, o) PROVE FALSE
     BY <1>1, <1>2, BringsSame, NoValueAssumption
  <1>3. SUFFICES Unheld(k)
     BY <1>2, StaysUnheld
  <1>4. CASE k \in Keys /\ table'[k] = table[k]
     BY <1>1, <1>4 DEF ErrorUnheld, ErrorAt
  <1>5. CASE Stores(t) /\ k = Top(t)
     <2>1. pc[t] = "put" /\ val[t] = NoValue
        BY <1>1, <1>5 DEF Stores, Stored
     <2>2. Len(stack[t]) > 0
        BY <1>0, <2>1 DEF ControlInv, Control
     <2>3. Len(stack[t]) = 1 /\ k = stack[t][1]
        BY <1>0, <1>1, <1>5, <2>2, TopFacts
     <2>4. Failing(t)
        BY <1>1, <2>1, <2>3 DEF Failing
     <2> QED BY <2>3, <2>4 DEF FailingUnheld
  <1>6. ASSUME NEW j \in Key, Marks(j) PROVE k \in Keys /\ table'[k] = table[k]
     BY <1>1, <1>6 DEF Marks
  <1>7. ASSUME NEW j \in Key, Evicts(t, j) PROVE k \in Keys /\ table'[k] = table[k]
     BY <1>1, <1>7 DEF Evicts, Removed
  <1>8. CASE UNCHANGED table
     BY <1>1, <1>4, <1>8 DEF Keys
  <1>9. CASE Stores(t) /\ k # Top(t)
     BY <1>1, <1>4, <1>9 DEF Stores, Stored
  <1> QED BY <1>0, <1>4, <1>5, <1>6, <1>7, <1>8, <1>9, TableChange

(* A createObject that got no value from the other key meets nobody who *)
(* holds one.                                                           *)
LEMMA FailingUnheldStep ==
  ASSUME RefsInv, MasterInv, HeldLeads, StoredSame, FailingUnheld, NEW t \in Thread, Step(t)
  PROVE  FailingUnheld'
  <1>0. CreatorInv /\ ControlInv /\ OneCreator /\ Types
     BY DEF RefsInv, CreatorInv, ControlInv
  <1>1. SUFFICES ASSUME NEW v \in Thread, Failing(v)' PROVE Unheld(stack[v][1])'
     BY DEF FailingUnheld
  <1>2. Others(t) /\ Moves(t)
     BY MovesStep
  <1>3. CASE v # t
     <2>1. PICK k : k = stack[v][1]
        OBVIOUS
     <2>2. Failing(v) /\ stack'[v] = stack[v]
        BY <1>1, <1>2, <1>3 DEF Others, Failing
     <2>3. Unheld(k)
        BY <2>1, <2>2 DEF FailingUnheld
     <2>4. k \in Creating(v)
        <3>1. Named(stack[v], pc[v], k)
           BY <2>1, <2>2 DEF Failing, Named
        <3> QED BY <1>0, <3>1, CreatingNamed
     <2>5. k \in Keys /\ table[k].value = NoValue /\ InProgress(k)
        BY <1>0, <2>4 DEF OneCreator, InProgress
     <2>6. ASSUME NEW o \in Obj, k = Top(t), Brings(t, o) PROVE FALSE
        <3>1. pc[t] # "put"
           <4>1. ASSUME pc[t] = "put" PROVE FALSE
              <5>1. Len(stack[t]) > 0
                 BY <1>0, <4>1 DEF ControlInv, Control
              <5>2. Top(t) \in Creating(t)
                 BY <1>0, <4>1, <5>1, PutTakes, TopFacts
              <5> QED BY <1>0, <1>3, <2>4, <2>6, <5>2, CreatorFacts
           <4> QED BY <4>1
        <3> QED BY <2>5, <2>6, <3>1, BringsSame, NoValueAssumption
     <2>7. Unheld(k)'
        BY <2>3, <2>6, StaysUnheld
     <2> QED BY <2>1, <2>2, <2>7 DEF Unheld
  <1>4. CASE v = t
     <2>1. /\ val'[t] = NoValue /\ Len(stack'[t]) \in {1, 2} /\ pc'[t] \in {"put", "slice"}
           /\ Alias[stack'[t][1]] # NoKey
           /\ pc'[t] = "put" => Len(stack'[t]) = 1
           /\ pc'[t] = "slice" => Len(stack'[t]) = 2
        BY <1>1, <1>4 DEF Failing
     <2>2. \A o \in Obj : ~Brings(t, o)
        BY <2>1, NoValueAssumption DEF Brings, Hits, Gives, Back
     <2>3. PICK k : k = stack'[t][1]
        OBVIOUS
     <2>4. SUFFICES Unheld(k)
        BY <1>4, <2>2, <2>3, StaysUnheld DEF Unheld
     <2>5. ASSUME Len(stack[t]) = 2, k = stack[t][1], Top(t) \notin Keys \/ table[Top(t)].value = NoValue
           PROVE  Unheld(k)
        <3>1. Root(k) = Top(t)
           BY <1>0, <2>5, TopFacts
        <3>2. ASSUME NEW u \in Thread, NEW h \in held[u], h[1] = k PROVE FALSE
           <4>1. h[2] \in Obj
              BY <1>0, <3>2 DEF Types
           <4>2. Top(t) \in Keys /\ table[Top(t)].value = h[2]
              BY <3>1, <3>2 DEF HeldLeads, Leads
           <4> QED BY <2>5, <4>1, <4>2, NoValueAssumption
        <3> QED BY <3>2 DEF Unheld
     <2>6. ASSUME NEW o, NEW r, Back(t, o, r) PROVE Len(stack[t]) = 2 /\ stack[t][1] = k /\ o = NoValue
        BY <2>1, <2>3, <2>6 DEF Back
     <2>7. CASE pc[t] = "create" /\ pc'[t] = "put" /\ stack'[t] = stack[t] /\ Alias[Top(t)] = NoKey
        BY <2>1, <2>7 DEF Top
     <2>8. CASE Same(t) /\ Stores(t) /\ pc'[t] = "slice"
        BY <2>1, <2>3, <2>5, <2>8 DEF Same, Stores, InProgress
     <2>9. CASE Same(t) /\ pc[t] = "slice" /\ pc'[t] = "slice"
        <3>1. Failing(t) /\ k = stack[t][1]
           BY <2>1, <2>3, <2>9 DEF Same, Failing
        <3> QED BY <3>1 DEF FailingUnheld
     <2>10. CASE Gives(t) /\ Stores(t)
        BY <2>5, <2>6, <2>10 DEF Gives, Stores, InProgress
     <2>11. CASE Gives(t) /\ pc[t] = "slice"
        <3>1. Len(stack[t]) = 2 /\ stack[t][1] = k /\ val[t] = NoValue
           BY <2>6, <2>11 DEF Gives
        <3>2. Failing(t)
           BY <2>11, <3>1, <1>0, TopFacts DEF Failing
        <3> QED BY <3>1, <3>2 DEF FailingUnheld
     <2>12. CASE Hits(t)
        BY <2>5, <2>6, <2>12 DEF Hits
     <2>13. CASE Back(t, NoValue, "error") /\ Top(t) \notin Keys
        BY <2>5, <2>6, <2>13
     <2>14. CASE ~InFlight(t)'
        <3>1. stack'[t] = <<>>
           BY <2>1, <2>14 DEF InFlight
        <3> QED BY <2>1, <3>1, EmptySeq
     <2> QED BY <1>2, <2>7, <2>8, <2>9, <2>10, <2>11, <2>12, <2>13, <2>14 DEF Moves
  <1> QED BY <1>3, <1>4

(* The inductive invariant of keys and values. *)
ValueInv == /\ RefsInv /\ FreshHidden /\ MasterInv /\ HeldLeads /\ CarriedLeads
            /\ StoredSame /\ ErrorUnheld /\ FailingUnheld

(* Nothing is cached, held or carried at the start. *)
LEMMA ValueInit ==
  ASSUME Init
  PROVE  ValueInv
  <1>1. RefsInv /\ Keys = {}
     <2>1. Keys = {}
        BY DEF Init, Keys
     <2> QED BY <2>1, RefsInit
  <1>2. \A t \in Thread : pc[t] = "idle" /\ held[t] = {} /\ val[t] = NoValue
     BY DEF Init
  <1>3. FreshHidden /\ HeldLeads /\ CarriedLeads /\ StoredSame /\ FailingUnheld
     BY <1>2 DEF FreshHidden, Fresh, HeldLeads, CarriedLeads, InFlight, StoredSame, FailingUnheld, Failing
  <1>4. MasterInv /\ ErrorUnheld
     BY <1>1 DEF MasterInv, ErrorUnheld, ErrorAt
  <1> QED BY <1>1, <1>3, <1>4 DEF ValueInv

(* ValueInv is inductive. *)
LEMMA ValueInductive ==
  ValueInv /\ [Next]_vars => ValueInv'
  <1> SUFFICES ASSUME ValueInv, [Next]_vars PROVE ValueInv'
     OBVIOUS
  <1>1. RefsInv /\ RefsInv' /\ Types
     BY RefsInductive DEF ValueInv, RefsInv, CreatorInv, ControlInv
  <1>2. CASE Quiet
     <2>1. UNCHANGED <<table, pc, stack, val, status, held, cached>>
        BY <1>2 DEF Quiet
     <2>2. FreshHidden'
        BY <2>1 DEF ValueInv, FreshHidden, Fresh, Hidden, Top, Keys
     <2>3. MasterInv'
        BY <2>1 DEF ValueInv, MasterInv, Leads, Root, Keys
     <2>4. HeldLeads' /\ CarriedLeads'
        BY <2>1 DEF ValueInv, HeldLeads, CarriedLeads, Leads, Root, Fresh, Top, InFlight, Keys
     <2>5. StoredSame'
        BY <2>1 DEF ValueInv, StoredSame, Top, Keys
     <2>6. ErrorUnheld' /\ FailingUnheld'
        BY <2>1 DEF ValueInv, ErrorUnheld, ErrorAt, FailingUnheld, Failing, Unheld, Keys
     <2> QED BY <1>1, <2>2, <2>3, <2>4, <2>5, <2>6 DEF ValueInv
  <1>3. ASSUME NEW t \in Thread, Step(t) PROVE ValueInv'
     <2>1. FreshHidden' /\ MasterInv'
        BY <1>3, FreshStep, MasterStep DEF ValueInv
     <2>2. HeldLeads' /\ CarriedLeads'
        BY <1>3, HeldLeadsStep, CarriedLeadsStep DEF ValueInv
     <2>3. StoredSame' /\ ErrorUnheld' /\ FailingUnheld'
        BY <1>3, StoredSameStep, ErrorUnheldStep, FailingUnheldStep DEF ValueInv
     <2> QED BY <1>1, <2>1, <2>2, <2>3 DEF ValueInv
  <1> QED BY <1>1, <1>2, <1>3, Steps

(* The inductive invariant holds of every reachable state. *)
THEOREM ValueSafe == Spec => []ValueInv
  BY ValueInit, ValueInductive, PTL DEF Spec

(* The invariant implies what unifiedcache.h promises. *)
LEMMA HeldSame ==
  ASSUME ValueInv
  PROVE  SameValueWhileHeld
  <1>0. Types /\ ErrorUnheld /\ MasterInv /\ HeldLeads
     BY DEF ValueInv, RefsInv, CreatorInv, ControlInv
  <1>1. SUFFICES ASSUME NEW t \in Thread, NEW h \in held[t]
                 PROVE  /\ Alias[h[1]] = NoKey => h[1] \in Keys
                        /\ h[1] \in Keys => table[h[1]].value = h[2] \/ (Alias[h[1]] # NoKey /\ InProgress(h[1]))
     BY DEF SameValueWhileHeld
  <1> DEFINE k == h[1]
             o == h[2]
  <1>2. k \in Key /\ o \in Obj
     BY <1>0 DEF Types
  <1>3. Root(k) \in Keys /\ table[Root(k)].value = o
     BY <1>0 DEF HeldLeads, Leads
  <1>4. Alias[k] = NoKey => k \in Keys /\ table[k].value = o
     BY <1>3 DEF Root
  <1>5. ASSUME k \in Keys, Alias[k] # NoKey, table[k].value # o PROVE InProgress(k)
     <2>1. table[k] \in Entry
        BY <1>0, <1>5 DEF Types
     <2>2. table[k].value \in Obj => Leads(k, table[k].value)
        BY <1>0, <1>5 DEF MasterInv
     <2>3. table[k].value = NoValue
        BY <1>3, <1>5, <2>1, <2>2 DEF Leads, Entry
     <2>4. ~ErrorAt(k)
        BY <1>0, <1>2, <1>5 DEF ErrorUnheld, Unheld
     <2> QED BY <1>5, <2>1, <2>3, <2>4 DEF ErrorAt, InProgress, Entry
  <1> QED BY <1>4, <1>5

(* "For a given key X, the cache returns the same reference to the same *)
(* value as long as the client already holds a reference to that value" *)
(* (unifiedcache.h).                                                    *)
THEOREM SameValueAlways == Spec => []SameValueWhileHeld
  BY HeldSame, ValueSafe, PTL

(* The objects that count as items in use, and the threads whose decrement is due. *)
InUse(o) == cached[o] /\ hard[o] > 0
ItemsInUse == {o \in Obj : cached[o] /\ hard[o] > 0}
Owes(t) == \/ pc[t] = "decItems"
           \/ pc[t] \in {"decTotal", "readCache"} /\ last[t] /\ cached[val[t]]
InUseCount == Cardinality(ItemsInUse)
OwedCount == Cardinality(Owed)

(* fItemsInUseCount never falls behind, so a slice never starts from a negative one. *)
ItemsInv == /\ items >= InUseCount + OwedCount
            /\ ~stale => items = InUseCount + OwedCount
SliceInv == \A t \in Thread : pc[t] = "slice" => left[t].evict <= Cardinality(Keys)

(* Both counts are natural numbers. *)
LEMMA CountsFinite ==
  /\ IsFiniteSet(ItemsInUse) /\ IsFiniteSet(Owed)
  /\ InUseCount \in Nat /\ OwedCount \in Nat
  <1>1. ItemsInUse \subseteq Obj /\ Owed \subseteq Thread
     BY DEF ItemsInUse, Owed
  <1>2. IsFiniteSet(ItemsInUse) /\ IsFiniteSet(Owed)
     BY <1>1, FiniteAssumption, FS_Subset
  <1> QED BY <1>2, FS_CardinalityType DEF InUseCount, OwedCount

(* What one object, and one thread, add to the counts. *)
LEMMA InUseChange ==
  ASSUME NEW p \in Obj, \A o \in Obj \ {p} : InUse(o)' <=> InUse(o)
  PROVE  InUseCount' = InUseCount + (IF InUse(p)' THEN 1 ELSE 0) - (IF InUse(p) THEN 1 ELSE 0)
  <1>0. /\ IsFiniteSet(ItemsInUse) /\ InUseCount \in Nat
        /\ \A o \in Obj : (o \in ItemsInUse <=> InUse(o)) /\ (o \in ItemsInUse' <=> InUse(o)')
        /\ ItemsInUse \subseteq Obj /\ ItemsInUse' \subseteq Obj
     BY CountsFinite DEF ItemsInUse, InUse
  <1>1. CASE InUse(p)' /\ ~InUse(p)
     <2>1. ItemsInUse' = ItemsInUse \cup {p} /\ p \notin ItemsInUse
        BY <1>0, <1>1
     <2>2. InUseCount' = InUseCount + 1
        BY <1>0, <2>1, FS_AddElement DEF InUseCount
     <2> QED BY <1>0, <1>1, <2>2
  <1>2. CASE ~InUse(p)' /\ InUse(p)
     <2>1. ItemsInUse' = ItemsInUse \ {p} /\ p \in ItemsInUse
        BY <1>0, <1>2
     <2>2. InUseCount' = InUseCount - 1
        BY <1>0, <2>1, FS_RemoveElement DEF InUseCount
     <2> QED BY <1>0, <1>2, <2>2
  <1>3. CASE InUse(p)' <=> InUse(p)
     <2>1. ItemsInUse' = ItemsInUse
        BY <1>0, <1>3
     <2> QED BY <1>0, <1>3, <2>1 DEF InUseCount
  <1> QED BY <1>1, <1>2, <1>3

(* The same for the threads. *)
LEMMA OwedChange ==
  ASSUME NEW t \in Thread, \A u \in Thread \ {t} : Owes(u)' <=> Owes(u)
  PROVE  OwedCount' = OwedCount + (IF Owes(t)' THEN 1 ELSE 0) - (IF Owes(t) THEN 1 ELSE 0)
  <1>0. /\ IsFiniteSet(Owed) /\ OwedCount \in Nat
        /\ \A u \in Thread : (u \in Owed <=> Owes(u)) /\ (u \in Owed' <=> Owes(u)')
        /\ Owed \subseteq Thread /\ Owed' \subseteq Thread
     BY CountsFinite DEF Owed, Owes
  <1>1. CASE Owes(t)' /\ ~Owes(t)
     <2>1. Owed' = Owed \cup {t} /\ t \notin Owed
        BY <1>0, <1>1
     <2>2. OwedCount' = OwedCount + 1
        BY <1>0, <2>1, FS_AddElement DEF OwedCount
     <2> QED BY <1>0, <1>1, <2>2
  <1>2. CASE ~Owes(t)' /\ Owes(t)
     <2>1. Owed' = Owed \ {t} /\ t \in Owed
        BY <1>0, <1>2
     <2>2. OwedCount' = OwedCount - 1
        BY <1>0, <2>1, FS_RemoveElement DEF OwedCount
     <2> QED BY <1>0, <1>2, <2>2
  <1>3. CASE Owes(t)' <=> Owes(t)
     <2>1. Owed' = Owed
        BY <1>0, <1>3
     <2> QED BY <1>0, <1>3, <2>1 DEF OwedCount
  <1> QED BY <1>1, <1>2, <1>3

(* The decrements due change with their thread only, unless cachePtr is set *)
(* ...                                                                      *)
LEMMA OwedStays ==
  ASSUME NEW t \in Thread, Others(t), cached' = cached, Owes(t)' <=> Owes(t)
  PROVE  OwedCount' = OwedCount
  <1>1. \A u \in Thread \ {t} : Owes(u)' <=> Owes(u)
     BY DEF Others, Owes
  <1>2. OwedCount \in Nat
     BY CountsFinite
  <1> QED BY <1>1, <1>2, OwedChange

(* ... and the items in use with hardRefCount and cachePtr. *)
LEMMA InUseStays ==
  ASSUME UNCHANGED <<cached, hard>>
  PROVE  InUseCount' = InUseCount
  BY DEF InUseCount, ItemsInUse

(* The count may move by what it counts. *)
LEMMA ItemsKept ==
  ASSUME Types, ItemsInv, NEW d \in Int, items' = items + d, InUseCount' + OwedCount' = InUseCount + OwedCount + d,
         stale' = stale
  PROVE  ItemsInv'
  <1>1. items \in Int /\ InUseCount \in Nat /\ OwedCount \in Nat
     BY CountsFinite DEF Types
  <1> DEFINE s == InUseCount + OwedCount
  <1>2. s \in Int /\ items >= s /\ (~stale => items = s)
     BY <1>1 DEF ItemsInv
  <1>3. InUseCount' + OwedCount' = s + d
     OBVIOUS
  <1> HIDE DEF s
  <1>4. items' >= s + d /\ (~stale => items' = s + d)
     BY <1>1, <1>2
  <1> QED BY <1>3, <1>4 DEF ItemsInv

(* The first entry of a value: no other entry has it, no other thread knows *)
(* it.                                                                      *)
LEMMA MasterFresh ==
  ASSUME RefsInv, FreshHidden, CarriedLeads, NEW t \in Thread, pc[t] = "put",
         NEW o \in Obj, o = val[t], soft[o] = 0
  PROVE  /\ ~cached[o] /\ hard[o] >= 1 /\ hard[o] \in Nat
         /\ \A u \in Thread \ {t} : val[u] # o
  <1>0. ControlInv
     BY DEF RefsInv, CreatorInv
  <1>1. InFlight(t)
     BY DEF InFlight
  <1>2. Fresh(t)
     <2>1. ASSUME ~Fresh(t) PROVE FALSE
        <3>1. Leads(Top(t), o)
           BY <1>1, <2>1 DEF CarriedLeads
        <3>2. Root(Top(t)) \in Keys /\ table[Root(Top(t))].value = o
           BY <3>1 DEF Leads
        <3>3. soft[o] >= 1
           BY <3>2, CountsSay
        <3> QED BY <3>3
     <2> QED BY <2>1
  <1>3. Hidden(o, t)
     BY <1>2 DEF FreshHidden
  <1> QED BY <1>1, <1>3, CountsSay DEF Hidden

(* fItemsInUseCount moves with what it counts, save for a stale read. *)
LEMMA ItemsStep ==
  ASSUME ValueInv, ItemsInv, NEW t \in Thread, Step(t)
  PROVE  ItemsInv'
  <1>0. /\ RefsInv /\ CreatorInv /\ ControlInv /\ OneCreator /\ TodoInv /\ Types
        /\ FreshHidden /\ CarriedLeads
     BY DEF ValueInv, RefsInv, CreatorInv, ControlInv
  <1>c. InUseCount \in Nat /\ OwedCount \in Nat
     BY CountsFinite
  <1>k. ASSUME Others(t), UNCHANGED <<items, cached, hard, stale>>, Owes(t)' <=> Owes(t)
        PROVE  ItemsInv'
     <2>1. InUseCount' = InUseCount /\ OwedCount' = OwedCount
        BY <1>k, OwedStays, InUseStays
     <2> QED BY <1>k, <2>1 DEF ItemsInv
  <1>n. ASSUME pc[t] \notin {"decItems", "decTotal", "readCache"}, pc'[t] \notin {"decItems", "decTotal", "readCache"}
        PROVE  Owes(t)' <=> Owes(t)
     BY <1>n DEF Owes
  <1>b. ASSUME NEW o, NEW r, Back(t, o, r) PROVE pc'[t] \in {"idle", "put"}
     BY <1>b DEF Back
  <1>e. ASSUME Ended(t) PROVE pc'[t] \in {"idle", "put", "free"}
     BY <1>b, <1>e DEF Ended
  <1>3. ASSUME NEW k \in Key, Get(t, k) PROVE ItemsInv'
     <2>1. Others(t) /\ pc[t] = "idle" /\ pc'[t] = "poll" /\ UNCHANGED <<items, cached, hard, stale>>
        BY <1>0, <1>3, GetEffect DEF objVars, cacheVars
     <2> QED BY <1>k, <1>n, <2>1
  <1>4. ASSUME NEW k \in Key, SliceVisit(t, k) PROVE ItemsInv'
     <2>1. /\ Others(t) /\ pc[t] = "slice" /\ UNCHANGED <<items, cached, hard, stale>>
           /\ Ended(t) \/ UNCHANGED pc
        BY <1>0, <1>4, SliceVisitEffect
     <2> QED BY <1>e, <1>k, <1>n, <2>1
  <1>5. ASSUME NEW k \in Key, FlushVisit(t, k) PROVE ItemsInv'
     <2>1. k \in Keys
        BY <1>0, <1>5 DEF FlushVisit, TodoInv
     <2>2. Others(t) /\ pc[t] = "flush" /\ UNCHANGED <<items, cached, hard, stale, pc>>
        BY <1>0, <1>5, <2>1, FlushVisitEffect
     <2> QED BY <1>k, <1>n, <2>2
  <1>6. ASSUME PollHits(t) PROVE ItemsInv'
     <2> DEFINE k == Last(stack[t])
                o == table[k].value
     <2>1. /\ Others(t) /\ pc[t] = "poll" /\ UNCHANGED <<cached, stale>>
           /\ (o = NoValue /\ UNCHANGED <<items, hard>>) \/ (o \in Obj /\ AddRef(o))
           /\ Back(t, o, table[k].status)
        BY <1>0, <1>6, PollHitsEffect
     <2>2. Owes(t)' <=> Owes(t)
        BY <1>b, <1>n, <2>1
     <2>3. CASE UNCHANGED <<items, hard>>
        BY <1>k, <2>1, <2>2, <2>3
     <2>4. CASE o \in Obj /\ AddRef(o)
        <3>1. PICK p \in Obj : p = o
           BY <2>4
        <3>2. hard' = [hard EXCEPT ![p] = @ + 1] /\ items' = items + IF hard[p] = 0 /\ cached[p] THEN 1 ELSE 0
           BY <2>4, <3>1 DEF AddRef
        <3>3. hard'[p] = hard[p] + 1 /\ \A q \in Obj \ {p} : hard'[q] = hard[q]
           BY <1>0, <3>2 DEF Types
        <3>4. hard[p] \in Nat
           BY <1>0, CountsSay
        <3>5. \A q \in Obj \ {p} : InUse(q)' <=> InUse(q)
           BY <2>1, <3>3 DEF InUse
        <3>6. hard'[p] > 0 /\ (hard[p] > 0 <=> hard[p] # 0)
           BY <3>3, <3>4
        <3>7. (InUse(p)' <=> cached[p]) /\ (InUse(p) <=> cached[p] /\ hard[p] # 0)
           BY <2>1, <3>6 DEF InUse
        <3>8. InUseCount' = InUseCount + IF hard[p] = 0 /\ cached[p] THEN 1 ELSE 0
           BY <1>c, <3>5, <3>7, InUseChange
        <3>9. OwedCount' = OwedCount
           BY <2>1, <2>2, OwedStays
        <3>10. PICK d \in Int : d = IF hard[p] = 0 /\ cached[p] THEN 1 ELSE 0
           OBVIOUS
        <3>11. items' = items + d /\ InUseCount' + OwedCount' = InUseCount + OwedCount + d
           BY <1>c, <3>2, <3>8, <3>9, <3>10
        <3> QED BY <1>0, <2>1, <3>11, ItemsKept
     <2> QED BY <2>1, <2>3, <2>4
  <1>7. ASSUME PollMisses(t) PROVE ItemsInv'
     <2>1. /\ Others(t) /\ pc[t] = "poll" /\ UNCHANGED <<items, cached, hard, stale>>
           /\ pc'[t] = "create" \/ Back(t, NoValue, "error")
        BY <1>0, <1>7, PollMissesEffect DEF objVars
     <2> QED BY <1>b, <1>k, <1>n, <2>1
  <1>8. ASSUME CreateFromCache(t) \/ CreateFails(t) PROVE ItemsInv'
     <2>1. Others(t) /\ pc[t] = "create" /\ pc'[t] \in {"poll", "put"} /\ UNCHANGED <<items, cached, hard, stale>>
        BY <1>0, <1>8, CreateFromCacheEffect, CreateFailsEffect DEF objVars, cacheVars
     <2> QED BY <1>k, <1>n, <2>1
  <1>9. ASSUME NEW p \in Obj, CreateNew(t, p) PROVE ItemsInv'
     <2>1. /\ Others(t) /\ pc[t] = "create" /\ pc'[t] = "put" /\ life[p] = "unborn"
           /\ hard' = [hard EXCEPT ![p] = 1] /\ UNCHANGED <<items, cached, stale>>
        BY <1>0, <1>9, CreateNewEffect DEF cacheVars
     <2>2. ~cached[p]
        BY <1>0, <2>1 DEF RefsInv, UnbornUnknown, Unknown, Hidden
     <2>3. \A q \in Obj : InUse(q)' <=> InUse(q)
        BY <1>0, <2>1, <2>2 DEF InUse, Types
     <2>4. InUseCount' = InUseCount /\ OwedCount' = OwedCount
        BY <1>c, <1>n, <2>1, <2>3, InUseChange, OwedStays
     <2> QED BY <2>1, <2>4 DEF ItemsInv
  <1>10. ASSUME PutIfAbsentAndGet(t) PROVE ItemsInv'
     <2> DEFINE n == CountOfItemsToEvict(Keys', items')
     <2>1. InProgress(Last(stack[t])) /\ pc[t] = "put"
        BY <1>0, <1>10, PutTakes DEF PutIfAbsentAndGet
     <2>2. /\ Others(t) /\ UNCHANGED <<hard, stale>> /\ Len(stack[t]) > 0
           /\ items' = items + IF IsMaster(t) THEN 1 ELSE 0
           /\ \/ val[t] = NoValue /\ UNCHANGED cached
              \/ val[t] \in Obj /\ cached' = [cached EXCEPT ![val[t]] = @ \/ IsMaster(t)]
           /\ Started(t, n)
        BY <1>0, <1>10, <2>1, PutStoresEffect DEF IsMaster
     <2> HIDE DEF n
     <2>3. pc'[t] \in {"slice", "idle", "put"}
        BY <1>b, <2>2 DEF Started, Ended
     <2>4. ~Owes(t) /\ ~Owes(t)'
        BY <2>1, <2>3 DEF Owes
     <2>5. CASE ~IsMaster(t)
        <3>1. cached' = cached
           BY <1>0, <2>2, <2>5 DEF Types
        <3>2. items' = items
           BY <1>0, <2>2, <2>5 DEF Types
        <3> QED BY <1>k, <2>2, <2>4, <3>1, <3>2
     <2>6. CASE IsMaster(t)
        <3>1. PICK o \in Obj : o = val[t]
           BY <1>0, <2>6 DEF IsMaster, Types
        <3>2. soft[o] = 0
           BY <2>6, <3>1 DEF IsMaster
        <3>3. /\ ~cached[o] /\ hard[o] >= 1 /\ hard[o] \in Nat
              /\ \A u \in Thread \ {t} : val[u] # o
           BY <1>0, <2>1, <3>1, <3>2, MasterFresh
        <3>4. cached' = [cached EXCEPT ![o] = @ \/ IsMaster(t)]
           BY <2>2, <3>1, NoValueAssumption
        <3>5. cached'[o] /\ \A q \in Obj \ {o} : cached'[q] = cached[q]
           BY <1>0, <2>6, <3>4 DEF Types
        <3>6. hard[o] > 0
           BY <3>3
        <3>7. InUse(o)' /\ ~InUse(o) /\ \A q \in Obj \ {o} : InUse(q)' <=> InUse(q)
           BY <2>2, <3>3, <3>5, <3>6 DEF InUse
        <3>8. InUseCount' = InUseCount + 1
           BY <1>c, <3>7, InUseChange
        <3>9. ASSUME NEW u \in Thread \ {t} PROVE Owes(u)' <=> Owes(u)
           <4>1. pc'[u] = pc[u] /\ last'[u] = last[u] /\ val'[u] = val[u]
              BY <2>2 DEF Others
           <4>2. CASE pc[u] \in {"decTotal", "readCache"}
              <5>1. val[u] \in Obj
                 BY <1>0, <4>2 DEF ControlInv, Control, Removing
              <5>2. cached'[val[u]] = cached[val[u]]
                 BY <3>3, <3>5, <5>1
              <5> QED BY <4>1, <5>2 DEF Owes
           <4>3. CASE pc[u] \notin {"decTotal", "readCache"}
              BY <4>1, <4>3 DEF Owes
           <4> QED BY <4>2, <4>3
        <3>10. OwedCount' = OwedCount
           BY <1>c, <2>4, <3>9, OwedChange
        <3>11. items' = items + 1 /\ InUseCount' + OwedCount' = InUseCount + OwedCount + 1
           BY <1>c, <2>2, <2>6, <3>8, <3>10
        <3> QED BY <1>0, <2>2, <3>11, ItemsKept
     <2> QED BY <2>5, <2>6
  <1>11. ASSUME RemoveRef(t) PROVE ItemsInv'
     <2>1. PICK h \in held[t] :
              /\ Others(t) /\ pc[t] = "idle" /\ pc'[t] = "decTotal" /\ h[2] \in Obj
              /\ hard' = [hard EXCEPT ![h[2]] = @ - 1]
              /\ last'[t] = (hard[h[2]] = 1) /\ val'[t] = h[2]
              /\ UNCHANGED <<items, cached, stale>>
        BY <1>0, <1>11, RemoveRefEffect DEF cacheVars
     <2>2. PICK p \in Obj : p = h[2]
        BY <2>1
     <2>3. hard[p] >= 1 /\ hard[p] \in Nat
        BY <1>0, <2>2, CountsSay
     <2>4. hard'[p] = hard[p] - 1 /\ \A q \in Obj \ {p} : hard'[q] = hard[q]
        BY <1>0, <2>1, <2>2 DEF Types
     <2>5. hard[p] > 0 /\ (hard'[p] > 0 <=> hard[p] # 1)
        BY <2>3, <2>4
     <2>6. (InUse(p) <=> cached[p]) /\ (InUse(p)' <=> cached[p] /\ hard[p] # 1)
        BY <2>1, <2>5 DEF InUse
     <2>7. \A q \in Obj \ {p} : InUse(q)' <=> InUse(q)
        BY <2>1, <2>4 DEF InUse
     <2>8. ~Owes(t) /\ (Owes(t)' <=> hard[p] = 1 /\ cached[p])
        BY <2>1, <2>2 DEF Owes
     <2>9. \A u \in Thread \ {t} : Owes(u)' <=> Owes(u)
        BY <2>1 DEF Others, Owes
     <2>10. InUseCount' = InUseCount - IF hard[p] = 1 /\ cached[p] THEN 1 ELSE 0
        BY <1>c, <2>6, <2>7, InUseChange
     <2>11. OwedCount' = OwedCount + IF hard[p] = 1 /\ cached[p] THEN 1 ELSE 0
        BY <1>c, <2>8, <2>9, OwedChange
     <2>12. InUseCount' + OwedCount' = InUseCount + OwedCount
        BY <1>c, <2>10, <2>11
     <2> QED BY <2>1, <2>12 DEF ItemsInv
  <1>12. ASSUME DecTotal(t) PROVE ItemsInv'
     <2>1. /\ Others(t) /\ pc[t] = "decTotal" /\ pc'[t] = IF last[t] THEN "readCache" ELSE "free"
           /\ UNCHANGED <<items, cached, hard, stale, last, val>>
        BY <1>0, <1>12, DecTotalEffect DEF cacheVars
     <2>2. Owes(t)' <=> Owes(t)
        BY <2>1 DEF Owes
     <2> QED BY <1>k, <2>1, <2>2
  <1>13. ASSUME ReadCachePtr(t) PROVE ItemsInv'
     <2>1. /\ Others(t) /\ pc[t] = "readCache" /\ last[t] /\ pc'[t] \in {"decItems", "free"}
           /\ stale' = (stale \/ life[val[t]] = "deleted")
           /\ pc'[t] = "decItems" => cached[val[t]]
           /\ pc'[t] = "free" => ~cached[val[t]] \/ stale'
           /\ UNCHANGED <<items, cached, hard>>
        BY <1>0, <1>13, ReadCachePtrEffect DEF cacheVars, objVars
     <2>2. Owes(t) <=> cached[val[t]]
        BY <2>1 DEF Owes
     <2>3. Owes(t)' <=> pc'[t] = "decItems"
        BY <2>1 DEF Owes
     <2>4. \A u \in Thread \ {t} : Owes(u)' <=> Owes(u)
        BY <2>1 DEF Others, Owes
     <2>5. InUseCount' = InUseCount
        BY <2>1, InUseStays
     <2>6. CASE Owes(t)' <=> Owes(t)
        <3>1. OwedCount' = OwedCount
           BY <1>c, <2>4, <2>6, OwedChange
        <3> QED BY <2>1, <2>5, <3>1 DEF ItemsInv
     <2>7. CASE ~Owes(t)' /\ Owes(t)
        <3>1. OwedCount' = OwedCount - 1
           BY <1>c, <2>4, <2>7, OwedChange
        <3>2. stale'
           BY <2>1, <2>2, <2>3, <2>7
        <3>3. items \in Int /\ items >= InUseCount + OwedCount
           BY <1>0 DEF Types, ItemsInv
        <3>4. items' >= InUseCount' + OwedCount'
           BY <1>c, <2>1, <2>5, <3>1, <3>3
        <3> QED BY <3>2, <3>4 DEF ItemsInv
     <2> QED BY <2>1, <2>2, <2>3, <2>6, <2>7
  <1>14. ASSUME DecItems(t) PROVE ItemsInv'
     <2> DEFINE n == CountOfItemsToEvict(Keys, items - 1)
     <2>1. /\ Others(t) /\ pc[t] = "decItems" /\ items' = items - 1 /\ Started(t, n)
           /\ UNCHANGED <<cached, hard, stale>>
        BY <1>0, <1>14, DecItemsEffect DEF objVars
     <2> HIDE DEF n
     <2>2. pc'[t] \in {"slice", "idle", "put", "free"}
        BY <1>e, <2>1 DEF Started
     <2>3. Owes(t) /\ ~Owes(t)'
        BY <2>1, <2>2 DEF Owes
     <2>4. \A u \in Thread \ {t} : Owes(u)' <=> Owes(u)
        BY <2>1 DEF Others, Owes
     <2>5. OwedCount' = OwedCount - 1
        BY <1>c, <2>3, <2>4, OwedChange
     <2>6. InUseCount' = InUseCount
        BY <2>1, InUseStays
     <2>7. items' = items + (-1) /\ InUseCount' + OwedCount' = InUseCount + OwedCount + (-1)
        BY <1>0, <1>c, <2>1, <2>5, <2>6 DEF Types
     <2> QED BY <1>0, <2>1, <2>7, ItemsKept
  <1>15. ASSUME Free(t) PROVE ItemsInv'
     <2>1. Others(t) /\ pc[t] = "free" /\ pc'[t] = "idle" /\ UNCHANGED <<items, cached, hard, stale>>
        BY <1>0, <1>15, FreeEffect DEF cacheVars
     <2> QED BY <1>k, <1>n, <2>1
  <1>16. ASSUME Flush(t) \/ FlushPassEnds(t) PROVE ItemsInv'
     <2>1. /\ Others(t) /\ pc[t] \in {"idle", "flush"} /\ pc'[t] \in {"idle", "flush"}
           /\ UNCHANGED <<items, cached, hard, stale>>
        BY <1>0, <1>16, FlushEffect, FlushPassEndsEffect DEF cacheVars, objVars
     <2> QED BY <1>k, <1>n, <2>1
  <1> QED BY <1>3, <1>4, <1>5, <1>6, <1>7, <1>8, <1>9, <1>10, <1>11, <1>12, <1>13, <1>14, <1>15, <1>16
     DEF Step

(* A slice starts with no more to evict than there are entries, and counts both down. *)
LEMMA SliceStep ==
  ASSUME ValueInv, ItemsInv, SliceInv, NEW t \in Thread, Step(t)
  PROVE  SliceInv'
  <1>0. /\ RefsInv /\ CreatorInv /\ ControlInv /\ OneCreator /\ TodoInv /\ Types /\ LockInv
     BY DEF ValueInv, RefsInv, CreatorInv, ControlInv
  <1>1. SUFFICES ASSUME NEW u \in Thread, pc'[u] = "slice" PROVE left'[u].evict <= Cardinality(Keys')
     BY DEF SliceInv
  <1>2. Others(t)
     BY <1>0, MovesStep
  <1>3. CASE u # t
     <2>1. pc[u] = "slice" /\ left'[u] = left[u]
        BY <1>1, <1>2, <1>3 DEF Others
     <2>2. lock = u /\ lock # Nobody /\ lock # t
        BY <1>0, <1>3, <2>1, NobodyAssumption DEF LockInv
     <2>3. UNCHANGED table
        BY <1>0, <2>2, TableChange DEF Marks, Stores, Evicts
     <2> QED BY <2>1, <2>3 DEF SliceInv, Keys
  <1>s. ASSUME NEW n \in Int, Started(t, n), u = t, n <= Cardinality(Keys') PROVE left'[u].evict <= Cardinality(Keys')
     <2>1. left' = [left EXCEPT ![t] = [evict |-> n, visit |-> MAX_EVICT_ITERATIONS]]
        BY <1>1, <1>s DEF Started, Ended, Back
     <2>2. left'[t] = [evict |-> n, visit |-> MAX_EVICT_ITERATIONS]
        BY <1>0, <2>1 DEF Types
     <2> QED BY <1>s, <2>2
  <1>c. items' \in Int => items' >= 0
     <2>1. items' >= InUseCount' + OwedCount'
        BY ItemsStep DEF ItemsInv
     <2>2. InUseCount' \in Nat /\ OwedCount' \in Nat
        <3>1. ItemsInUse' \subseteq Obj /\ Owed' \subseteq Thread
           BY DEF ItemsInUse, Owed
        <3>2. IsFiniteSet(ItemsInUse') /\ IsFiniteSet(Owed')
           BY <3>1, FiniteAssumption, FS_Subset
        <3> QED BY <3>2, FS_CardinalityType DEF InUseCount, OwedCount
     <2>3. PICK a \in Nat : a = InUseCount'
        BY <2>2
     <2>4. PICK b \in Nat : b = OwedCount'
        BY <2>2
     <2>5. items' >= a + b
        BY <2>1, <2>3, <2>4
     <2> QED BY <2>5
  <1>4. ASSUME NEW k \in Key, SliceVisit(t, k), u = t PROVE left'[u].evict <= Cardinality(Keys')
     <2>1. /\ pc[t] = "slice" /\ k \in Keys /\ Visited(k)
           /\ \/ Ended(t)
              \/ left'[t].evict = left[t].evict - IF IsEvictable(k) THEN 1 ELSE 0
        BY <1>0, <1>4, SliceVisitEffect
     <2>2. ~Ended(t)
        BY <1>1, <1>4 DEF Ended, Back
     <2>3. left[t].evict \in Nat /\ left[t].evict <= Cardinality(Keys)
        BY <1>0, <2>1 DEF SliceInv, Types
     <2>4. IsFiniteSet(Keys) /\ Cardinality(Keys) \in Nat
        BY <1>0, KeysFinite
     <2>5. CASE IsEvictable(k)
        <3>1. Keys' = Keys \ {k}
           BY <2>1, <2>5 DEF Visited, Removed
        <3>2. Cardinality(Keys') = Cardinality(Keys) - 1
           BY <2>1, <2>4, <3>1, FS_RemoveElement
        <3> QED BY <1>4, <2>1, <2>2, <2>3, <2>4, <2>5, <3>2
     <2>6. CASE ~IsEvictable(k)
        <3>1. Keys' = Keys
           BY <2>1, <2>6 DEF Visited, Keys
        <3> QED BY <1>4, <2>1, <2>2, <2>3, <2>4, <2>6, <3>1
     <2> QED BY <2>5, <2>6
  <1>5. ASSUME PutIfAbsentAndGet(t), u = t PROVE left'[u].evict <= Cardinality(Keys')
     <2> DEFINE n == CountOfItemsToEvict(Keys', items')
     <2>1. InProgress(Last(stack[t])) /\ pc[t] = "put"
        BY <1>0, <1>5, PutTakes DEF PutIfAbsentAndGet
     <2>2. Started(t, n) /\ n \in Int /\ IsFiniteSet(Keys') /\ items' \in Int /\ policy' = policy
        BY <1>0, <1>5, <2>1, PutStoresEffect
     <2>3. n <= Cardinality(Keys')
        <3>1. policy \in Policies
           BY <1>0 DEF Types
        <3>2. policy' \in Policies /\ items' >= 0
           BY <1>c, <2>2, <3>1
        <3>3. (\E ks : ks = Keys') /\ \E i \in Int : i = items'
           BY <2>2
        <3>5. PICK ks : ks = Keys'
           BY <3>3
        <3>6. PICK i \in Int : i = items'
           BY <3>3
        <3>4. CountOfItemsToEvict(ks, i) <= Cardinality(ks)
           BY <2>2, <3>1, <3>2, <3>5, <3>6, CountIsInt
        <3> QED BY <3>4, <3>5, <3>6
     <2> HIDE DEF n
     <2> QED BY <1>5, <1>s, <2>2, <2>3
  <1>6. ASSUME DecItems(t), u = t PROVE left'[u].evict <= Cardinality(Keys')
     <2> DEFINE n == CountOfItemsToEvict(Keys, items - 1)
     <2>1. Started(t, n) /\ n \in Int /\ table' = table /\ items' = items - 1
        BY <1>0, <1>6, DecItemsEffect
     <2>2. items \in Int /\ policy \in Policies
        BY <1>0 DEF Types
     <2>3. items - 1 \in Int /\ items - 1 >= 0
        BY <1>c, <2>1, <2>2
     <2>4. n <= Cardinality(Keys)
        BY <1>0, <2>2, <2>3, CountIsInt, KeysFinite
     <2>5. Keys' = Keys
        BY <2>1 DEF Keys
     <2> HIDE DEF n
     <2> QED BY <1>6, <1>s, <2>1, <2>4, <2>5
  <1>7. ASSUME NEW k \in Key, Get(t, k) \/ FlushVisit(t, k), u = t PROVE FALSE
     <2>1. CASE Get(t, k)
        BY <1>0, <1>1, <1>7, <2>1, GetEffect
     <2>2. CASE FlushVisit(t, k)
        <3>1. k \in Keys
           BY <1>0, <2>2 DEF FlushVisit, TodoInv
        <3>2. pc[t] = "flush" /\ pc' = pc
           BY <1>0, <2>2, <3>1, FlushVisitEffect
        <3> QED BY <1>1, <1>7, <3>2
     <2> QED BY <1>7, <2>1, <2>2
  <1>8. ASSUME PollHits(t) \/ PollMisses(t), u = t PROVE FALSE
     <2>1. CASE PollHits(t)
        <3>1. \E o, r : Back(t, o, r)
           BY <1>0, <2>1, PollHitsEffect
        <3> QED BY <1>1, <1>8, <3>1 DEF Back
     <2>2. CASE PollMisses(t)
        <3>1. pc'[t] = "create" \/ Back(t, NoValue, "error")
           BY <1>0, <2>2, PollMissesEffect
        <3> QED BY <1>1, <1>8, <3>1 DEF Back
     <2> QED BY <1>8, <2>1, <2>2
  <1>9. ASSUME CreateFromCache(t) \/ (\E o \in Obj : CreateNew(t, o)) \/ CreateFails(t), u = t PROVE FALSE
     BY <1>0, <1>1, <1>9, CreateFromCacheEffect, CreateNewEffect, CreateFailsEffect
  <1>10. ASSUME RemoveRef(t) \/ DecTotal(t) \/ ReadCachePtr(t) \/ Free(t), u = t PROVE FALSE
     <2>1. pc'[t] \in {"decTotal", "readCache", "decItems", "free", "idle"}
        <3>1. CASE RemoveRef(t)
           BY <1>0, <3>1, RemoveRefEffect
        <3>2. CASE DecTotal(t)
           BY <1>0, <3>2, DecTotalEffect
        <3>3. CASE ReadCachePtr(t)
           BY <1>0, <3>3, ReadCachePtrEffect
        <3>4. CASE Free(t)
           BY <1>0, <3>4, FreeEffect
        <3> QED BY <1>10, <3>1, <3>2, <3>3, <3>4
     <2> QED BY <1>1, <1>10, <2>1
  <1>11. ASSUME Flush(t) \/ FlushPassEnds(t), u = t PROVE FALSE
     <2>1. pc'[t] \in {"idle", "flush"}
        BY <1>0, <1>11, FlushEffect, FlushPassEndsEffect
     <2> QED BY <1>1, <1>11, <2>1
  <1> QED BY <1>3, <1>4, <1>5, <1>6, <1>7, <1>8, <1>9, <1>10, <1>11 DEF Step

(* No item is in use at the start. *)
LEMMA ItemsInit ==
  ASSUME Init
  PROVE  ItemsInv /\ SliceInv
  <1>1. \A t \in Thread : pc[t] = "idle"
     BY DEF Init
  <1>2. \A o \in Obj : ~cached[o]
     BY DEF Init
  <1>3. ItemsInUse = {} /\ Owed = {}
     BY <1>1, <1>2 DEF ItemsInUse, Owed
  <1>4. InUseCount = 0 /\ OwedCount = 0
     BY <1>3, FS_EmptySet DEF InUseCount, OwedCount
  <1>5. items = 0
     BY DEF Init
  <1> QED BY <1>1, <1>4, <1>5 DEF ItemsInv, SliceInv

(* Both parts are inductive relative to ValueInv. *)
LEMMA ItemsInductive ==
  ValueInv /\ ItemsInv /\ SliceInv /\ [Next]_vars => ItemsInv' /\ SliceInv'
  <1> SUFFICES ASSUME ValueInv, ItemsInv, SliceInv, [Next]_vars PROVE ItemsInv' /\ SliceInv'
     OBVIOUS
  <1>1. Types
     BY DEF ValueInv, RefsInv, CreatorInv, ControlInv
  <1>2. CASE Quiet
     <2>1. UNCHANGED <<table, items, hard, cached, pc, val, last, left, stale>>
        BY <1>2 DEF Quiet
     <2> QED BY <2>1 DEF ItemsInv, SliceInv, InUseCount, ItemsInUse, OwedCount, Owed, Keys
  <1> QED BY <1>1, <1>2, ItemsStep, SliceStep, Steps

(* The three invariants hold of every reachable state. *)
THEOREM ItemsSafe == Spec => [](ValueInv /\ ItemsInv /\ SliceInv)
  <1>1. Init => ValueInv /\ ItemsInv /\ SliceInv
     BY ValueInit, ItemsInit
  <1>2. ValueInv /\ ItemsInv /\ SliceInv /\ [Next]_vars => (ValueInv /\ ItemsInv /\ SliceInv)'
     BY ValueInductive, ItemsInductive
  <1> QED BY <1>1, <1>2, PTL DEF Spec

(* fItemsInUseCount is off by the decrements still to come and by nothing *)
(* else, as long as no removeRef has read a deleted object's cachePtr.    *)
THEOREM ItemsExactAlways == Spec => []ItemsEventuallyExact
  <1>1. ItemsInv => ItemsEventuallyExact
     BY DEF ItemsInv, ItemsEventuallyExact, InUseCount, ItemsInUse, OwedCount
  <1> QED BY <1>1, ItemsSafe, PTL

(* Types, reference counts, deletion, and slices that find elements to   *)
(* visit: the safety of the cache as a whole, for any number of threads, *)
(* keys and values and any eviction policy.                              *)
THEOREM CacheInvAlways == Spec => []CacheInv
  <1>1. ValueInv /\ SliceInv /\ DeletionInv => CacheInv
     BY CountsNatural, DeletionSays DEF ValueInv, SliceInv, RefsInv, CacheInv, SliceFindsElements
  <1> QED BY <1>1, ItemsSafe, DeletionSafe, PTL
==============================================================================

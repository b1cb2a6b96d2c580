----------------------------- MODULE UnifiedCache -----------------------------
(***************************************************************************)
(* ICU's unified cache (unifiedcache.cpp) and the reference-counted values *)
(* it keeps (sharedobject.cpp), as used by any number of threads.          *)
(*                                                                         *)
(* What the code does under gCacheMutex is one step, except an eviction    *)
(* slice and a flush, which visit one element at a time while they hold    *)
(* it; the atomic decrements of SharedObject::removeRef happen outside the *)
(* mutex, so they fall between any two of these.  gNoValue has a soft      *)
(* reference of its own from cacheInit on: it is never registered nor      *)
(* deleted, and its counts are left out.                                   *)
(***************************************************************************)
EXTENDS Integers, FiniteSets, SequencesExt

CONSTANTS Thread, Nobody,       \* threads; the owner of a free gCacheMutex
          Key, NoKey,           \* cache keys
          Obj, NoValue,         \* SharedObjects that can be allocated; gNoValue
          Alias,                \* the key whose value createObject returns, or NoKey
          Policies,             \* <<count, percentage>> for setEvictionPolicy
          MAX_EVICT_ITERATIONS

ASSUME FiniteAssumption == IsFiniteSet(Thread) /\ IsFiniteSet(Key) /\ IsFiniteSet(Obj)
ASSUME NobodyAssumption  == Nobody \notin Thread
ASSUME NoKeyAssumption   == NoKey \notin Key
ASSUME NoValueAssumption == NoValue \notin Obj
(* createObject of a key never needs the key itself. *)
ASSUME AliasAssumption   == /\ Alias \in [Key -> Key \cup {NoKey}]
                            /\ \A k \in Key : Alias[k] # NoKey => Alias[Alias[k]] = NoKey
ASSUME PolicyAssumption  == Policies \subseteq Nat \X Nat /\ Policies # {}
ASSUME IterationsAssumption == MAX_EVICT_ITERATIONS \in Nat \ {0}

VARIABLES
  lock,      \* owner of gCacheMutex while an eviction slice or a flush runs
  table,     \* fHashtable: key -> [value, status, master]
  items,     \* fItemsInUseCount
  policy,    \* <<fMaxUnused, fMaxPercentageOfInUse>>
  life,      \* SharedObjects: "unborn", "live" or "deleted"
  hard,      \* hardRefCount
  soft,      \* softRefCount
  total,     \* totalRefCount
  cached,    \* cachePtr # NULL
  pc,        \* where each thread is
  waiting,   \* threads in umtx_condWait on gInProgressValueAddedCond
  stack,     \* keys a thread's nested get() calls are for, innermost last
  val,       \* "value" in _get, the object in removeRef
  status,    \* "status" in _get
  held,      \* the references a thread holds, with the keys they came from
  last,      \* decrementItemsInUse in removeRef
  gone,      \* allReferencesGone in removeRef
  left,      \* a slice: items it may still evict, elements it may still visit
  todo,      \* a flush: keys of the elements of this pass not visited yet
  result,    \* a flush: this pass evicted something
  stale      \* history: some thread read a deleted SharedObject

cacheVars == <<table, items>>
objVars   == <<life, hard, soft, total, cached>>
localVars == <<val, status, last, gone, left, todo, result>>
vars == <<lock, cacheVars, policy, objVars, pc, waiting, stack, held, localVars, stale>>

Entry == [value : Obj \cup {NoValue}, status : {"ok", "error"}, master : BOOLEAN]

Keys  == DOMAIN table

TypeOK ==
  /\ lock \in Thread \cup {Nobody}
  /\ Keys \subseteq Key /\ \A k \in Keys : table[k] \in Entry
  /\ items \in Int
  /\ policy \in Policies
  /\ life \in [Obj -> {"unborn", "live", "deleted"}]
  /\ hard \in [Obj -> Nat] /\ soft \in [Obj -> Nat] /\ total \in [Obj -> Nat]
  /\ cached \in [Obj -> BOOLEAN]
  /\ pc \in [Thread -> {"idle", "poll", "create", "put", "slice",
                        "decTotal", "readCache", "decItems", "free", "flush"}]
  /\ waiting \subseteq Thread
  /\ stack \in [Thread -> Seq(Key)]
  /\ val \in [Thread -> Obj \cup {NoValue}]
  /\ status \in [Thread -> {"ok", "error"}]
  /\ held \in [Thread -> SUBSET (Key \X Obj)]
  /\ last \in [Thread -> BOOLEAN] /\ gone \in [Thread -> BOOLEAN]
  /\ left \in [Thread -> [evict : Nat, visit : Nat]]
  /\ todo \in [Thread -> SUBSET Key] /\ result \in [Thread -> BOOLEAN]
  /\ stale \in BOOLEAN

Init ==
  /\ lock = Nobody
  /\ table = <<>>
  /\ items = 0
  /\ policy \in Policies
  /\ life = [o \in Obj |-> "unborn"]
  /\ hard = [o \in Obj |-> 0] /\ soft = [o \in Obj |-> 0] /\ total = [o \in Obj |-> 0]
  /\ cached = [o \in Obj |-> FALSE]
  /\ pc = [t \in Thread |-> "idle"]
  /\ waiting = {}
  /\ stack = [t \in Thread |-> <<>>]
  /\ val = [t \in Thread |-> NoValue]
  /\ status = [t \in Thread |-> "ok"]
  /\ held = [t \in Thread |-> {}]
  /\ last = [t \in Thread |-> FALSE] /\ gone = [t \in Thread |-> FALSE]
  /\ left = [t \in Thread |-> [evict |-> 0, visit |-> 0]]
  /\ todo = [t \in Thread |-> {}] /\ result = [t \in Thread |-> FALSE]
  /\ stale = FALSE

Goto(t, l) == pc' = [pc EXCEPT ![t] = l]

-------------------------------------------------------------------------------
(* Private helpers of the cache; the mutex is held. *)

InProgress(k) == table[k].value = NoValue /\ table[k].status = "ok"

(* Mutant: an entry under construction may go. *)
EvictsInProgress(k) ==
  ~table[k].master \/ (soft[table[k].value] = 1 /\ hard[table[k].value] = 0)

(* Mutant: a master may go while clients hold its value. *)
EvictsInUse(k) == ~InProgress(k) /\ (~table[k].master \/ soft[table[k].value] = 1)

(* An entry under construction stays; a master stays while it is in use. *)
IsEvictable(k) ==
  /\ ~InProgress(k)
  /\ \/ ~table[k].master
     \/ soft[table[k].value] = 1 /\ hard[table[k].value] = 0

(* Mutant: the element goes, its soft reference stays. *)
EvictKeepsSoftRef(k) ==
  table' = [j \in Keys \ {k} |-> table[j]] /\ UNCHANGED <<life, soft, total>>

(* uhash_removeElement and removeSoftRef, which deletes an object that loses *)
(* its last reference.                                                       *)
Evict(k) ==
  LET o == table[k].value
  IN  /\ table' = [j \in Keys \ {k} |-> table[j]]
      /\ IF o = NoValue THEN UNCHANGED <<life, soft, total>>
         ELSE /\ soft' = [soft EXCEPT ![o] = @ - 1]
              /\ total' = [total EXCEPT ![o] = @ - 1]
              /\ life' = [life EXCEPT ![o] = IF total[o] = 1 THEN "deleted" ELSE @]

MaxOf(a, b) == IF a < b THEN b ELSE a

CountOfItemsToEvict(keys, inUse) ==
  Cardinality(keys) - inUse - MaxOf(policy[1], (inUse * policy[2]) \div 100)

(* _get returns to its caller: the client, who owns a reference if there is  *)
(* a value, or the createObject of the key for which it was called.          *)
Return(t, o, s) ==
  /\ stack' = [stack EXCEPT ![t] = Front(@)]
  /\ IF Len(stack[t]) = 1
     THEN /\ Goto(t, "idle")
          /\ held' = [held EXCEPT ![t] = IF o = NoValue THEN @ ELSE @ \cup {<<Last(stack[t]), o>>}]
          /\ val' = [val EXCEPT ![t] = NoValue] /\ status' = [status EXCEPT ![t] = "ok"]
     ELSE /\ Goto(t, "put")
          /\ val' = [val EXCEPT ![t] = o] /\ status' = [status EXCEPT ![t] = s]
          /\ UNCHANGED held

(* The end of a function that ran an eviction slice: _putIfAbsentAndGet is   *)
(* followed by the return of _get, removeRef by its last statement.          *)
EndSlice(t) ==
  IF stack[t] # <<>> THEN Return(t, val[t], status[t])
  ELSE Goto(t, "free") /\ UNCHANGED <<stack, held, val, status>>

(* _runEvictionSlice, from its first test on. *)
StartSlice(t, keys, inUse) ==
  LET n == CountOfItemsToEvict(keys, inUse)
  IN  IF n <= 0 THEN EndSlice(t) /\ UNCHANGED <<lock, left>>
      ELSE /\ lock' = t
           /\ left' = [left EXCEPT ![t] = [evict |-> n, visit |-> MAX_EVICT_ITERATIONS]]
           /\ Goto(t, "slice")
           /\ UNCHANGED <<stack, held, val, status>>

-------------------------------------------------------------------------------
(* UnifiedCache::get.  A client keeps at most one reference per key here.    *)

Get(t, k) ==
  /\ pc[t] = "idle" /\ \A h \in held[t] : h[1] # k
  /\ Goto(t, "poll")
  /\ stack' = [stack EXCEPT ![t] = <<k>>]
  /\ UNCHANGED <<lock, cacheVars, policy, objVars, waiting, held, localVars, stale>>

(* _poll: the entry is under construction, so umtx_condWait. *)
PollWaits(t) ==
  LET k == Last(stack[t])
  IN  /\ pc[t] = "poll" /\ t \notin waiting /\ lock = Nobody
      /\ k \in Keys /\ InProgress(k)
      /\ waiting' = waiting \cup {t}
      /\ UNCHANGED <<lock, cacheVars, policy, objVars, pc, stack, held, localVars, stale>>

(* umtx_condWait may return although nobody called umtx_condBroadcast. *)
SpuriousWake(t) ==
  /\ t \in waiting
  /\ waiting' = waiting \ {t}
  /\ UNCHANGED <<lock, cacheVars, policy, objVars, pc, stack, held, localVars, stale>>

(* Mutant: a value that comes back into use is not counted. *)
AddRefUncounted(o) ==
  /\ hard' = [hard EXCEPT ![o] = @ + 1] /\ total' = [total EXCEPT ![o] = @ + 1]
  /\ UNCHANGED items

(* SharedObject::addRef under the mutex: the first hard reference to a value *)
(* of the cache makes it an item in use.                                     *)
AddRef(o) ==
  /\ hard' = [hard EXCEPT ![o] = @ + 1] /\ total' = [total EXCEPT ![o] = @ + 1]
  /\ items' = items + IF hard[o] = 0 /\ cached[o] THEN 1 ELSE 0

(* _poll and _fetch: a hit takes a hard reference under the mutex. *)
PollHits(t) ==
  LET k == Last(stack[t])
      o == table[k].value
  IN  /\ pc[t] = "poll" /\ t \notin waiting /\ lock = Nobody
      /\ k \in Keys /\ ~InProgress(k)
      /\ IF o = NoValue THEN UNCHANGED <<items, hard, total>> ELSE AddRef(o)
      /\ Return(t, o, table[k].status)
      /\ UNCHANGED <<lock, table, policy, life, soft, cached, waiting, last, gone,
                     left, todo, result, stale>>

(* _poll: a miss puts gNoValue under the key and leaves the thread to create *)
(* the value, unless there is no memory for the entry.                       *)
PollMisses(t) ==
  LET k == Last(stack[t])
  IN  /\ pc[t] = "poll" /\ t \notin waiting /\ lock = Nobody
      /\ k \notin Keys
      /\ \/ /\ table' = [j \in Keys \cup {k} |->
                          IF j = k THEN [value |-> NoValue, status |-> "ok", master |-> FALSE]
                          ELSE table[j]]
            /\ Goto(t, "create")
            /\ UNCHANGED <<stack, held, val, status>>
         \/ Return(t, NoValue, "error") /\ UNCHANGED table
      /\ UNCHANGED <<lock, items, policy, objVars, waiting, last, gone, left, todo,
                     result, stale>>

(* createObject gets another key's value and returns that. *)
CreateFromCache(t) ==
  LET k == Last(stack[t])
  IN  /\ pc[t] = "create" /\ Alias[k] # NoKey
      /\ Goto(t, "poll")
      /\ stack' = [stack EXCEPT ![t] = Append(@, Alias[k])]
      /\ UNCHANGED <<lock, cacheVars, policy, objVars, waiting, held, localVars, stale>>

(* createObject makes a new object and owns the first reference to it. *)
CreateNew(t, o) ==
  /\ pc[t] = "create" /\ Alias[Last(stack[t])] = NoKey
  /\ life[o] = "unborn"
  /\ life' = [life EXCEPT ![o] = "live"]
  /\ hard' = [hard EXCEPT ![o] = 1] /\ total' = [total EXCEPT ![o] = 1]
  /\ Goto(t, "put")
  /\ val' = [val EXCEPT ![t] = o] /\ status' = [status EXCEPT ![t] = "ok"]
  /\ UNCHANGED <<lock, cacheVars, policy, soft, cached, waiting, stack, held, last,
                 gone, left, todo, result, stale>>

CreateFails(t) ==
  /\ pc[t] = "create" /\ Alias[Last(stack[t])] = NoKey
  /\ Goto(t, "put")
  /\ val' = [val EXCEPT ![t] = NoValue] /\ status' = [status EXCEPT ![t] = "error"]
  /\ UNCHANGED <<lock, cacheVars, policy, objVars, waiting, stack, held, last, gone,
                 left, todo, result, stale>>

(* _putIfAbsentAndGet when another value is there: the thread's own value is *)
(* dropped, under the mutex, for the one in the cache.                       *)
PutFinds(t, k) ==
  LET found    == table[k].value
      own      == val[t]
      Delta(o) == (IF o = found THEN 1 ELSE 0) - (IF o = own THEN 1 ELSE 0)
  IN  /\ hard' = [o \in Obj |-> hard[o] + Delta(o)]
      /\ total' = [o \in Obj |-> total[o] + Delta(o)]
      /\ items' = items + Cardinality({o \in Obj : cached[o] /\ hard[o] = 0 /\ Delta(o) = 1})
                       - Cardinality({o \in Obj : cached[o] /\ hard[o] = 1 /\ Delta(o) = -1})
      /\ life' = [o \in Obj |-> IF total[o] = 1 /\ Delta(o) = -1 THEN "deleted" ELSE life[o]]
      /\ Return(t, found, table[k].status)
      /\ UNCHANGED <<lock, table, soft, cached, waiting, left>>

(* Mutant: _put does not notify. *)
NobodyNotified(k) == waiting

(* Threads still asleep after _put: umtx_condBroadcast if gNoValue was there. *)
AsleepAfterPut(k) == IF k \in Keys THEN {} ELSE waiting

(* _put and _putNew: the value enters the cache; if it is new there, the     *)
(* entry is its master and the value counts as in use.  Waiting threads are  *)
(* notified when the value replaces gNoValue; an eviction slice follows.     *)
PutStores(t, k) ==
  LET o      == val[t]
      master == o # NoValue /\ soft[o] = 0
      inUse  == items + IF master THEN 1 ELSE 0
  IN  /\ table' = [j \in Keys \cup {k} |->
                     IF j = k THEN [value |-> o, status |-> status[t], master |-> master]
                     ELSE table[j]]
      /\ items' = inUse
      /\ IF o = NoValue THEN UNCHANGED <<soft, total, cached>>
         ELSE /\ soft' = [soft EXCEPT ![o] = @ + 1]
              /\ total' = [total EXCEPT ![o] = @ + 1]
              /\ cached' = [cached EXCEPT ![o] = @ \/ master]
      /\ waiting' = AsleepAfterPut(k)
      /\ StartSlice(t, Keys \cup {k}, inUse)
      /\ UNCHANGED <<life, hard>>

PutIfAbsentAndGet(t) ==
  LET k == Last(stack[t])
  IN  /\ pc[t] = "put" /\ lock = Nobody
      /\ IF k \in Keys /\ ~InProgress(k) THEN PutFinds(t, k) ELSE PutStores(t, k)
      /\ UNCHANGED <<policy, last, gone, todo, result, stale>>

-------------------------------------------------------------------------------
(* SharedObject::removeRef by a client, one step per access to shared state. *)

RemoveRef(t) ==
  /\ pc[t] = "idle"
  /\ \E h \in held[t] :
       /\ held' = [held EXCEPT ![t] = @ \ {h}]
       /\ hard' = [hard EXCEPT ![h[2]] = @ - 1]
       /\ last' = [last EXCEPT ![t] = hard[h[2]] = 1]
       /\ val' = [val EXCEPT ![t] = h[2]]
  /\ Goto(t, "decTotal")
  /\ UNCHANGED <<lock, cacheVars, policy, life, soft, total, cached, waiting, stack,
                 status, gone, left, todo, result, stale>>

DecTotal(t) ==
  /\ pc[t] = "decTotal"
  /\ total' = [total EXCEPT ![val[t]] = @ - 1]
  /\ gone' = [gone EXCEPT ![t] = total[val[t]] = 1]
  /\ Goto(t, IF last[t] THEN "readCache" ELSE "free")
  /\ UNCHANGED <<lock, cacheVars, policy, life, hard, soft, cached, waiting, stack, held,
                 val, status, last, left, todo, result, stale>>

(* cachePtr is read after both counts were given up.  If the object has been *)
(* deleted meanwhile the memory may still show the pointer, or a null.       *)
ReadCachePtr(t) ==
  /\ pc[t] = "readCache"
  /\ stale' = (stale \/ life[val[t]] = "deleted")
  /\ \E seen \in {cached[val[t]]} \cup (IF life[val[t]] = "deleted" THEN {FALSE} ELSE {}) :
       Goto(t, IF seen THEN "decItems" ELSE "free")
  /\ UNCHANGED <<lock, cacheVars, policy, objVars, waiting, stack, held, localVars>>

(* decrementItemsInUseWithLockingAndEviction. *)
DecItems(t) ==
  /\ pc[t] = "decItems" /\ lock = Nobody
  /\ items' = items - 1
  /\ StartSlice(t, Keys, items - 1)
  /\ UNCHANGED <<table, policy, objVars, waiting, last, gone, todo, result, stale>>

Free(t) ==
  /\ pc[t] = "free"
  /\ life' = IF gone[t] THEN [life EXCEPT ![val[t]] = "deleted"] ELSE life
  /\ Goto(t, "idle")
  /\ val' = [val EXCEPT ![t] = NoValue]
  /\ last' = [last EXCEPT ![t] = FALSE] /\ gone' = [gone EXCEPT ![t] = FALSE]
  /\ UNCHANGED <<lock, cacheVars, policy, hard, soft, total, cached, waiting, stack, held,
                 status, left, todo, result, stale>>

-------------------------------------------------------------------------------
(* One element of _runEvictionSlice.  Round robin over a hash table gives    *)
(* any order of elements.                                                    *)
SliceVisit(t, k) ==
  LET n == IF IsEvictable(k) THEN left[t].evict - 1 ELSE left[t].evict
  IN  /\ pc[t] = "slice" /\ k \in Keys
      /\ IF IsEvictable(k) THEN Evict(k) ELSE UNCHANGED <<table, life, soft, total>>
      /\ IF n = 0 \/ left[t].visit = 1
         THEN EndSlice(t) /\ lock' = Nobody /\ left' = [left EXCEPT ![t] = [evict |-> 0, visit |-> 0]]
         ELSE /\ left' = [left EXCEPT ![t] = [evict |-> n, visit |-> @.visit - 1]]
              /\ UNCHANGED <<lock, pc, stack, held, val, status>>
      /\ UNCHANGED <<items, policy, hard, cached, waiting, last, gone, todo, result, stale>>

(* flush: passes of _flush(FALSE) until one of them evicts nothing. *)
Flush(t) ==
  /\ pc[t] = "idle" /\ lock = Nobody /\ Keys # {}
  /\ Goto(t, "flush")
  /\ lock' = t
  /\ todo' = [todo EXCEPT ![t] = Keys]
  /\ UNCHANGED <<cacheVars, policy, objVars, waiting, stack, held, val, status, last, gone,
                 left, result, stale>>

FlushVisit(t, k) ==
  /\ pc[t] = "flush" /\ k \in todo[t]
  /\ IF IsEvictable(k) THEN Evict(k) ELSE UNCHANGED <<table, life, soft, total>>
  /\ todo' = [todo EXCEPT ![t] = @ \ {k}]
  /\ result' = [result EXCEPT ![t] = @ \/ IsEvictable(k)]
  /\ UNCHANGED <<lock, items, policy, hard, cached, waiting, pc, stack, held, val, status,
                 last, gone, left, stale>>

FlushPassEnds(t) ==
  /\ pc[t] = "flush" /\ todo[t] = {}
  /\ result' = [result EXCEPT ![t] = FALSE]
  /\ IF result[t] /\ Keys # {}
     THEN todo' = [todo EXCEPT ![t] = Keys] /\ UNCHANGED <<lock, pc>>
     ELSE lock' = Nobody /\ Goto(t, "idle") /\ UNCHANGED todo
  /\ UNCHANGED <<cacheVars, policy, objVars, waiting, stack, held, val, status, last, gone,
                 left, stale>>

SetEvictionPolicy ==
  /\ lock = Nobody
  /\ \E p \in Policies \ {policy} : policy' = p
  /\ UNCHANGED <<lock, cacheVars, objVars, pc, waiting, stack, held, localVars, stale>>

-------------------------------------------------------------------------------
GetSteps(t) ==
  \/ PollWaits(t) \/ PollHits(t) \/ PollMisses(t)
  \/ CreateFromCache(t) \/ (\E o \in Obj : CreateNew(t, o)) \/ CreateFails(t)
  \/ PutIfAbsentAndGet(t)
RemoveSteps(t) == DecTotal(t) \/ ReadCachePtr(t) \/ DecItems(t) \/ Free(t)
EvictSteps(t)  == \E k \in Key : SliceVisit(t, k) \/ FlushVisit(t, k)
ClientSteps(t) == (\E k \in Key : Get(t, k)) \/ RemoveRef(t) \/ Flush(t)

Next ==
  \/ \E t \in Thread : \/ GetSteps(t) \/ SpuriousWake(t) \/ RemoveSteps(t)
                       \/ EvictSteps(t) \/ FlushPassEnds(t) \/ ClientSteps(t)
  \/ SetEvictionPolicy

Spec == Init /\ [][Next]_vars

(* Threads run, createObject returns, and the mutex is a critical section:   *)
(* a thread that keeps finding it free gets it.  Nothing is assumed of the   *)
(* clients, nor that umtx_condWait ever returns by itself.                   *)
Fairness ==
  \A t \in Thread : /\ SF_vars(GetSteps(t)) /\ SF_vars(RemoveSteps(t))
                    /\ WF_vars(EvictSteps(t)) /\ WF_vars(FlushPassEnds(t))

FairSpec == Spec /\ Fairness

-------------------------------------------------------------------------------
(* Hard references: those of clients, and those on their way to a client. *)
InFlight(t) == pc[t] = "put" \/ (pc[t] = "slice" /\ stack[t] # <<>>)
Holders(o)  == {h \in Thread \X Key : <<h[2], o>> \in held[h[1]]}
Carriers(o) == {t \in Thread : InFlight(t) /\ val[t] = o}
EntriesOf(o) == {k \in Keys : table[k].value = o}

(* The three counts of a SharedObject say what they are named for whenever   *)
(* threads add and remove references in any order: one hard reference per    *)
(* holder, one soft reference per entry, and in total what is not given up.  *)
RefsExact ==
  \A o \in Obj :
    /\ hard[o] = Cardinality(Holders(o)) + Cardinality(Carriers(o))
    /\ soft[o] = Cardinality(EntriesOf(o))
    /\ total[o] = hard[o] + soft[o]
                  + Cardinality({t \in Thread : pc[t] = "decTotal" /\ val[t] = o})

(* removeRef and removeSoftRef delete an object once, when nobody refers to  *)
(* it any more, and one of them always does: an object with a reference is   *)
(* live, and a live one has a reference or a thread about to delete it.      *)
DeletedOnce ==
  \A o \in Obj :
    LET deleters == {t \in Thread : gone[t] /\ val[t] = o}
    IN  /\ total[o] > 0 => life[o] = "live"
        /\ life[o] = "live" => total[o] > 0 \/ deleters # {}
        /\ deleters # {} => life[o] = "live" /\ Cardinality(deleters) = 1

(* "Although items in use may not be correct immediately, it will be correct *)
(* eventually" (sharedobject.cpp): fItemsInUseCount is off by exactly the    *)
(* decrements that threads have still to make, so never for good.            *)
Owed == {t \in Thread :
           \/ pc[t] = "decItems"
           \/ pc[t] \in {"decTotal", "readCache"} /\ last[t] /\ cached[val[t]]}

ItemsEventuallyExact ==
  ~stale => items = Cardinality({o \in Obj : cached[o] /\ hard[o] > 0}) + Cardinality(Owed)

(* A slice never has more to evict than there are elements, so _nextElement, *)
(* whose result is not tested, never meets an empty table.                   *)
SliceFindsElements == \A t \in Thread : pc[t] = "slice" => left[t].evict <= Cardinality(Keys)

(* The keys whose values a thread is creating: not the one it looks for, nor *)
(* the one whose value it has put into the cache.                            *)
Creating(t) ==
  {stack[t][i] : i \in 1..(Len(stack[t]) - IF pc[t] \in {"poll", "slice"} THEN 1 ELSE 0)}

(* One thread at a time creates the value of a key, behind an entry that     *)
(* stays until that thread replaces it: an entry in progress is never        *)
(* evicted, never without its creator, and never found taken by _put.        *)
OneCreator ==
  /\ \A t, u \in Thread : \A k \in Key :
       k \in Creating(t) /\ k \in Creating(u) => t = u
  /\ \A t \in Thread : \A k \in Creating(t) : k \in Keys /\ InProgress(k)
  /\ \A k \in Keys : InProgress(k) => \E t \in Thread : k \in Creating(t)

(* "For a given key X, the cache returns the same reference to the same      *)
(* value as long as the client already holds a reference to that value"      *)
(* (unifiedcache.h): a held value is the one its key leads to.               *)
SameValueWhileHeld ==
  \A t \in Thread : \A h \in held[t] :
    /\ Alias[h[1]] = NoKey => h[1] \in Keys
    /\ h[1] \in Keys => table[h[1]].value = h[2] \/ (Alias[h[1]] # NoKey /\ InProgress(h[1]))

(* "Decrements the number of references to this object.  Thread-safe."       *)
(* (sharedobject.h): removeRef touches no object that is deleted.            *)
NoStaleRead == ~stale

(* No wakeup is lost: a thread that waits for a value under construction is  *)
(* woken, however the creator fares.                                         *)
WaitersWoken == \A t \in Thread : t \in waiting ~> t \notin waiting

(* gCacheMutex is never kept: slices and flushes end.                        *)
MutexReleased == lock # Nobody ~> lock = Nobody

-------------------------------------------------------------------------------
(* The objects of the cache as a whole: types, counts, deletion, and slices  *)
(* that find what they count on.                                             *)
CacheInv == TypeOK /\ RefsExact /\ DeletedOnce /\ SliceFindsElements

(* Nobody waits for ever, for a value or for gCacheMutex. *)
NobodyWaitsForever == WaitersWoken /\ MutexReleased
===============================================================================

---------------------------- MODULE ServiceRegistry ----------------------------
(***************************************************************************)
(* A service to which clients register factories (serv.cpp) and that tells  *)
(* its listeners of every change (servnotf.cpp).  It caches what the        *)
(* factories make of a descriptor, the ids that are visible, and their      *)
(* display names.  The registry is changed and read under lock; listeners   *)
(* are told afterwards, under notifyLock, and getDisplayNames copies what   *)
(* it returns from the cached display names after it has given up lock.     *)
(***************************************************************************)
EXTENDS Integers, FiniteSets, SequencesExt

CONSTANTS Client,      \* threads
          Factory, IdOf, Visible,  \* SimpleFactory: objects, their _id, and those that are _visible
          Id, FallbackIds,           \* ids; those that LocaleKey::fallback gives after one
          Locale, Listener,
          MaxChanges               \* bound on timestamp

ASSUME FactoryAssumption == IdOf \in [Factory -> Id] /\ Visible \subseteq Factory /\ "none" \notin Id \cup Factory
ASSUME IdAssumption      == Id # {} /\ IsFiniteSet(Id)

VARIABLES factories,    \* the vector of factories, the latest first
          serviceCache, \* descriptor -> actualDescriptor of the CacheEntry, or "none"
          cacheEntry,   \* actualDescriptor -> refcount and maker of the CacheEntry, or NoCacheEntry
          idCache,      \* visible id -> its factory; or NoMap
          dnCache,      \* locale and ids of the DNCache, or NoNames
          timestamp,
          listeners,    \* listener -> timestamp when it was added, or -1
          heard,        \* history: timestamp when each listener was last told
          announcing,   \* client -> "no", "changed" (has to notify) or "notify" (saw listeners)
          reading       \* client -> locale whose display names it copies from dnCache, or "none"

registryVars == <<factories, serviceCache, cacheEntry, idCache, dnCache, timestamp>>
serviceVars  == <<registryVars, listeners, heard, announcing, reading>>

(* A descriptor and its fallbacks; a fallback has the rest as its own, so    *)
(* that none comes twice.                                                    *)
Way(d) == <<d>> \o FallbackIds[d]

ASSUME FallbackAssumption ==
  /\ FallbackIds \in [Id -> Seq(Id)]
  /\ \A d \in Id : \A i \in DOMAIN Way(d) : Way(Way(d)[i]) = SubSeq(Way(d), i, Len(Way(d)))

NoCacheEntry == [refs |-> 0, by |-> "none"]
NoMap   == <<>>
NoNames == [locale |-> "none", ids |-> {}]
NoIds == [i \in Id |-> "none"]

ServiceInit ==
  /\ factories = <<>> /\ timestamp = 0
  /\ serviceCache = [d \in Id |-> "none"] /\ cacheEntry = [a \in Id |-> NoCacheEntry]
  /\ idCache = NoMap /\ dnCache = NoNames
  /\ listeners = [l \in Listener |-> -1] /\ heard = [l \in Listener |-> 0]
  /\ announcing = [c \in Client |-> "no"] /\ reading = [c \in Client |-> "none"]

(* The client is in no call. *)
InNoCall(c) == announcing[c] = "no" /\ reading[c] = "none"

-------------------------------------------------------------------------------
(* Mutant: clearCaches keeps what it thinks still holds. *)
ClearVisible == /\ timestamp' = timestamp + 1 /\ dnCache' = NoNames /\ idCache' = NoMap
                /\ UNCHANGED <<serviceCache, cacheEntry>>

(* CacheEntry: new, ref n times, unref n times. *)
NewEntry(f) == [refs |-> 1, by |-> f]
Ref(e, n)   == [refs |-> e.refs + n, by |-> e.by]
Unref(e, n) == IF e.refs = n THEN NoCacheEntry ELSE [refs |-> e.refs - n, by |-> e.by]

CachedAs(a) == {d \in Id : serviceCache[d] = a}

(* clearCaches: deleting the table takes one reference for each descriptor.  *)
ClearCaches ==
  /\ timestamp' = timestamp + 1 /\ dnCache' = NoNames /\ idCache' = NoMap
  /\ serviceCache' = [d \in Id |-> "none"]
  /\ cacheEntry' = [a \in Id |-> Unref(cacheEntry[a], Cardinality(CachedAs(a)))]

(* registerFactory, unregister and reset, up to the end of the lock. *)
ChangeFactories(c, fs) ==
  /\ InNoCall(c) /\ timestamp < MaxChanges
  /\ factories' = fs /\ ClearCaches
  /\ announcing' = [announcing EXCEPT ![c] = "changed"]
  /\ UNCHANGED <<listeners, heard, reading>>

RegisterFactory(c, f) == f \notin ToSet(factories) /\ ChangeFactories(c, <<f>> \o factories)

(* Mutant: unregister tells nobody. *)
UnregisterSilently(c, f) ==
  /\ InNoCall(c) /\ timestamp < MaxChanges
  /\ \E i \in DOMAIN factories : factories[i] = f /\ factories' = RemoveAt(factories, i)
  /\ ClearCaches
  /\ UNCHANGED <<listeners, heard, announcing, reading>>

Unregister(c, f) ==
  \E i \in DOMAIN factories : factories[i] = f /\ ChangeFactories(c, RemoveAt(factories, i))
Reset(c) == ChangeFactories(c, <<>>)

(* notifyChanged: listeners # NULL, without the lock; then with it. *)
TestListeners(c) ==
  /\ announcing[c] = "changed"
  /\ announcing' = [announcing EXCEPT ![c] = IF \E l \in Listener : listeners[l] >= 0 THEN "notify" ELSE "no"]
  /\ UNCHANGED <<registryVars, listeners, heard, reading>>

NotifyChanged(c) ==
  /\ announcing[c] = "notify"
  /\ heard' = [l \in Listener |-> IF listeners[l] >= 0 THEN timestamp ELSE heard[l]]
  /\ announcing' = [announcing EXCEPT ![c] = "no"]
  /\ UNCHANGED <<registryVars, listeners, reading>>

AddListener(c, l) ==
  /\ InNoCall(c) /\ listeners[l] = -1
  /\ listeners' = [listeners EXCEPT ![l] = timestamp]
  /\ UNCHANGED <<registryVars, heard, announcing, reading>>

RemoveListener(c, l) ==
  /\ InNoCall(c) /\ listeners[l] >= 0
  /\ listeners' = [listeners EXCEPT ![l] = -1]
  /\ UNCHANGED <<registryVars, heard, announcing, reading>>

-------------------------------------------------------------------------------
(* The first factory whose SimpleFactory::create answers for a descriptor.   *)
Positions(d) == {i \in DOMAIN factories : IdOf[factories[i]] = d}
Maker(d) == IF Positions(d) = {} THEN "none" ELSE factories[Min(Positions(d))]

(* getKey: the first descriptor on the way down that the cache has or a      *)
(* factory can make; it is cached for all those before it.                   *)
Get(c, d) ==
  /\ InNoCall(c) /\ factories # <<>>
  /\ \E hit \in DOMAIN Way(d) :
       LET fell  == {Way(d)[i] : i \in 1..(hit - 1)}
           found == serviceCache[Way(d)[hit]]
           a     == IF found = "none" THEN Way(d)[hit] ELSE found
       IN  /\ found # "none" \/ Maker(a) # "none"
           /\ \A i \in fell : serviceCache[i] = "none" /\ Maker(i) = "none"
           /\ serviceCache' = [i \in Id |-> IF i \in fell \cup {a} THEN a ELSE serviceCache[i]]
           /\ cacheEntry' = [cacheEntry EXCEPT ![a] =
                Ref(IF found = "none" THEN NewEntry(Maker(a)) ELSE cacheEntry[a], Cardinality(fell))]
  /\ UNCHANGED <<factories, idCache, dnCache, timestamp, listeners, heard, announcing, reading>>

(* updateVisibleIDs of one factory *)
UpdateVisibleIDs(ids, f) == [ids EXCEPT ![IdOf[f]] = IF f \in Visible THEN f ELSE "none"]

(* The loop of getVisibleIDMap: from the first factory to the latest. *)
Collected[n \in 0..Len(factories)] ==
  IF n = 0 THEN NoIds ELSE UpdateVisibleIDs(Collected[n - 1], factories[Len(factories) + 1 - n])
CollectVisible == Collected[Len(factories)]

VisibleIDMap == IF idCache = NoMap THEN CollectVisible ELSE idCache

GetVisibleIDs(c) ==
  /\ InNoCall(c)
  /\ idCache' = VisibleIDMap
  /\ UNCHANGED <<factories, serviceCache, cacheEntry, dnCache, timestamp, listeners, heard, announcing, reading>>

(* getDisplayNames, up to the end of the lock. *)
GetDisplayNames(c, l) ==
  /\ InNoCall(c)
  /\ IF dnCache.locale = l THEN UNCHANGED <<idCache, dnCache>>
     ELSE /\ idCache' = VisibleIDMap
          /\ dnCache' = [locale |-> l, ids |-> {i \in Id : VisibleIDMap[i] # "none"}]
  /\ reading' = [reading EXCEPT ![c] = l]
  /\ UNCHANGED <<factories, serviceCache, cacheEntry, timestamp, listeners, heard, announcing>>

(* The loop over dnCache, without the lock, has ended.  Its turns change     *)
(* nothing that others see.                                                  *)
NamesRead(c) ==
  /\ reading[c] # "none"
  /\ reading' = [reading EXCEPT ![c] = "none"]
  /\ UNCHANGED <<registryVars, listeners, heard, announcing>>

ServiceNext == \E c \in Client :
  \/ \E f \in Factory : RegisterFactory(c, f) \/ Unregister(c, f)
  \/ Reset(c) \/ TestListeners(c) \/ NotifyChanged(c)
  \/ \E l \in Listener : AddListener(c, l) \/ RemoveListener(c, l)
  \/ \E d \in Id : Get(c, d)
  \/ GetVisibleIDs(c) \/ \E l \in Locale : GetDisplayNames(c, l)
  \/ NamesRead(c)

ServiceSpec == ServiceInit /\ [][ServiceNext]_serviceVars

-------------------------------------------------------------------------------
(* "The cache has to stay in synch with the factory list" (getKey): what is  *)
(* cached for a descriptor is what asking the factories now would give.      *)
ServiceCacheInSync ==
  \A d \in Id : serviceCache[d] # "none" => \E i \in DOMAIN Way(d) :
    LET a == Way(d)[i]
    IN  /\ serviceCache[d] = a
        /\ Maker(a) # "none" /\ cacheEntry[a].by = Maker(a)
        /\ \A j \in 1..(i - 1) : Maker(Way(d)[j]) = "none"

(* A CacheEntry has one reference for each descriptor it is cached under, so *)
(* that it goes when the last of them goes, and not before.                  *)
EntryRefsExact ==
  \A a \in Id : cacheEntry[a].refs = Cardinality(CachedAs(a))

(* An id is visible if the latest factory for it is: an invisible factory    *)
(* hides an older visible one, and stops hiding it when it is unregistered.  *)
(* Display names share their ids with the map, so they never outlive it.     *)
VisibleInSync ==
  /\ idCache # NoMap =>
       \A i \in Id : idCache[i] = IF Maker(i) \in Visible THEN Maker(i) ELSE "none"
  /\ dnCache # NoNames => idCache # NoMap /\ dnCache.ids = {i \in Id : idCache[i] # "none"}

(* What a service has cached is what its factories would give now. *)
ServiceInv == ServiceCacheInSync /\ EntryRefsExact /\ VisibleInSync

(* When no notification is under way, every listener that was there before   *)
(* the last change has been told since, however changes, additions and       *)
(* notifications of several clients cross ("listeners # NULL" is tested      *)
(* before the lock is taken).                                                *)
NobodyMissed ==
  (\A c \in Client : announcing[c] = "no") =>
    \A l \in Listener : listeners[l] >= 0 => timestamp \in {listeners[l], heard[l]}

(* "Return a snapshot of the mapping from display names to visible IDs for   *)
(* this service.  This set will not change as factories are added or         *)
(* removed" (getDisplayNames): the names a client copies stay where they are *)
(* until it has copied them.                                                 *)
NamesStay == \A c \in Client : reading[c] # "none" => dnCache.locale = reading[c]
===============================================================================

------------------------- MODULE ServiceRegistryProofs -------------------------
(***************************************************************************)
(* What a service has cached agrees with its factories, and no listener is  *)
(* left untold.  For the caches, CachesInv: a descriptor is cached under    *)
(* the first on its way that a factory can make; to go on from a cached     *)
(* descriptor found on the way, as getKey does, the way of that descriptor  *)
(* has to be the rest of this one (FallbackAssumption), and to count right, *)
(* an entry has to be cached under its own descriptor too (OwnCached).  The *)
(* loop of getVisibleIDMap is a recursive function; what it computes is     *)
(* proved by the least number of turns for which it would not hold.         *)
(* NobodyMissed is inductive with the types.                                *)
(***************************************************************************)
EXTENDS ServiceRegistry, FiniteSetTheorems, WellFoundedInduction, TLAPS

-------------------------------------------------------------------------------
(* Numbers, and what the loop of getVisibleIDMap collects. *)

(* A set of natural numbers that has an element has a least one. *)
LEMMA Least ==
  ASSUME NEW S, S \subseteq Nat, S # {}
  PROVE  Min(S) \in S /\ \A m \in S : Min(S) <= m
  <1> DEFINE Below(n) == 0..(n - 1)
             T == {Below(n) : n \in S}
  <1>1. T \subseteq FiniteSubsetsOf(Nat)
     <2>1. ASSUME NEW n \in S PROVE Below(n) \in SUBSET Nat /\ IsFiniteSet(Below(n))
        BY FS_Interval
     <2> QED BY <2>1 DEF FiniteSubsetsOf
  <1>2. PICK x \in T : \A y \in T : ~(<<y, x>> \in StrictSubsetOrdering(Nat))
     <2>1. T # {}
        OBVIOUS
     <2> HIDE DEF T
     <2> QED BY <1>1, <2>1, FS_StrictSubsetOrderingWellFounded, WFMin
  <1>3. PICK n \in S : x = Below(n)
     OBVIOUS
  <1>4. ASSUME NEW m \in S, m < n PROVE FALSE
     <2>1. Below(m) \subseteq Below(n) /\ m \in Below(n) /\ m \notin Below(m)
        BY <1>4
     <2>2. Below(m) \in SUBSET Nat /\ Below(n) \in SUBSET Nat /\ Below(m) # Below(n)
        BY <2>1
     <2> HIDE DEF Below
     <2>3. <<Below(m), Below(n)>> \in StrictSubsetOrdering(Nat)
        BY <2>1, <2>2 DEF StrictSubsetOrdering
     <2> QED BY <1>2, <1>3, <2>3
  <1>5. \E k \in S : \A m \in S : k <= m
     BY <1>4
  <1> QED BY <1>5 DEF Min

(* A factory that answers for a descriptor is one of the registered ones,   *)
(* and none before it answers.                                              *)
LEMMA MakerFirst ==
  ASSUME NEW d \in Id, factories \in Seq(Factory)
  PROVE  \/ Positions(d) = {} /\ Maker(d) = "none"
         \/ \E p \in Positions(d) : /\ Maker(d) = factories[p] /\ factories[p] \in Factory
                                    /\ \A q \in Positions(d) : p <= q
  <1>1. CASE Positions(d) = {}
     BY <1>1 DEF Maker
  <1>2. CASE Positions(d) # {}
     <2>1. Positions(d) \subseteq DOMAIN factories /\ DOMAIN factories \subseteq Nat
        BY DEF Positions
     <2>2. Min(Positions(d)) \in Positions(d) /\ \A q \in Positions(d) : Min(Positions(d)) <= q
        BY <1>2, <2>1, Least
     <2>3. Maker(d) = factories[Min(Positions(d))]
        BY <1>2 DEF Maker
     <2>4. factories[Min(Positions(d))] \in Factory
        BY <2>1, <2>2
     <2> QED BY <2>2, <2>3, <2>4
  <1> QED BY <1>1, <1>2

LEMMA MakerType ==
  ASSUME NEW d \in Id, factories \in Seq(Factory)
  PROVE  Maker(d) \in Factory \cup {"none"}
  BY MakerFirst

(* One turn of the loop. *)
Turn(ids, n) == UpdateVisibleIDs(ids, factories[Len(factories) + 1 - n])
Turns(g, m)  == g = [n \in 0..m |-> IF n = 0 THEN NoIds ELSE Turn(g[n - 1], n)]

(* Any number of turns can be made: the least number that could not be made *)
(* is not 0, and the turns before it can be continued by one.               *)
LEMMA TurnsExist == factories \in Seq(Factory) => \E g : Turns(g, Len(factories))
  <1> SUFFICES ASSUME factories \in Seq(Factory), ~\E g : Turns(g, Len(factories))
               PROVE  FALSE
     OBVIOUS
  <1> DEFINE Bad == {m \in Nat : ~\E g : Turns(g, m)}
  <1>1. Len(factories) \in Bad
     OBVIOUS
  <1>2. PICK m \in Nat : m \in Bad /\ \A k \in Bad : m <= k
     BY <1>1, Least
  <1> HIDE DEF Bad
  <1>3. m # 0
     <2>1. Turns([n \in 0..0 |-> NoIds], 0)
        BY DEF Turns
     <2> QED BY <1>2, <2>1 DEF Bad
  <1>4. m - 1 \in Nat /\ m - 1 \notin Bad
     BY <1>2, <1>3
  <1>5. PICK g : Turns(g, m - 1)
     BY <1>4 DEF Bad
  <1> DEFINE h == [n \in 0..m |-> IF n = m THEN Turn(g[m - 1], m) ELSE g[n]]
  <1>6. ASSUME NEW n \in 0..m PROVE h[n] = IF n = 0 THEN NoIds ELSE Turn(h[n - 1], n)
     <2>1. CASE n = m
        <3>1. h[n] = Turn(g[m - 1], m) /\ h[n - 1] = g[m - 1]
           BY <1>3, <2>1
        <3> QED BY <1>3, <2>1, <3>1
     <2>2. CASE n # m
        <3>1. n \in 0..(m - 1) /\ h[n] = g[n]
           BY <2>2
        <3>2. g[n] = IF n = 0 THEN NoIds ELSE Turn(g[n - 1], n)
           BY <1>5, <3>1 DEF Turns
        <3>3. n # 0 => h[n - 1] = g[n - 1]
           BY <3>1
        <3> QED BY <3>1, <3>2, <3>3
     <2> QED BY <2>1, <2>2
  <1> DEFINE k == [n \in 0..m |-> IF n = 0 THEN NoIds ELSE Turn(h[n - 1], n)]
  <1>7. h = k
     <2>1. \A n \in 0..m : h[n] = k[n]
        BY <1>6
     <2>2. DOMAIN h = 0..m /\ DOMAIN k = 0..m /\ h = [n \in 0..m |-> h[n]] /\ k = [n \in 0..m |-> k[n]]
        OBVIOUS
     <2> HIDE DEF h, k
     <2> QED BY <2>1, <2>2
  <1>8. Turns(h, m)
     BY <1>7 DEF Turns
  <1> HIDE DEF h
  <1> QED BY <1>2, <1>8 DEF Bad

(* So that Collected is what its definition says. *)
LEMMA CollectedTurns == factories \in Seq(Factory) => Turns(Collected, Len(factories))
  <1> SUFFICES ASSUME factories \in Seq(Factory) PROVE Turns(Collected, Len(factories))
     OBVIOUS
  <1>1. \E g : Turns(g, Len(factories))
     BY TurnsExist
  <1>2. Collected = CHOOSE g : Turns(g, Len(factories))
     BY DEF Collected, Turns, Turn
  <1> QED BY <1>1, <1>2

(* After n turns every id has what the earliest of the last n factories     *)
(* that is about it says of it.                                             *)
Latest(n, i) == {p \in Positions(i) : p > Len(factories) - n}
Seen(ids, n) ==
  /\ ids \in [Id -> Visible \cup {"none"}]
  /\ \A i \in Id : \/ Latest(n, i) = {} /\ ids[i] = "none"
                   \/ \E p \in Latest(n, i) : /\ \A q \in Latest(n, i) : p <= q
                                            /\ ids[i] = IF factories[p] \in Visible THEN factories[p] ELSE "none"

LEMMA TurnSees ==
  ASSUME factories \in Seq(Factory), NEW n \in 1..Len(factories), NEW ids, Seen(ids, n - 1)
  PROVE  Seen(Turn(ids, n), n)
  <1> DEFINE at == Len(factories) + 1 - n
             f  == factories[at]
             new == IF f \in Visible THEN f ELSE "none"
  <1>1. at \in DOMAIN factories /\ at \in Nat /\ f \in Factory /\ IdOf[f] \in Id
     BY FactoryAssumption
  <1>2. Turn(ids, n) = [ids EXCEPT ![IdOf[f]] = new]
     BY DEF Turn, UpdateVisibleIDs
  <1>3. ids \in [Id -> Visible \cup {"none"}]
     BY DEF Seen
  <1>4. Turn(ids, n) \in [Id -> Visible \cup {"none"}]
     BY <1>1, <1>2, <1>3
  <1>5. ASSUME NEW i \in Id
        PROVE  \/ Latest(n, i) = {} /\ Turn(ids, n)[i] = "none"
               \/ \E p \in Latest(n, i) :
                    /\ \A q \in Latest(n, i) : p <= q
                    /\ Turn(ids, n)[i] = IF factories[p] \in Visible THEN factories[p] ELSE "none"
     <2>0. \A p \in Positions(i) : p \in Nat
        BY DEF Positions
     <2>1. CASE IdOf[f] = i
        <3>1. at \in Latest(n, i)
           BY <1>1, <2>1 DEF Latest, Positions
        <3>2. \A q \in Latest(n, i) : at <= q
           BY <2>0 DEF Latest
        <3>3. Turn(ids, n)[i] = new
           BY <1>2, <1>3, <2>1
        <3> QED BY <3>1, <3>2, <3>3
     <2>2. CASE IdOf[f] # i
        <3>1. at \notin Positions(i)
           BY <2>2 DEF Positions
        <3>2. Latest(n, i) = Latest(n - 1, i)
           <4>1. \A p \in Positions(i) : p > Len(factories) - n <=> p > Len(factories) - (n - 1)
              BY <2>0, <3>1
           <4> QED BY <4>1 DEF Latest
        <3>3. Turn(ids, n)[i] = ids[i]
           BY <1>2, <1>3, <2>2
        <3> HIDE DEF at, f, new
        <3> QED BY <3>2, <3>3 DEF Seen
     <2> QED BY <2>1, <2>2
  <1> QED BY <1>4, <1>5 DEF Seen

(* The map that getVisibleIDMap builds has, for every id, the latest        *)
(* factory if it is visible.                                                *)
LEMMA CollectVisibleRight ==
  ASSUME factories \in Seq(Factory)
  PROVE  /\ CollectVisible \in [Id -> Visible \cup {"none"}]
         /\ \A i \in Id : CollectVisible[i] = IF Maker(i) \in Visible THEN Maker(i) ELSE "none"
  <1>1. Turns(Collected, Len(factories)) /\ Len(factories) \in Nat
     BY CollectedTurns
  <1> DEFINE Bad == {n \in 0..Len(factories) : ~Seen(Collected[n], n)}
  <1>2. Seen(Collected[0], 0)
     <2>1. Collected[0] = NoIds
        BY <1>1 DEF Turns
     <2>2. \A i \in Id : Latest(0, i) = {}
        BY DEF Latest, Positions
     <2> QED BY <2>1, <2>2 DEF Seen, NoIds
  <1>3. Bad = {}
     <2> SUFFICES ASSUME Bad # {} PROVE FALSE
        OBVIOUS
     <2>0. Bad \subseteq Nat
        OBVIOUS
     <2>1. PICK n \in Bad : \A m \in Bad : n <= m
        <3> HIDE DEF Bad
        <3> QED BY <2>0, Least
     <2>2. n \in 1..Len(factories) /\ n - 1 \in 0..Len(factories)
        BY <1>2, <2>1
     <2>3. Seen(Collected[n - 1], n - 1)
        BY <2>1, <2>2
     <2>4. Collected[n] = Turn(Collected[n - 1], n)
        BY <1>1, <2>2 DEF Turns
     <2>5. Seen(Collected[n], n)
        BY <2>2, <2>3, <2>4, TurnSees
     <2> QED BY <2>1, <2>5
  <1>4. Seen(CollectVisible, Len(factories))
     BY <1>1, <1>3 DEF CollectVisible
  <1>5. ASSUME NEW i \in Id
        PROVE  CollectVisible[i] = IF Maker(i) \in Visible THEN Maker(i) ELSE "none"
     <2>1. Latest(Len(factories), i) = Positions(i)
        <3>1. \A p \in Positions(i) : p > Len(factories) - Len(factories)
           BY DEF Positions
        <3> QED BY <3>1 DEF Latest
     <2>2. \/ Positions(i) = {} /\ CollectVisible[i] = "none"
           \/ \E p \in Positions(i) :
                /\ \A q \in Positions(i) : p <= q
                /\ CollectVisible[i] = IF factories[p] \in Visible THEN factories[p] ELSE "none"
        BY <1>4, <2>1 DEF Seen
     <2>3. CASE Positions(i) = {}
        <3>1. Maker(i) = "none" /\ "none" \notin Visible
           BY <2>3, FactoryAssumption DEF Maker
        <3> QED BY <2>2, <2>3, <3>1
     <2>4. CASE Positions(i) # {}
        <3>1. PICK p \in Positions(i) :
                /\ \A q \in Positions(i) : p <= q
                /\ CollectVisible[i] = IF factories[p] \in Visible THEN factories[p] ELSE "none"
           BY <2>2, <2>4
        <3>2. PICK r \in Positions(i) : Maker(i) = factories[r] /\ \A q \in Positions(i) : r <= q
           BY <2>4, MakerFirst
        <3>3. p = r
           <4>1. p \in Nat /\ r \in Nat
              BY DEF Positions
           <4> QED BY <3>1, <3>2, <4>1
        <3> QED BY <3>1, <3>2, <3>3
     <2> QED BY <2>3, <2>4
  <1> QED BY <1>4, <1>5 DEF Seen

-------------------------------------------------------------------------------
(* The ways down. *)

(* A way has its descriptor first; what is left of it at a descriptor is    *)
(* that descriptor's own way.                                               *)
LEMMA WayFacts ==
  ASSUME NEW d \in Id
  PROVE  /\ Way(d) \in Seq(Id) /\ Len(Way(d)) >= 1 /\ Way(d)[1] = d
         /\ \A i \in DOMAIN Way(d) :
              /\ Way(d)[i] \in Id /\ Len(Way(Way(d)[i])) = Len(Way(d)) + 1 - i
              /\ \A j \in DOMAIN Way(Way(d)[i]) : Way(Way(d)[i])[j] = Way(d)[i + j - 1]
  <1>1. FallbackIds[d] \in Seq(Id)
     BY FallbackAssumption
  <1>2. Way(d) \in Seq(Id) /\ Len(Way(d)) >= 1 /\ Way(d)[1] = d
     BY <1>1 DEF Way
  <1>3. ASSUME NEW i \in DOMAIN Way(d)
        PROVE  /\ Way(d)[i] \in Id /\ Len(Way(Way(d)[i])) = Len(Way(d)) + 1 - i
               /\ \A j \in DOMAIN Way(Way(d)[i]) : Way(Way(d)[i])[j] = Way(d)[i + j - 1]
     <2>1. Way(Way(d)[i]) = SubSeq(Way(d), i, Len(Way(d)))
        BY FallbackAssumption
     <2>2. i \in 1..Len(Way(d))
        BY <1>2
     <2> QED BY <1>2, <2>1, <2>2
  <1> QED BY <1>2, <1>3

(* No descriptor comes twice. *)
LEMMA WayOnce ==
  ASSUME NEW d \in Id, NEW i \in DOMAIN Way(d), NEW j \in DOMAIN Way(d), Way(d)[i] = Way(d)[j]
  PROVE  i = j
  <1>1. Len(Way(d)) + 1 - i = Len(Way(d)) + 1 - j
     <2>1. \A k \in DOMAIN Way(d) : Len(Way(Way(d)[k])) = Len(Way(d)) + 1 - k
        BY WayFacts
     <2> QED BY <2>1
  <1>2. i \in Nat /\ j \in Nat /\ Len(Way(d)) \in Nat
     <2>1. Way(d) \in Seq(Id)
        BY WayFacts
     <2> QED BY <2>1
  <1> QED BY <1>1, <1>2

-------------------------------------------------------------------------------
(* The invariant. *)

ServiceTypes ==
  /\ factories \in Seq(Factory)
  /\ serviceCache \in [Id -> Id \cup {"none"}]
  /\ cacheEntry \in [Id -> [refs : Nat, by : Factory \cup {"none"}]]
  /\ timestamp \in Nat
  /\ listeners \in [Listener -> Nat \cup {-1}] /\ heard \in [Listener -> Nat]
  /\ announcing \in [Client -> {"no", "changed", "notify"}]

(* An entry is also cached under its own descriptor: it was put there first. *)
OwnCached == \A d \in Id : serviceCache[d] # "none" => serviceCache[serviceCache[d]] = serviceCache[d]

CachesInv == ServiceTypes /\ OwnCached /\ ServiceInv

LEMMA ServiceInitOK == ServiceInit => CachesInv /\ NobodyMissed
  <1> SUFFICES ASSUME ServiceInit PROVE CachesInv /\ NobodyMissed
     OBVIOUS
  <1> USE DEF ServiceInit, NoCacheEntry
  <1>1. ServiceTypes
     BY DEF ServiceTypes
  <1>2. OwnCached /\ ServiceCacheInSync /\ VisibleInSync
     BY DEF OwnCached, ServiceCacheInSync, VisibleInSync
  <1>3. \A a \in Id : CachedAs(a) = {}
     BY FactoryAssumption DEF CachedAs
  <1>4. EntryRefsExact
     BY <1>3, FS_EmptySet DEF EntryRefsExact
  <1>5. NobodyMissed
     BY DEF NobodyMissed
  <1> QED BY <1>1, <1>2, <1>4, <1>5 DEF CachesInv, ServiceInv

(* What the caches say of the factories depends on the factories only. *)
LEMMA SameMakers == ASSUME UNCHANGED factories, NEW d \in Id PROVE Maker(d)' = Maker(d)
  BY DEF Maker, Positions

(* The invariant looks at the caches and the factories. *)
LEMMA CachesSame ==
  ASSUME CachesInv, UNCHANGED <<factories, serviceCache, cacheEntry>>,
         ServiceTypes', VisibleInSync'
  PROVE  CachesInv'
  <1>1. OwnCached'
     BY DEF CachesInv, OwnCached
  <1>2. ServiceCacheInSync'
     <2>1. \A d \in Id : Maker(d)' = Maker(d)
        BY SameMakers
     <2>2. \A d \in Id : \A i \in DOMAIN Way(d) : Way(d)[i] \in Id
        BY WayFacts
     <2>3. \A d \in Id : DOMAIN Way(d) = 1..Len(Way(d)) /\ Len(Way(d)) \in Nat
        BY WayFacts
     <2>4. SUFFICES ASSUME NEW d \in Id, serviceCache'[d] # "none"
                    PROVE  \E i \in DOMAIN Way(d) :
                             /\ serviceCache'[d] = Way(d)[i]
                             /\ Maker(Way(d)[i])' # "none" /\ cacheEntry'[Way(d)[i]].by = Maker(Way(d)[i])'
                             /\ \A j \in 1..(i - 1) : Maker(Way(d)[j])' = "none"
        BY DEF ServiceCacheInSync
     <2>5. PICK i \in DOMAIN Way(d) :
             /\ serviceCache[d] = Way(d)[i]
             /\ Maker(Way(d)[i]) # "none" /\ cacheEntry[Way(d)[i]].by = Maker(Way(d)[i])
             /\ \A j \in 1..(i - 1) : Maker(Way(d)[j]) = "none"
        BY <2>4 DEF CachesInv, ServiceInv, ServiceCacheInSync
     <2>6. \A j \in 1..(i - 1) : j \in DOMAIN Way(d)
        BY <2>3, <2>5
     <2> QED BY <2>1, <2>2, <2>5, <2>6
  <1>3. EntryRefsExact'
     BY DEF CachesInv, ServiceInv, EntryRefsExact, CachedAs
  <1> QED BY <1>1, <1>2, <1>3 DEF CachesInv, ServiceInv

(* A step that leaves the registry and its notifier alone. *)
LEMMA RegistrySame ==
  ASSUME CachesInv, UNCHANGED <<registryVars, listeners, heard, announcing>>
  PROVE  CachesInv'
  <1>1. ServiceTypes'
     BY DEF registryVars, CachesInv, ServiceTypes
  <1>2. \A d \in Id : Maker(d)' = Maker(d)
     BY SameMakers DEF registryVars
  <1>3. VisibleInSync'
     BY <1>2 DEF registryVars, CachesInv, ServiceInv, VisibleInSync
  <1> QED BY <1>1, <1>3, CachesSame DEF registryVars

(* clearCaches gives back every reference, since they were counted exactly. *)
LEMMA ClearOK ==
  ASSUME CachesInv, ClearCaches, factories' \in Seq(Factory),
         listeners' = listeners, heard' = heard,
         announcing' \in [Client -> {"no", "changed", "notify"}]
  PROVE  CachesInv'
  <1>1. /\ serviceCache' = [d \in Id |-> "none"] /\ idCache' = NoMap /\ dnCache' = NoNames
        /\ timestamp' = timestamp + 1
        /\ cacheEntry' = [a \in Id |-> Unref(cacheEntry[a], Cardinality(CachedAs(a)))]
     BY DEF ClearCaches
  <1>2. cacheEntry' = [a \in Id |-> NoCacheEntry]
     <2>1. ASSUME NEW a \in Id PROVE Unref(cacheEntry[a], Cardinality(CachedAs(a))) = NoCacheEntry
        BY DEF CachesInv, ServiceInv, EntryRefsExact, Unref
     <2> QED BY <1>1, <2>1
  <1>3. ServiceTypes'
     <2>1. ServiceTypes
        BY DEF CachesInv
     <2> QED BY <1>1, <1>2, <2>1 DEF ServiceTypes, NoCacheEntry
  <1>4. OwnCached' /\ ServiceCacheInSync' /\ VisibleInSync'
     BY <1>1 DEF OwnCached, ServiceCacheInSync, VisibleInSync
  <1>5. EntryRefsExact'
     <2>1. \A a \in Id : CachedAs(a)' = {}
        BY <1>1, FactoryAssumption DEF CachedAs
     <2>2. ASSUME NEW a \in Id PROVE cacheEntry'[a].refs = 0
        BY <1>2 DEF NoCacheEntry
     <2> QED BY <2>1, <2>2, FS_EmptySet DEF EntryRefsExact
  <1> QED BY <1>3, <1>4, <1>5 DEF CachesInv, ServiceInv

LEMMA ChangeOK ==
  ASSUME CachesInv, NEW c \in Client, NEW fs \in Seq(Factory), ChangeFactories(c, fs)
  PROVE  CachesInv'
  <1>1. ServiceTypes
     BY DEF CachesInv
  <1>2. ClearCaches /\ factories' = fs /\ listeners' = listeners /\ heard' = heard
     BY DEF ChangeFactories
  <1>3. announcing' \in [Client -> {"no", "changed", "notify"}]
     BY <1>1 DEF ChangeFactories, ServiceTypes
  <1> QED BY <1>2, <1>3, ClearOK

LEMMA FactoriesOK ==
  ASSUME CachesInv, NEW c \in Client,
         (\E f \in Factory : RegisterFactory(c, f) \/ Unregister(c, f)) \/ Reset(c)
  PROVE  CachesInv'
  <1>1. factories \in Seq(Factory)
     BY DEF CachesInv, ServiceTypes
  <1>2. ASSUME NEW f \in Factory, RegisterFactory(c, f) PROVE CachesInv'
     <2>1. <<f>> \o factories \in Seq(Factory)
        BY <1>1
     <2> QED BY <1>2, <2>1, ChangeOK DEF RegisterFactory
  <1>3. ASSUME NEW f \in Factory, Unregister(c, f) PROVE CachesInv'
     <2>1. PICK i \in DOMAIN factories : ChangeFactories(c, RemoveAt(factories, i))
        BY <1>3 DEF Unregister
     <2>2. RemoveAt(factories, i) \in Seq(Factory)
        <3>1. i \in 1..Len(factories) /\ Len(factories) \in Nat
           BY <1>1
        <3>2. SubSeq(factories, 1, i - 1) \in Seq(Factory) /\ SubSeq(factories, i + 1, Len(factories)) \in Seq(Factory)
           BY <1>1, <3>1
        <3> QED BY <3>2 DEF RemoveAt
     <2> QED BY <2>1, <2>2, ChangeOK
  <1>4. CASE Reset(c)
     <2>1. <<>> \in Seq(Factory)
        OBVIOUS
     <2> QED BY <1>4, <2>1, ChangeOK DEF Reset
  <1> QED BY <1>2, <1>3, <1>4

(* The listeners and the announcements have no part in it. *)
LEMMA ListenersOK ==
  ASSUME CachesInv, NEW c \in Client,
         \/ TestListeners(c) \/ NotifyChanged(c)
         \/ \E l \in Listener : AddListener(c, l) \/ RemoveListener(c, l)
  PROVE  CachesInv'
  <1>0. ServiceTypes
     BY DEF CachesInv
  <1>1. UNCHANGED registryVars
     BY DEF TestListeners, NotifyChanged, AddListener, RemoveListener
  <1>2. ServiceTypes'
     <2> USE <1>0, <1>1 DEF registryVars
     <2>1. CASE TestListeners(c)
        BY <2>1 DEF TestListeners, ServiceTypes
     <2>2. CASE NotifyChanged(c)
        BY <2>2 DEF NotifyChanged, ServiceTypes
     <2>3. ASSUME NEW l \in Listener, AddListener(c, l) PROVE ServiceTypes'
        BY <2>3 DEF AddListener, ServiceTypes
     <2>4. ASSUME NEW l \in Listener, RemoveListener(c, l) PROVE ServiceTypes'
        BY <2>4 DEF RemoveListener, ServiceTypes
     <2> QED BY <2>1, <2>2, <2>3, <2>4
  <1>3. VisibleInSync'
     <2>1. \A d \in Id : Maker(d)' = Maker(d)
        BY <1>1, SameMakers DEF registryVars
     <2> QED BY <1>1, <2>1 DEF registryVars, CachesInv, ServiceInv, VisibleInSync
  <1> QED BY <1>1, <1>2, <1>3, CachesSame DEF registryVars

(* The map of visible ids is made from the factories as they are. *)
LEMMA VisibleOK ==
  ASSUME CachesInv, NEW c \in Client, GetVisibleIDs(c) \/ \E l \in Locale : GetDisplayNames(c, l)
  PROVE  CachesInv'
  <1>0. ServiceTypes /\ VisibleInSync
     BY DEF CachesInv, ServiceInv
  <1> CASE UNCHANGED <<registryVars, listeners, heard, announcing>>
     BY RegistrySame
  <1> SUFFICES ASSUME ~UNCHANGED <<registryVars, listeners, heard, announcing>> PROVE CachesInv'
     OBVIOUS
  <1>1. /\ idCache' = VisibleIDMap
        /\ UNCHANGED <<factories, serviceCache, cacheEntry, timestamp, listeners, heard, announcing>>
     BY DEF GetVisibleIDs, GetDisplayNames, registryVars
  <1>2. VisibleIDMap # NoMap
     <2>1. CollectVisible # NoMap
        <3>1. DOMAIN CollectVisible = Id
           BY <1>0, CollectVisibleRight DEF ServiceTypes
        <3>2. DOMAIN NoMap = {}
           BY DEF NoMap
        <3> QED BY <3>1, <3>2, IdAssumption
     <2> QED BY <2>1 DEF VisibleIDMap
  <1>3. \A i \in Id : VisibleIDMap[i] = IF Maker(i) \in Visible THEN Maker(i) ELSE "none"
     BY <1>0, CollectVisibleRight DEF ServiceTypes, VisibleIDMap, VisibleInSync
  <1>4. dnCache' # NoNames => dnCache'.ids = {i \in Id : VisibleIDMap[i] # "none"}
     <2>1. CASE GetVisibleIDs(c)
        BY <1>0, <2>1 DEF GetVisibleIDs, VisibleInSync, VisibleIDMap
     <2>2. ASSUME NEW l \in Locale, GetDisplayNames(c, l)
           PROVE  dnCache'.ids = {i \in Id : VisibleIDMap[i] # "none"}
        <3>1. ~UNCHANGED <<idCache, dnCache>>
           BY <1>1 DEF registryVars
        <3> QED BY <2>2, <3>1 DEF GetDisplayNames
     <2> QED BY <2>1, <2>2
  <1>5. VisibleInSync'
     <2>1. \A d \in Id : Maker(d)' = Maker(d)
        BY <1>1, SameMakers
     <2> QED BY <1>1, <1>2, <1>3, <1>4, <2>1 DEF VisibleInSync
  <1>6. ServiceTypes'
     BY <1>0, <1>1 DEF ServiceTypes
  <1> QED BY <1>1, <1>5, <1>6, CachesSame

-------------------------------------------------------------------------------
(* getKey. *)

(* Where the way down from d first comes to something that can be made. *)
FirstMade(d, k) == /\ k \in DOMAIN Way(d) /\ Maker(Way(d)[k]) # "none"
                   /\ \A j \in 1..(k - 1) : Maker(Way(d)[j]) = "none"

(* What a lookup that stops at hit finds: the actual descriptor a, which is *)
(* the first that can be made from there, and those before it on the way.   *)
Lookup(d, hit, fell, found, a) ==
  /\ hit \in DOMAIN Way(d)
  /\ fell = {Way(d)[i] : i \in 1..(hit - 1)}
  /\ found = serviceCache[Way(d)[hit]]
  /\ a = IF found = "none" THEN Way(d)[hit] ELSE found
  /\ found # "none" \/ Maker(a) # "none"
  /\ \A i \in fell : serviceCache[i] = "none" /\ Maker(i) = "none"

LEMMA LookupFacts ==
  ASSUME CachesInv, NEW d \in Id, NEW hit, NEW fell, NEW found, NEW a, Lookup(d, hit, fell, found, a)
  PROVE  /\ a \in Id /\ Maker(a) \in Factory /\ a \notin fell
         /\ fell \in SUBSET Id /\ IsFiniteSet(fell) /\ Cardinality(fell) \in Nat
         /\ \E k \in DOMAIN Way(Way(d)[hit]) : FirstMade(Way(d)[hit], k) /\ Way(Way(d)[hit])[k] = a
  <1> USE DEF Lookup
  <1>0. /\ ServiceTypes /\ OwnCached /\ ServiceCacheInSync
        /\ Way(d) \in Seq(Id) /\ Len(Way(d)) \in Nat /\ hit \in 1..Len(Way(d))
     <2>1. Way(d) \in Seq(Id)
        BY WayFacts
     <2>2. Len(Way(d)) \in Nat /\ DOMAIN Way(d) = 1..Len(Way(d))
        BY <2>1
     <2> QED BY <2>1, <2>2 DEF CachesInv, ServiceInv
  <1>1. Way(d)[hit] \in Id /\ a \in Id
     BY <1>0 DEF ServiceTypes
  <1>2. fell \in SUBSET Id
     <2>1. \A i \in 1..(hit - 1) : i \in 1..Len(Way(d))
        BY <1>0
     <2>2. \A i \in 1..Len(Way(d)) : Way(d)[i] \in Id
        BY <1>0
     <2> QED BY <2>1, <2>2
  <1>3. IsFiniteSet(fell) /\ Cardinality(fell) \in Nat
     BY <1>2, IdAssumption, FS_Subset, FS_CardinalityType
  <1>4. CASE found = "none"
     <2>1. a = Way(d)[hit] /\ Maker(a) # "none" /\ Maker(a) \in Factory
        BY <1>0, <1>1, <1>4, MakerType DEF ServiceTypes
     <2>2. a \notin fell
        BY <2>1
     <2>3. FirstMade(a, 1) /\ Way(a)[1] = a /\ 1 \in DOMAIN Way(a)
        <3>1. Way(a) \in Seq(Id) /\ Len(Way(a)) >= 1 /\ Way(a)[1] = a
           BY <1>1, WayFacts
        <3>2. 1 \in DOMAIN Way(a)
           BY <3>1
        <3> QED BY <2>1, <3>1, <3>2 DEF FirstMade
     <2> QED BY <1>1, <1>2, <1>3, <2>1, <2>2, <2>3
  <1>5. CASE found # "none"
     <2>1. a = found /\ a = serviceCache[Way(d)[hit]] /\ serviceCache[a] = a
        BY <1>0, <1>1, <1>5 DEF OwnCached
     <2>2. a \notin fell
        BY <1>1, <2>1, FactoryAssumption
     <2>3. PICK k \in DOMAIN Way(Way(d)[hit]) : FirstMade(Way(d)[hit], k) /\ Way(Way(d)[hit])[k] = a
        BY <1>0, <1>1, <1>5, <2>1 DEF ServiceCacheInSync, FirstMade
     <2>4. Maker(a) \in Factory
        BY <1>0, <1>1, <2>3, MakerType DEF FirstMade, ServiceTypes
     <2> QED BY <1>1, <1>2, <1>3, <2>2, <2>3, <2>4
  <1> QED BY <1>4, <1>5

(* From every descriptor that the lookup passed, the first that can be made *)
(* is the one that it found.                                                *)
LEMMA LookupRight ==
  ASSUME CachesInv, NEW d \in Id, NEW hit, NEW fell, NEW found, NEW a, Lookup(d, hit, fell, found, a),
         NEW x \in fell
  PROVE  \E k \in DOMAIN Way(x) : FirstMade(x, k) /\ Way(x)[k] = a
  <1> DEFINE w == Way(d)
             v == Way(Way(d)[hit])
  <1>1. /\ w \in Seq(Id) /\ Len(w) \in Nat /\ hit \in 1..Len(w)
        /\ \A i \in 1..(hit - 1) : w[i] \in fell
     <2>1. w \in Seq(Id)
        BY WayFacts
     <2>2. Len(w) \in Nat /\ DOMAIN w = 1..Len(w)
        BY <2>1
     <2>3. hit \in DOMAIN w /\ fell = {w[i] : i \in 1..(hit - 1)}
        BY DEF Lookup
     <2> QED BY <2>1, <2>2, <2>3
  <1>2. PICK i \in 1..(hit - 1) : x = w[i]
     BY DEF Lookup
  <1>3. i \in DOMAIN w /\ hit \in DOMAIN w
     BY <1>1, <1>2
  <1>4. PICK k \in DOMAIN v : FirstMade(Way(d)[hit], k) /\ v[k] = a
     BY LookupFacts
  <1>5. x \in Id /\ Way(d)[hit] \in Id
     BY <1>1, <1>2, <1>3
  <1>6. /\ Way(x) \in Seq(Id) /\ v \in Seq(Id)
        /\ Len(Way(x)) = Len(w) + 1 - i /\ Len(v) = Len(w) + 1 - hit
     BY <1>2, <1>3, <1>5, WayFacts
  <1>7. /\ \A j \in DOMAIN Way(x) : Way(x)[j] = w[i + j - 1]
        /\ \A j \in DOMAIN v : v[j] = w[hit + j - 1]
     BY <1>2, <1>3, WayFacts
  <1> DEFINE n == hit - i + k
  <1> HIDE DEF w, v
  <1>8. k \in 1..Len(v) /\ n \in 1..Len(Way(x)) /\ n \in DOMAIN Way(x)
     BY <1>1, <1>2, <1>4, <1>6
  <1>9. Way(x)[n] = a
     <2>1. Way(x)[n] = w[i + n - 1] /\ v[k] = w[hit + k - 1]
        BY <1>4, <1>7, <1>8
     <2>2. i + n - 1 = hit + k - 1
        BY <1>1, <1>2, <1>8
     <2> QED BY <1>4, <2>1, <2>2
  <1>10. ASSUME NEW j \in 1..(n - 1) PROVE Maker(Way(x)[j]) = "none"
     <2>1. j \in DOMAIN Way(x) /\ Way(x)[j] = w[i + j - 1]
        <3>1. j \in 1..Len(Way(x))
           BY <1>6, <1>8
        <3>2. DOMAIN Way(x) = 1..Len(Way(x))
           BY <1>6
        <3> QED BY <1>7, <3>1, <3>2
     <2>2. CASE i + j - 1 < hit
        <3>1. i + j - 1 \in 1..(hit - 1)
           BY <1>1, <1>2, <1>8, <2>2
        <3>2. w[i + j - 1] \in fell
           BY <1>1, <3>1
        <3> QED BY <2>1, <3>2 DEF Lookup
     <2>3. CASE i + j - 1 >= hit
        <3>1. i + j - hit \in 1..(k - 1) /\ i + j - hit \in 1..Len(v)
           BY <1>1, <1>2, <1>8, <2>3
        <3>2. v[i + j - hit] = w[i + j - 1]
           <4>1. i + j - hit \in DOMAIN v /\ hit + (i + j - hit) - 1 = i + j - 1
              BY <1>1, <1>2, <1>6, <3>1
           <4> QED BY <1>7, <4>1
        <3>3. Maker(v[i + j - hit]) = "none"
           BY <1>4, <3>1 DEF FirstMade, v
        <3> QED BY <2>1, <3>2, <3>3
     <2>4. i + j - 1 \in Int /\ hit \in Int
        BY <1>1, <1>2, <1>8
     <2> QED BY <2>2, <2>3, <2>4
  <1>11. Maker(a) # "none"
     BY LookupFacts, FactoryAssumption
  <1> QED BY <1>8, <1>9, <1>10, <1>11 DEF FirstMade

(* What is cached under the actual descriptor after a lookup. *)
LEMMA LookupCounts ==
  ASSUME CachesInv, NEW d \in Id, NEW hit, NEW fell, NEW found, NEW a, Lookup(d, hit, fell, found, a),
         serviceCache' = [i \in Id |-> IF i \in fell \cup {a} THEN a ELSE serviceCache[i]]
  PROVE  /\ \A b \in Id : b # a => CachedAs(b)' = CachedAs(b)
         /\ found = "none" => CachedAs(a) = {} /\ Cardinality(CachedAs(a)') = 1 + Cardinality(fell)
         /\ found # "none" => Cardinality(CachedAs(a)') = Cardinality(CachedAs(a)) + Cardinality(fell)
  <1>0. ServiceTypes /\ OwnCached
     BY DEF CachesInv
  <1>1. /\ a \in Id /\ a \notin fell /\ fell \in SUBSET Id /\ IsFiniteSet(fell)
        /\ Cardinality(fell) \in Nat /\ a # "none"
     BY LookupFacts, FactoryAssumption
  <1>2. \A x \in fell : serviceCache[x] = "none"
     BY DEF Lookup
  <1>3. found = "none" => serviceCache[a] = "none"
     BY DEF Lookup
  <1>4. found # "none" => serviceCache[a] = a
     <2>1. Way(d)[hit] \in Id
        BY WayFacts DEF Lookup
     <2> QED BY <1>0, <2>1 DEF Lookup, OwnCached
  <1>5. IsFiniteSet(CachedAs(a)) /\ Cardinality(CachedAs(a)) \in Nat
     <2>1. CachedAs(a) \in SUBSET Id
        BY DEF CachedAs
     <2> QED BY <2>1, IdAssumption, FS_Subset, FS_CardinalityType
  <1>6. ASSUME NEW b \in Id, b # a PROVE CachedAs(b)' = CachedAs(b)
     <2>1. b # "none"
        BY FactoryAssumption
     <2>2. ASSUME NEW x \in Id PROVE serviceCache'[x] = b <=> serviceCache[x] = b
        BY <1>1, <1>2, <1>3, <1>4, <1>6, <2>1
     <2> QED BY <2>2 DEF CachedAs
  <1>7. CachedAs(a)' = CachedAs(a) \cup (fell \cup {a})
     <2>1. ASSUME NEW x \in Id PROVE serviceCache'[x] = a <=> serviceCache[x] = a \/ x \in fell \cup {a}
        OBVIOUS
     <2> QED BY <1>1, <2>1 DEF CachedAs
  <1>8. CASE found = "none"
     <2>1. CachedAs(a) = {}
        BY <1>0, <1>1, <1>3, <1>8 DEF CachedAs, OwnCached
     <2>2. CachedAs(a)' = fell \cup {a}
        BY <1>7, <2>1
     <2>3. Cardinality(fell \cup {a}) = Cardinality(fell) + 1
        BY <1>1, FS_AddElement
     <2> QED BY <1>1, <1>6, <1>8, <2>1, <2>2, <2>3
  <1>9. CASE found # "none"
     <2>1. CachedAs(a)' = CachedAs(a) \cup fell
        BY <1>1, <1>4, <1>7, <1>9 DEF CachedAs
     <2>2. CachedAs(a) \cap fell = {}
        BY <1>1, <1>2 DEF CachedAs
     <2>3. Cardinality(CachedAs(a) \cup fell) = Cardinality(CachedAs(a)) + Cardinality(fell)
        <3>1. Cardinality(CachedAs(a) \cup fell)
                = Cardinality(CachedAs(a)) + Cardinality(fell) - Cardinality(CachedAs(a) \cap fell)
           BY <1>1, <1>5, FS_Union
        <3>2. Cardinality(CachedAs(a) \cap fell) = 0
           BY <2>2, FS_EmptySet
        <3> QED BY <1>1, <1>5, <3>1, <3>2
     <2> QED BY <1>6, <1>9, <2>1, <2>3
  <1> QED BY <1>8, <1>9

LEMMA GetOK ==
  ASSUME CachesInv, NEW c \in Client, NEW d \in Id, Get(c, d)
  PROVE  CachesInv'
  <1>0. /\ ServiceTypes /\ OwnCached /\ ServiceCacheInSync /\ EntryRefsExact /\ VisibleInSync
        /\ UNCHANGED <<factories, idCache, dnCache, timestamp, listeners, heard, announcing>>
     BY DEF CachesInv, ServiceInv, Get
  <1>1. PICK hit, fell, found, a :
          /\ Lookup(d, hit, fell, found, a)
          /\ serviceCache' = [i \in Id |-> IF i \in fell \cup {a} THEN a ELSE serviceCache[i]]
          /\ cacheEntry' = [cacheEntry EXCEPT ![a] =
               Ref(IF found = "none" THEN NewEntry(Maker(a)) ELSE cacheEntry[a], Cardinality(fell))]
     <2>1. PICK hit \in DOMAIN Way(d) :
             LET fell  == {Way(d)[i] : i \in 1..(hit - 1)}
                 found == serviceCache[Way(d)[hit]]
                 a     == IF found = "none" THEN Way(d)[hit] ELSE found
             IN  /\ found # "none" \/ Maker(a) # "none"
                 /\ \A i \in fell : serviceCache[i] = "none" /\ Maker(i) = "none"
                 /\ serviceCache' = [i \in Id |-> IF i \in fell \cup {a} THEN a ELSE serviceCache[i]]
                 /\ cacheEntry' = [cacheEntry EXCEPT ![a] =
                      Ref(IF found = "none" THEN NewEntry(Maker(a)) ELSE cacheEntry[a], Cardinality(fell))]
        BY DEF Get
     <2> DEFINE fell  == {Way(d)[i] : i \in 1..(hit - 1)}
                found == serviceCache[Way(d)[hit]]
                a     == IF found = "none" THEN Way(d)[hit] ELSE found
     <2>2. Lookup(d, hit, fell, found, a)
        BY <2>1 DEF Lookup
     <2>3. /\ serviceCache' = [i \in Id |-> IF i \in fell \cup {a} THEN a ELSE serviceCache[i]]
           /\ cacheEntry' = [cacheEntry EXCEPT ![a] =
                Ref(IF found = "none" THEN NewEntry(Maker(a)) ELSE cacheEntry[a], Cardinality(fell))]
        BY <2>1
     <2> HIDE DEF fell, found, a
     <2> QED BY <2>2, <2>3
  <1>2. /\ a \in Id /\ Maker(a) \in Factory /\ a \notin fell /\ a # "none" /\ Maker(a) # "none"
        /\ fell \in SUBSET Id /\ Cardinality(fell) \in Nat
     BY <1>1, LookupFacts, FactoryAssumption
  <1> DEFINE old == IF found = "none" THEN NewEntry(Maker(a)) ELSE cacheEntry[a]
  <1>3. cacheEntry[a] \in [refs : Nat, by : Factory \cup {"none"}]
     BY <1>0, <1>2 DEF ServiceTypes
  <1>4. old \in [refs : Nat, by : Factory \cup {"none"}]
     BY <1>2, <1>3 DEF NewEntry
  <1>5. /\ \A b \in Id : b # a => cacheEntry'[b] = cacheEntry[b]
        /\ cacheEntry'[a].refs = old.refs + Cardinality(fell) /\ cacheEntry'[a].by = old.by
        /\ cacheEntry' \in [Id -> [refs : Nat, by : Factory \cup {"none"}]]
     <2>1. Ref(old, Cardinality(fell)) \in [refs : Nat, by : Factory \cup {"none"}]
        BY <1>2, <1>4 DEF Ref
     <2>2. /\ Ref(old, Cardinality(fell)).refs = old.refs + Cardinality(fell)
           /\ Ref(old, Cardinality(fell)).by = old.by
        BY DEF Ref
     <2>3. cacheEntry' = [cacheEntry EXCEPT ![a] = Ref(old, Cardinality(fell))]
        BY <1>1
     <2>4. cacheEntry \in [Id -> [refs : Nat, by : Factory \cup {"none"}]]
        BY <1>0 DEF ServiceTypes
     <2> HIDE DEF old
     <2>5. cacheEntry'[a] = Ref(old, Cardinality(fell))
        BY <1>2, <2>3, <2>4
     <2> QED BY <2>1, <2>2, <2>3, <2>4, <2>5
  <1>6. ServiceTypes'
     <2>1. serviceCache' \in [Id -> Id \cup {"none"}]
        BY <1>0, <1>1, <1>2 DEF ServiceTypes
     <2> QED BY <1>0, <1>5, <2>1 DEF ServiceTypes
  <1>7. found # "none" => serviceCache[a] = a
     <2>1. Way(d)[hit] \in Id
        BY <1>1, WayFacts DEF Lookup
     <2> QED BY <1>0, <1>1, <2>1 DEF Lookup, OwnCached
  <1>8. \A x \in Id : serviceCache[x] # "none" => serviceCache'[x] = serviceCache[x]
     <2>1. \A x \in fell : serviceCache[x] = "none"
        BY <1>1 DEF Lookup
     <2>2. found = "none" => serviceCache[a] = "none"
        BY <1>1 DEF Lookup
     <2> QED BY <1>1, <1>2, <1>7, <2>1, <2>2
  <1>9. \A x \in Id : serviceCache'[x] = serviceCache[x] \/ (serviceCache'[x] = a /\ x \in fell \cup {a})
     <2>1. ASSUME NEW x \in Id
           PROVE  serviceCache'[x] = IF x \in fell \cup {a} THEN a ELSE serviceCache[x]
        BY <1>1
     <2> QED BY <2>1
  <1>10. OwnCached'
     <2>1. serviceCache'[a] = a
        BY <1>1, <1>2
     <2>2. ASSUME NEW x \in Id, serviceCache'[x] # "none" PROVE serviceCache'[serviceCache'[x]] = serviceCache'[x]
        <3>1. CASE serviceCache'[x] = a
           BY <2>1, <3>1
        <3>2. CASE serviceCache'[x] = serviceCache[x]
           <4>1. serviceCache[x] \in Id /\ serviceCache[serviceCache[x]] = serviceCache[x]
              BY <1>0, <2>2, <3>2 DEF ServiceTypes, OwnCached
           <4> QED BY <1>8, <2>2, <3>2, <4>1
        <3> QED BY <1>9, <3>1, <3>2
     <2> QED BY <2>2 DEF OwnCached
  <1>11. EntryRefsExact'
     <2>1. /\ \A b \in Id : b # a => CachedAs(b)' = CachedAs(b)
           /\ found = "none" => CachedAs(a) = {} /\ Cardinality(CachedAs(a)') = 1 + Cardinality(fell)
           /\ found # "none" => Cardinality(CachedAs(a)') = Cardinality(CachedAs(a)) + Cardinality(fell)
        BY <1>1, LookupCounts
     <2>2. ASSUME NEW b \in Id PROVE cacheEntry'[b].refs = Cardinality(CachedAs(b)')
        <3>1. CASE b # a
           BY <1>0, <1>5, <2>1, <3>1 DEF EntryRefsExact
        <3>2. CASE b = a /\ found = "none"
           BY <1>2, <1>5, <2>1, <3>2 DEF NewEntry
        <3>3. CASE b = a /\ found # "none"
           BY <1>0, <1>2, <1>5, <2>1, <3>3 DEF EntryRefsExact
        <3> QED BY <3>1, <3>2, <3>3
     <2> QED BY <2>2 DEF EntryRefsExact
  <1>12. \A b \in Id : Maker(b)' = Maker(b)
     BY <1>0, SameMakers
  <1>13. ASSUME NEW x \in Id, serviceCache'[x] # "none"
         PROVE  \E k \in DOMAIN Way(x) :
                  /\ FirstMade(x, k) /\ Way(x)[k] = serviceCache'[x]
                  /\ cacheEntry'[serviceCache'[x]].by = Maker(serviceCache'[x])
     <2>1. cacheEntry'[a].by = Maker(a)
        <3>1. CASE found = "none"
           BY <1>5, <3>1 DEF NewEntry
        <3>2. CASE found # "none"
           <4>1. cacheEntry[a].by = Maker(a)
              BY <1>0, <1>2, <1>7, <3>2 DEF ServiceCacheInSync
           <4> QED BY <1>5, <3>2, <4>1
        <3> QED BY <3>1, <3>2
     <2>2. CASE serviceCache'[x] = a /\ x \in fell
        <3>1. \E k \in DOMAIN Way(x) : FirstMade(x, k) /\ Way(x)[k] = a
           BY <1>1, <2>2, LookupRight
        <3> QED BY <2>1, <2>2, <3>1
     <2>3. CASE serviceCache'[x] = a /\ x = a
        <3>1. CASE found = "none"
           <4>1. a = Way(d)[hit]
              BY <1>1, <3>1 DEF Lookup
           <4>2. \E k \in DOMAIN Way(a) : FirstMade(a, k) /\ Way(a)[k] = a
              BY <1>1, <4>1, LookupFacts
           <4> QED BY <2>1, <2>3, <4>2
        <3>2. CASE found # "none"
           BY <1>0, <1>2, <1>7, <2>1, <2>3, <3>2 DEF ServiceCacheInSync, FirstMade
        <3> QED BY <3>1, <3>2
     <2>4. CASE serviceCache'[x] = serviceCache[x]
        <3>1. PICK k \in DOMAIN Way(x) : /\ FirstMade(x, k) /\ Way(x)[k] = serviceCache[x]
                                         /\ cacheEntry[serviceCache[x]].by = Maker(serviceCache[x])
           BY <1>0, <1>13, <2>4 DEF ServiceCacheInSync, FirstMade
        <3>2. serviceCache[x] \in Id
           BY <1>0, <1>13, <2>4 DEF ServiceTypes
        <3>3. cacheEntry'[serviceCache[x]].by = Maker(serviceCache[x])
           BY <1>5, <2>1, <3>1, <3>2
        <3> QED BY <2>4, <3>1, <3>3
     <2> QED BY <1>9, <2>2, <2>3, <2>4
  <1>14. ServiceCacheInSync'
     <2>1. ASSUME NEW x \in Id, serviceCache'[x] # "none"
           PROVE  \E i \in DOMAIN Way(x) :
                    /\ serviceCache'[x] = Way(x)[i]
                    /\ Maker(Way(x)[i])' # "none" /\ cacheEntry'[Way(x)[i]].by = Maker(Way(x)[i])'
                    /\ \A j \in 1..(i - 1) : Maker(Way(x)[j])' = "none"
        <3>1. PICK k \in DOMAIN Way(x) : /\ FirstMade(x, k) /\ Way(x)[k] = serviceCache'[x]
                                         /\ cacheEntry'[serviceCache'[x]].by = Maker(serviceCache'[x])
           BY <1>13, <2>1
        <3>2. Way(x) \in Seq(Id) /\ \A j \in DOMAIN Way(x) : Way(x)[j] \in Id
           BY WayFacts
        <3>3. \A j \in 1..(k - 1) : j \in DOMAIN Way(x)
           BY <3>2
        <3> QED BY <1>12, <3>1, <3>2, <3>3 DEF FirstMade
     <2> QED BY <2>1 DEF ServiceCacheInSync
  <1>15. VisibleInSync'
     BY <1>0, <1>12 DEF VisibleInSync
  <1> QED BY <1>6, <1>10, <1>11, <1>14, <1>15 DEF CachesInv, ServiceInv

LEMMA CachesInductive == CachesInv /\ [ServiceNext]_serviceVars => CachesInv'
  <1> SUFFICES ASSUME CachesInv, [ServiceNext]_serviceVars PROVE CachesInv'
     OBVIOUS
  <1>1. ASSUME NEW c \in Client,
               (\E f \in Factory : RegisterFactory(c, f) \/ Unregister(c, f)) \/ Reset(c)
        PROVE  CachesInv'
     BY <1>1, FactoriesOK
  <1>2. ASSUME NEW c \in Client,
               \/ TestListeners(c) \/ NotifyChanged(c)
               \/ \E l \in Listener : AddListener(c, l) \/ RemoveListener(c, l)
        PROVE  CachesInv'
     BY <1>2, ListenersOK
  <1>3. ASSUME NEW c \in Client, NEW d \in Id, Get(c, d) PROVE CachesInv'
     BY <1>3, GetOK
  <1>4. ASSUME NEW c \in Client, GetVisibleIDs(c) \/ \E l \in Locale : GetDisplayNames(c, l)
        PROVE  CachesInv'
     BY <1>4, VisibleOK
  <1>6. ASSUME NEW c \in Client, NamesRead(c) PROVE CachesInv'
     <2>1. UNCHANGED <<registryVars, listeners, heard, announcing>>
        BY <1>6 DEF NamesRead
     <2> QED BY <2>1, RegistrySame
  <1>5. CASE UNCHANGED serviceVars
     BY <1>5, RegistrySame DEF serviceVars
  <1> QED BY <1>1, <1>2, <1>3, <1>4, <1>5, <1>6 DEF ServiceNext

(* Lookups, visible ids and display names that a service has cached are     *)
(* what the factories registered now would give ("the cache has to stay in  *)
(* synch with the factory list"), and a CacheEntry goes with the last       *)
(* descriptor it is cached under: for any factories, ids without repeated   *)
(* fallbacks, and number of clients.                                        *)
THEOREM ServiceInvAlways == ServiceSpec => []ServiceInv
  <1>1. ServiceInit => CachesInv
     BY ServiceInitOK
  <1>2. CachesInv /\ [ServiceNext]_serviceVars => CachesInv'
     BY CachesInductive
  <1>3. CachesInv => ServiceInv
     BY DEF CachesInv
  <1> QED BY <1>1, <1>2, <1>3, PTL DEF ServiceSpec

-------------------------------------------------------------------------------
(* Listeners. *)

(* A step of the notifier leaves nobody untold behind: a change is always   *)
(* followed by a client that has yet to announce it, and the one that ends  *)
(* its announcement has told everybody or found nobody to tell.             *)
LEMMA NobodyMissedInductive ==
  ServiceTypes /\ NobodyMissed /\ [ServiceNext]_serviceVars => NobodyMissed'
  <1> SUFFICES ASSUME ServiceTypes, NobodyMissed, [ServiceNext]_serviceVars,
                      \A c \in Client : announcing'[c] = "no",
                      NEW l \in Listener, listeners'[l] >= 0
               PROVE  timestamp' \in {listeners'[l], heard'[l]}
     BY DEF NobodyMissed
  <1>1. ASSUME NEW c \in Client, NEW fs, ChangeFactories(c, fs) PROVE FALSE
     <2>1. announcing'[c] = "changed"
        BY <1>1 DEF ChangeFactories, ServiceTypes
     <2> QED BY <2>1
  <1>2. ASSUME NEW c \in Client, TestListeners(c) PROVE FALSE
     <2>1. listeners[l] >= 0
        BY <1>2 DEF TestListeners
     <2>2. announcing'[c] = "notify"
        BY <1>2, <2>1 DEF TestListeners, ServiceTypes
     <2> QED BY <2>2
  <1>3. ASSUME NEW c \in Client, NotifyChanged(c) PROVE timestamp' = heard'[l]
     <2>1. heard' = [k \in Listener |-> IF listeners[k] >= 0 THEN timestamp ELSE heard[k]]
           /\ timestamp' = timestamp /\ listeners' = listeners
        BY <1>3 DEF NotifyChanged, registryVars
     <2> QED BY <2>1
  <1>4. ASSUME NEW c \in Client, NEW k \in Listener, AddListener(c, k)
        PROVE  timestamp' \in {listeners'[l], heard'[l]}
     <2>1. /\ announcing' = announcing /\ heard' = heard /\ timestamp' = timestamp
           /\ listeners' = [listeners EXCEPT ![k] = timestamp]
        BY <1>4 DEF AddListener, registryVars
     <2>2. CASE k = l
        BY <2>1, <2>2 DEF ServiceTypes
     <2>3. CASE k # l
        <3>1. listeners'[l] = listeners[l]
           BY <2>1, <2>3 DEF ServiceTypes
        <3> QED BY <2>1, <3>1 DEF NobodyMissed
     <2> QED BY <2>2, <2>3
  <1>5. ASSUME NEW c \in Client, NEW k \in Listener, RemoveListener(c, k)
        PROVE  timestamp' \in {listeners'[l], heard'[l]}
     <2>1. /\ announcing' = announcing /\ heard' = heard /\ timestamp' = timestamp
           /\ listeners' = [listeners EXCEPT ![k] = -1]
        BY <1>5 DEF RemoveListener, registryVars
     <2>2. k # l /\ listeners'[l] = listeners[l]
        BY <2>1 DEF ServiceTypes
     <2> QED BY <2>1, <2>2 DEF NobodyMissed
  <1>6. ASSUME UNCHANGED <<timestamp, listeners, heard, announcing>>
        PROVE  timestamp' \in {listeners'[l], heard'[l]}
     BY <1>6 DEF NobodyMissed
  <1>7. ASSUME NEW c \in Client, (\E f \in Factory : RegisterFactory(c, f) \/ Unregister(c, f)) \/ Reset(c)
        PROVE  FALSE
     BY <1>1, <1>7 DEF RegisterFactory, Unregister, Reset
  <1>8. ASSUME NEW c \in Client, (\E d \in Id : Get(c, d)) \/ GetVisibleIDs(c) \/ \E k \in Locale : GetDisplayNames(c, k)
        PROVE  timestamp' \in {listeners'[l], heard'[l]}
     BY <1>6, <1>8 DEF Get, GetVisibleIDs, GetDisplayNames
  <1>10. ASSUME NEW c \in Client, NamesRead(c) PROVE timestamp' \in {listeners'[l], heard'[l]}
     BY <1>6, <1>10 DEF NamesRead, registryVars
  <1>9. CASE UNCHANGED serviceVars
     BY <1>6, <1>9 DEF serviceVars, registryVars
  <1> QED BY <1>2, <1>3, <1>4, <1>5, <1>7, <1>8, <1>9, <1>10 DEF ServiceNext

(* However the changes, notifications, additions and removals of any number *)
(* of clients cross, no listener that was there before the last change is   *)
(* left untold when all notifications are over, although notifyChanged      *)
(* tests "listeners != NULL" before it takes notifyLock.                    *)
THEOREM NobodyMissedAlways == ServiceSpec => []NobodyMissed
  <1>1. ServiceInit => CachesInv /\ NobodyMissed
     BY ServiceInitOK
  <1>2. CachesInv /\ NobodyMissed /\ [ServiceNext]_serviceVars => CachesInv' /\ NobodyMissed'
     BY CachesInductive, NobodyMissedInductive DEF CachesInv
  <1> QED BY <1>1, <1>2, PTL DEF ServiceSpec
===============================================================================

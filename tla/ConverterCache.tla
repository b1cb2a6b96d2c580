---------------------------- MODULE ConverterCache ----------------------------
(***************************************************************************)
(* Converters and the data they share (ucnv_bld.cpp, ucnv.c), the default  *)
(* converter that u_getDefaultConverter lends to one user at a time        *)
(* (ustr_cnv.cpp), and what u_cleanup does to both (ucln_cmn.cpp).         *)
(*                                                                         *)
(* Data of one name are read from a file once and counted; those that no   *)
(* converter uses stay in the table until ucnv_flushCache.  Data of an     *)
(* extension refer to the data of their base.  Whatever happens under      *)
(* cnvCacheMutex is one step; a call goes through several such steps, with *)
(* unlocked tests between them.                                            *)
(***************************************************************************)
EXTENDS Integers, FiniteSets, Sequences

CONSTANTS User,            \* threads
          Plain, Ext,      \* names of data: without and with a base
          Base,            \* the base of an extension
          Subs,            \* names of algorithmic converters -> names of the data they load
          SystemName,      \* uprv_getDefaultCodepage
          FallbackName,    \* "US-ASCII", which is algorithmic
          MaxCopies, MaxConverters      \* bounds: memory for data and converters

Data   == Plain \cup Ext
Names  == Data \cup DOMAIN Subs
Copy   == 1..MaxCopies
Handle == 1..MaxConverters
NULL   == 0

ASSUME DataAssumption ==
  IsFiniteSet(Data) /\ Base \in [Ext -> Plain] /\ Plain \cap Ext = {}
ASSUME NamesAssumption ==
  /\ \A n \in DOMAIN Subs : n \notin Data /\ Subs[n] \in Seq(Data)
  /\ SystemName \in Names /\ FallbackName \in DOMAIN Subs /\ Subs[FallbackName] = <<>>
  /\ "none" \notin Names /\ "null" \notin Names
ASSUME BoundsAssumption == MaxCopies \in Nat /\ MaxConverters \in Nat

VARIABLES
  data,        \* shared data that are allocated: name, refs, cached, base
  table,       \* SHARED_DATA_HASHTABLE
  tableOpen,   \* it is not NULL
  cnv,         \* converters that are allocated: name, the data they use
  default,     \* gDefaultConverter
  defaultName, \* gDefaultConverterName, or "null"
  defaultAlg,  \* gDefaultAlgorithmicSharedData, by its name, or "null"
  registered,  \* ucnv_cleanup is registered with UCLN_COMMON_UCNV
  job,        \* what each thread does
  mine,        \* converters that the client of each thread has open
  stale        \* history: a default converter of an earlier default name may be left

cacheVars == <<data, table, tableOpen, registered>>
nameVars  == <<defaultName, defaultAlg>>
converterVars      == <<cacheVars, cnv, default, nameVars, job, mine, stale>>

FreeHandles == {h \in Handle : cnv[h].name = "none"}
NewHandle   == CHOOSE h \in Handle : cnv[h].name = "none"
NoData      == [name |-> "none", refs |-> -1, cached |-> FALSE, base |-> NULL]
NoConverter == [name |-> "none", uses |-> <<>>]
NoJob        == [pc |-> "idle"]
Allocated(c) == data[c].refs >= 0

ConverterInit ==
  /\ data = [c \in Copy |-> NoData] /\ table = [n \in Data |-> NULL] /\ tableOpen = FALSE
  /\ cnv = [h \in Handle |-> NoConverter]
  /\ default = NULL /\ defaultName = "null" /\ defaultAlg = "null" /\ registered = FALSE
  /\ job = [t \in User |-> NoJob] /\ mine = [t \in User |-> {}] /\ stale = FALSE

-------------------------------------------------------------------------------
(* Under cnvCacheMutex.  The operators map the data with their table to      *)
(* those after the call; a load also tells the copy it got, or NULL.         *)

Free(s, c) == [s EXCEPT !.data[c] = NoData]
Count(s, c, k) == [s EXCEPT !.data[c].refs = @ + k]

(* ucnv_unload of data without a base. *)
Drop(s, c) ==
  LET r == Count(s, c, -1)
  IN  IF r.data[c].refs = 0 /\ ~r.data[c].cached THEN Free(r, c) ELSE r

(* ucnv_deleteSharedConverterData, whose unload function gives the base back. *)
Delete(s, c) ==
  LET b == s.data[c].base
  IN  IF b = NULL THEN Free(s, c) ELSE Drop(Free(s, c), b)

Unload(s, c) ==
  LET r == Count(s, c, -1)
  IN  IF r.data[c].refs = 0 /\ ~r.data[c].cached THEN Delete(r, c) ELSE r

Got(s, c) == [state |-> s, copy |-> c]

(* createConverterFromFile: one reference, which is the caller's. *)
FromFile(s, n, b, share) ==
  LET c == CHOOSE d \in Copy : s.data[d].refs = -1
      r == [s EXCEPT !.data[c] = [name |-> n, refs |-> 1, cached |-> share, base |-> b]]
  IN  Got(IF share THEN [r EXCEPT !.table[n] = c, !.tableOpen = TRUE] ELSE r, c)

CanRead(s) == \E d \in Copy : s.data[d].refs = -1

(* Mutant: data that the table has are handed out uncounted. *)
LoadPlainUncounted(s, n, pkg, test) ==
  IF ~pkg /\ s.table[n] # NULL
  THEN {Got(s, s.table[n])}
  ELSE {Got(s, NULL)} \cup (IF CanRead(s) THEN {FromFile(s, n, NULL, ~pkg /\ ~test)} ELSE {})

(* ucnv_load of a name without a base: in the table, or from a file, which   *)
(* may fail.  Data of a package, and data that are only tested, stay out of  *)
(* the table.                                                                *)
LoadPlain(s, n, pkg, test) ==
  IF ~pkg /\ s.table[n] # NULL
  THEN {Got(Count(s, s.table[n], 1), s.table[n])}
  ELSE {Got(s, NULL)} \cup (IF CanRead(s) THEN {FromFile(s, n, NULL, ~pkg /\ ~test)} ELSE {})

(* ucnv_load with ucnv_MBCSLoad: an extension loads its base first, keeps it *)
(* unless it is only tested, and gives it back when it fails itself.         *)
Load(s, n, pkg, test) ==
  IF n \in Plain THEN LoadPlain(s, n, pkg, test)
  ELSE IF ~pkg /\ s.table[n] # NULL
  THEN {Got(Count(s, s.table[n], 1), s.table[n])}
  ELSE {Got(s, NULL)} \cup UNION
       { IF b.copy = NULL THEN {Got(b.state, NULL)}
         ELSE LET back == Drop(b.state, b.copy)
              IN  {Got(back, NULL)} \cup
                  (IF test THEN (IF CanRead(back) THEN {FromFile(back, n, NULL, FALSE)} ELSE {})
                   ELSE IF CanRead(b.state) THEN {FromFile(b.state, n, b.copy, ~pkg)} ELSE {})
         : b \in LoadPlain(s, Base[n], pkg, test)}

State == [data |-> data, table |-> table, tableOpen |-> tableOpen]
Becomes(s) == /\ data' = s.data /\ table' = s.table /\ tableOpen' = s.tableOpen

(* One element of the table, and a turn over all of it, in the order of the  *)
(* hash codes.                                                               *)
FlushOne(s, n) ==
  LET c == s.table[n]
  IN  IF c # NULL /\ s.data[c].refs = 0
      THEN Delete([s EXCEPT !.table[n] = NULL, !.data[c].cached = FALSE], c)
      ELSE s

Pass(s, order) ==
  LET turn[i \in 0..Len(order)] == IF i = 0 THEN s ELSE FlushOne(turn[i - 1], order[i])
  IN  turn[Len(order)]

(* Mutant: "double loop" is a single one. *)
FlushedOnce(s, order) == Pass(s, order)

(* The locked part of ucnv_flushCache: two turns at most. *)
Flushed(s, order) ==
  LET r == Pass(s, order)
  IN  IF \E n \in Data : r.table[n] # NULL THEN Pass(r, order) ELSE r

Orders == {q \in [1..Cardinality(Data) -> Data] : \A n \in Data : \E i \in DOMAIN q : q[i] = n}

-------------------------------------------------------------------------------
(* A job opens (todo: the data still to load) or closes the converter h; it  *)
(* is for the client, for the default converter, to find the default name    *)
(* ("probe") or a test.                                                      *)
Needs(n) == IF n \in Data THEN <<n>> ELSE Subs[n]
Goes(t, x) == job' = [job EXCEPT ![t] = x]
JobAt(t, pc) == job[t].pc = pc

StartOpen(t, n, for, pkg) ==
  /\ FreeHandles # {}
  /\ LET h == NewHandle
     IN  /\ cnv' = [cnv EXCEPT ![h] = [name |-> n, uses |-> <<>>]]
         /\ Goes(t, [pc |-> "load", h |-> h, todo |-> Needs(n), for |-> for, pkg |-> pkg])

ThenClose(t, h, for) == Goes(t, [pc |-> "close", h |-> h, for |-> for])

(* ucnv_open(n), ucnv_openPackage and ucnv_canCreateConverter. *)
Open(t, n, pkg, for) ==
  /\ JobAt(t, "idle") /\ (pkg => n \in Data /\ for = "client")
  /\ StartOpen(t, n, for, pkg)
  /\ UNCHANGED <<cacheVars, default, nameVars, mine, stale>>

(* ucnv_loadSharedData for one of the names.  After a failure the converter  *)
(* is closed, which gives back what it has.                                  *)
LoadSharedData(t) ==
  /\ JobAt(t, "load") /\ job[t].todo # <<>>
  /\ LET h == job[t].h
     IN  \E r \in Load(State, Head(job[t].todo), job[t].pkg, job[t].for = "test") :
           /\ Becomes(r.state)
           /\ registered' = (registered \/ (r.state.tableOpen /\ ~tableOpen))
           /\ IF r.copy = NULL
              THEN UNCHANGED cnv /\ ThenClose(t, h, IF job[t].for = "probe" THEN "probeFailed" ELSE "none")
              ELSE /\ cnv' = [cnv EXCEPT ![h].uses = Append(@, r.copy)]
                   /\ Goes(t, [job[t] EXCEPT !.todo = Tail(@)])
  /\ UNCHANGED <<default, nameVars, mine, stale>>

(* Everything is loaded. *)
Opened(t) ==
  /\ JobAt(t, "load") /\ job[t].todo = <<>>
  /\ LET h == job[t].h
     IN  CASE job[t].for = "client"  -> Goes(t, NoJob) /\ mine' = [mine EXCEPT ![t] = @ \cup {h}]
           [] job[t].for = "default" -> Goes(t, [pc |-> "use", h |-> h]) /\ UNCHANGED mine
           [] job[t].for = "test"    -> ThenClose(t, h, "none") /\ UNCHANGED mine
           [] job[t].for = "probe"   -> Goes(t, [pc |-> "setName", h |-> h]) /\ UNCHANGED mine
  /\ UNCHANGED <<cacheVars, cnv, default, nameVars, stale>>

(* ucnv_close by the client. *)
Close(t, h) ==
  /\ JobAt(t, "idle") /\ h \in mine[t]
  /\ mine' = [mine EXCEPT ![t] = @ \ {h}]
  /\ ThenClose(t, h, "none")
  /\ UNCHANGED <<cacheVars, cnv, default, nameVars, stale>>

(* ucnv_unloadSharedDataIfReady, for each of the data in use. *)
UnloadSharedData(t) ==
  /\ JobAt(t, "close")
  /\ LET h == job[t].h
     IN  /\ cnv[h].uses # <<>>
         /\ Becomes(Unload(State, Head(cnv[h].uses)))
         /\ cnv' = [cnv EXCEPT ![h].uses = Tail(@)]
  /\ UNCHANGED <<registered, default, nameVars, job, mine, stale>>

Closed(t) ==
  /\ JobAt(t, "close") /\ cnv[job[t].h].uses = <<>>
  /\ cnv' = [cnv EXCEPT ![job[t].h] = NoConverter]
  /\ CASE job[t].for = "none"        -> Goes(t, NoJob)
       [] job[t].for = "flush"       -> Goes(t, [pc |-> "flushTable"])
       [] job[t].for = "probed"      -> Goes(t, [pc |-> "openNamed", name |-> SystemName])
       [] job[t].for = "probeFailed" -> Goes(t, [pc |-> "setFallback"])
  /\ UNCHANGED <<cacheVars, default, nameVars, mine, stale>>

(* ucnv_safeClone: the source converter keeps its references meanwhile, so   *)
(* counting them all at once makes no difference.                            *)
SafeClone(t, h) ==
  /\ JobAt(t, "idle") /\ h \in mine[t] /\ FreeHandles # {}
  /\ LET g == NewHandle
     IN  /\ cnv' = [cnv EXCEPT ![g] = cnv[h]]
         /\ mine' = [mine EXCEPT ![t] = @ \cup {g}]
  /\ data' = [c \in Copy |-> [data[c] EXCEPT !.refs =
                @ + Cardinality({i \in DOMAIN cnv[h].uses : cnv[h].uses[i] = c})]]
  /\ UNCHANGED <<table, tableOpen, registered, default, nameVars, job, stale>>

-------------------------------------------------------------------------------
(* u_getDefaultConverter: the first test is made without the mutex.          *)
GetDefault(t) ==
  /\ JobAt(t, "idle")
  /\ Goes(t, [pc |-> IF default # NULL THEN "take" ELSE "openDefault"])
  /\ UNCHANGED <<cacheVars, cnv, default, nameVars, mine, stale>>

(* Mutant: it is there because it was there ("need to check to make sure it  *)
(* wasn't taken out from under us").                                         *)
TakeDefaultLeaves(t) ==
  /\ JobAt(t, "take")
  /\ IF default # NULL THEN Goes(t, [pc |-> "use", h |-> default]) ELSE Goes(t, [pc |-> "openDefault"])
  /\ UNCHANGED <<cacheVars, cnv, default, nameVars, mine, stale>>

TakeDefault(t) ==
  /\ JobAt(t, "take")
  /\ IF default # NULL THEN Goes(t, [pc |-> "use", h |-> default]) ELSE Goes(t, [pc |-> "openDefault"])
  /\ default' = NULL
  /\ UNCHANGED <<cacheVars, cnv, nameVars, mine, stale>>

(* ucnv_open(NULL) asks ucnv_getDefaultName, which opens a converter to find *)
(* the canonical name of the system's codepage when there is no name.        *)
OpenDefault(t) ==
  /\ JobAt(t, "openDefault")
  /\ IF defaultName = "null" THEN StartOpen(t, SystemName, "probe", FALSE)
     ELSE Goes(t, [pc |-> "openNamed", name |-> defaultName]) /\ UNCHANGED cnv
  /\ UNCHANGED <<cacheVars, default, nameVars, mine, stale>>

AlgorithmicTypeFromName(n) == IF n \in DOMAIN Subs THEN n ELSE "null"

InternalSetName(n) ==
  /\ defaultName' = n /\ defaultAlg' = AlgorithmicTypeFromName(n) /\ registered' = TRUE
  /\ UNCHANGED <<data, table, tableOpen>>

(* Two threads that look for the name at once may come to different ends.    *)
ProbeSets(n) == InternalSetName(n) /\ stale' = (stale \/ defaultName \notin {"null", n})

ProbeSetsName(t) ==
  /\ JobAt(t, "setName")
  /\ ProbeSets(SystemName)
  /\ ThenClose(t, job[t].h, "probed")
  /\ UNCHANGED <<cnv, default, mine>>

ProbeFallsBack(t) ==
  /\ JobAt(t, "setFallback")
  /\ ProbeSets(FallbackName)
  /\ Goes(t, [pc |-> "openNamed", name |-> FallbackName])
  /\ UNCHANGED <<cnv, default, mine>>

(* Back in ucnv_loadSharedData: the default algorithmic converter, if there  *)
(* is one (read without the mutex), else the data of the name.  An           *)
(* algorithmic name alone has no data file.                                  *)
OpenNamed(t) ==
  /\ JobAt(t, "openNamed")
  /\ CASE defaultAlg # "null"   -> StartOpen(t, defaultAlg, "default", FALSE)
       [] defaultAlg = "null" /\ job[t].name \in Data -> StartOpen(t, job[t].name, "default", FALSE)
       [] OTHER                 -> Goes(t, NoJob) /\ UNCHANGED cnv
  /\ UNCHANGED <<cacheVars, default, nameVars, mine, stale>>

(* u_releaseDefaultConverter: again a test without the mutex first. *)
ReleaseDefault(t) ==
  /\ JobAt(t, "use")
  /\ IF default = NULL THEN Goes(t, [pc |-> "putBack", h |-> job[t].h])
     ELSE ThenClose(t, job[t].h, "none")
  /\ UNCHANGED <<cacheVars, cnv, default, nameVars, mine, stale>>

PutBack(t) ==
  /\ JobAt(t, "putBack")
  /\ IF default = NULL THEN default' = job[t].h /\ Goes(t, NoJob)
     ELSE UNCHANGED default /\ ThenClose(t, job[t].h, "none")
  /\ UNCHANGED <<cacheVars, cnv, nameVars, mine, stale>>

(* ucnv_flushCache: u_flushDefaultConverter, the test of the table, the loops. *)
FlushCache(t) ==
  /\ JobAt(t, "idle")
  /\ Goes(t, [pc |-> IF default # NULL THEN "flushDefault" ELSE "flushTable"])
  /\ UNCHANGED <<cacheVars, cnv, default, nameVars, mine, stale>>

FlushDefault(t) ==
  /\ JobAt(t, "flushDefault")
  /\ IF default # NULL THEN ThenClose(t, default, "flush") ELSE Goes(t, [pc |-> "flushTable"])
  /\ default' = NULL
  /\ UNCHANGED <<cacheVars, cnv, nameVars, mine, stale>>

FlushTable(t) ==
  /\ JobAt(t, "flushTable")
  /\ Goes(t, NoJob)
  /\ IF tableOpen THEN \E q \in Orders : Becomes(Flushed(State, q))
     ELSE UNCHANGED <<data, table, tableOpen>>
  /\ UNCHANGED <<registered, cnv, default, nameVars, mine, stale>>

-------------------------------------------------------------------------------
(* For one thread alone, with all other threads out of ICU.                  *)
Alone(t) == \A u \in User : JobAt(u, "idle")

CloseNow(s, h) ==
  IF h = NULL THEN s
  ELSE LET left[i \in 0..Len(cnv[h].uses)] ==
             IF i = 0 THEN s ELSE Unload(left[i - 1], cnv[h].uses[i])
       IN  left[Len(cnv[h].uses)]

(* ucnv_setDefaultName of a name that can be opened (its data are then in    *)
(* the table): the default converter goes.  With NULL only the name goes.    *)
SetDefaultName(t, n) ==
  /\ Alone(t)
  /\ \A i \in DOMAIN Needs(n) : table[Needs(n)[i]] # NULL
  /\ defaultName' = n /\ defaultAlg' = AlgorithmicTypeFromName(n) /\ registered' = TRUE
  /\ Becomes(CloseNow(State, default))
  /\ cnv' = IF default = NULL THEN cnv ELSE [cnv EXCEPT ![default] = NoConverter]
  /\ default' = NULL /\ stale' = FALSE
  /\ UNCHANGED <<job, mine>>

SetDefaultNameNull(t) ==
  /\ Alone(t) /\ defaultName # "null"
  /\ defaultName' = "null" /\ stale' = (stale \/ default # NULL)
  /\ UNCHANGED <<cacheVars, defaultAlg, cnv, default, job, mine>>

(* u_cleanup, after all converters are closed: ucln_lib_cleanup calls        *)
(* ucnv_cleanup if it is registered, and forgets it.                         *)
Cleanup(t) ==
  /\ Alone(t) /\ registered /\ \A u \in User : mine[u] = {}
  /\ \E q \in Orders : LET s == Flushed(CloseNow(State, default), q)
                       IN  Becomes([s EXCEPT !.tableOpen = \E n \in Data : s.table[n] # NULL])
  /\ cnv' = IF default = NULL THEN cnv ELSE [cnv EXCEPT ![default] = NoConverter]
  /\ default' = NULL /\ defaultName' = "null" /\ defaultAlg' = "null" /\ registered' = FALSE /\ stale' = FALSE
  /\ UNCHANGED <<job, mine>>

-------------------------------------------------------------------------------
ConverterStep(t) == \/ LoadSharedData(t) \/ Opened(t) \/ UnloadSharedData(t) \/ Closed(t)
           \/ TakeDefault(t) \/ OpenDefault(t) \/ OpenNamed(t) \/ ProbeSetsName(t)
           \/ ProbeFallsBack(t) \/ ReleaseDefault(t) \/ PutBack(t) \/ FlushDefault(t) \/ FlushTable(t)

ConverterCall(t) == \/ \E n \in Names, pkg \in BOOLEAN, for \in {"client", "test"} : Open(t, n, pkg, for)
           \/ \E h \in Handle : Close(t, h) \/ SafeClone(t, h)
           \/ GetDefault(t) \/ FlushCache(t)
           \/ \E n \in Names : SetDefaultName(t, n)
           \/ SetDefaultNameNull(t) \/ Cleanup(t)

ConverterNext == \E t \in User : ConverterStep(t) \/ ConverterCall(t)

ConverterSpec == ConverterInit /\ [][ConverterNext]_converterVars

-------------------------------------------------------------------------------
ConverterTypeOK ==
  /\ \A c \in Copy : data[c] = NoData \/ data[c] \in
       [name : Data, refs : Nat, cached : BOOLEAN, base : Copy \cup {NULL}]
  /\ table \in [Data -> Copy \cup {NULL}] /\ tableOpen \in BOOLEAN
  /\ \A h \in Handle : cnv[h] = NoConverter \/ (cnv[h].name \in Names /\ cnv[h].uses \in Seq(Copy))
  /\ default \in Handle \cup {NULL} /\ {defaultName, defaultAlg} \subseteq Names \cup {"null"}
  /\ registered \in BOOLEAN /\ stale \in BOOLEAN
  /\ mine \in [User -> SUBSET Handle]

(* The counter of shared data is the number of converters that use them and  *)
(* of extensions that are built on them, so data are freed neither early nor *)
(* never: what has no user is in the table, where a flush finds it.          *)
Places(c) == UNION {{h} \X {i \in DOMAIN cnv[h].uses : cnv[h].uses[i] = c} : h \in Handle}
Uses(c)   == Cardinality(Places(c))
DataRefsExact ==
  \A c \in Copy : Allocated(c) =>
    /\ data[c].refs = Uses(c) + Cardinality({d \in Copy : Allocated(d) /\ data[d].base = c})
    /\ data[c].refs = 0 => data[c].cached

(* Whoever refers to shared data, a converter, an extension or the table,    *)
(* refers to data that are there; what is marked as cached is in the table,  *)
(* under its name ("check to see if the element is not already there!").     *)
NoDanglingData ==
  /\ \A h \in Handle : \A i \in DOMAIN cnv[h].uses : Allocated(cnv[h].uses[i])
  /\ \A c \in Copy : Allocated(c) => /\ data[c].base = NULL \/ Allocated(data[c].base)
                                /\ data[c].cached <=> table[data[c].name] = c
  /\ \A n \in Data : table[n] # NULL => tableOpen /\ data[table[n]].name = n

(* u_getDefaultConverter lends the default converter to one user at a time,  *)
(* and nobody closes it under him or while it waits to be lent.              *)
Users(h) == {t \in User : job[t].pc \in {"load", "use", "putBack", "close", "setName"} /\ job[t].h = h}
DefaultExclusive ==
  \A h \in Handle :
    /\ Cardinality(Users(h)) + Cardinality({t \in User : h \in mine[t]})
         + (IF default = h THEN 1 ELSE 0) = (IF cnv[h] = NoConverter THEN 0 ELSE 1)

(* Whoever gets the default converter later gets one of the default name,    *)
(* unless setDefaultName(NULL) left the old one in place, or two threads     *)
(* that looked for the name at once came to different ends.                  *)
DefaultMatchesName ==
  ~stale /\ default # NULL /\ defaultName # "null" => cnv[default].name = defaultName

(* "double loop: A delta/extension-only converter has a pointer to its base  *)
(* table's shared data; the first iteration of the outer loop may see the    *)
(* delta converter before the base converter" (ucnv_flushCache): after a     *)
(* flush, the table has only data that somebody uses.                        *)
FlushLeavesUsed ==
  \A t \in User : JobAt(t, "flushTable") /\ job'[t] = NoJob
     => \A c \in Copy : data'[c].cached => data'[c].refs > 0

(* After u_cleanup with all converters closed nothing is left: "This will    *)
(* prevent any memory leaks due to reference counting" (ucln.h).             *)
CleanupLeavesNothing ==
  registered /\ ~registered' => /\ \A c \in Copy : data'[c] = NoData
                                /\ \A h \in Handle : cnv'[h] = NoConverter
                                /\ ~tableOpen' /\ default' = NULL

(* A later u_cleanup will find what there is: the table and the default      *)
(* converter exist only while ucnv_cleanup is registered.                    *)
CleanupRegistered == tableOpen \/ default # NULL => registered

(* ucnv_flushCache and u_cleanup free all converter data that nobody uses.   *)
ConvertersFreed == [][FlushLeavesUsed /\ CleanupLeavesNothing]_converterVars

(* Shared data are counted exactly, freed when they should be and never      *)
(* while somebody refers to them, and found by a later cleanup.              *)
DataInv == ConverterTypeOK /\ DataRefsExact /\ NoDanglingData /\ CleanupRegistered

(* The default converter has one user at a time and the default name. *)
DefaultInv == DefaultExclusive /\ DefaultMatchesName
===============================================================================

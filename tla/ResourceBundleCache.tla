-------------------------- MODULE ResourceBundleCache --------------------------
(***************************************************************************)
(* The cache of resource bundles (uresbund.cpp): one entry for each name    *)
(* that was asked for, chained to the entries it falls back to, counted by  *)
(* the bundles that are open on it or on an entry below it, by the entries  *)
(* that are aliases of it, and, the pool bundle, by those that share its    *)
(* keys.  Every call holds resbMutex while it works on the entries, so      *)
(* each is one step; what is at stake is the order in which bundles with    *)
(* common parents are opened and closed.                                    *)
(***************************************************************************)
EXTENDS Integers, FiniteSets, Sequences

CONSTANTS Name,        \* names of bundles; "root" and "pool" are two of them
          Chopped,     \* chopLocale: the name without its last part, or "none"
          Real,        \* names that have data of their own
          AliasOf,     \* names with %%ALIAS -> what it says
          Parent,      \* names with %%Parent (%%ParentIsRoot: "root") -> what it says
          NoFallback,  \* names with the nofallback flag
          Pooled,      \* names whose data use the pool bundle
          Default,     \* uloc_getDefault
          MaxBundles   \* bound: bundles open at once

Bundle == 1..MaxBundles

VARIABLES entry,       \* cache: name -> count, parent, alias, pool; or NoEntry
          bundle       \* fData of the bundles that are open, or "none"

bundleVars == <<entry, bundle>>

NoEntry  == [count |-> -1, parent |-> "none", alias |-> "none", pool |-> FALSE]
NewEntry == [NoEntry EXCEPT !.count = 0]
Cached(e, n) == e[n].count >= 0

Init == entry = [n \in Name |-> NoEntry] /\ bundle = [b \in Bundle |-> "none"]

-------------------------------------------------------------------------------
(* init_entry: the entry of a name is made when there is none, with its      *)
(* alias or its pool, and the real one is counted.                           *)
RECURSIVE InitEntry(_, _)
InitEntry(e, n) ==
  LET made == IF Cached(e, n) THEN e
              ELSE IF n \in DOMAIN AliasOf
              THEN LET t == InitEntry(e, AliasOf[n])
                   IN  [t.entries EXCEPT ![n] = [NewEntry EXCEPT !.alias = t.name]]
              ELSE IF n \in Pooled
              THEN [InitEntry(e, "pool").entries EXCEPT ![n] = [NewEntry EXCEPT !.pool = TRUE]]
              ELSE [e EXCEPT ![n] = NewEntry]
      real == IF made[n].alias = "none" THEN n ELSE made[n].alias
  IN  [entries |-> [made EXCEPT ![real].count = @ + 1], name |-> real]

(* "this entry is not real. We will discard it." *)
Discarded(r) == [r.entries EXCEPT ![r.name].count = @ - 1]
NotFound(r)  == [entries |-> Discarded(r), name |-> "none"]

(* findFirstExisting: "none" after the shortest name. *)
RECURSIVE FindFirstExisting(_, _)
RealOrShorter(r, n) == IF r.name \in Real THEN r
                       ELSE IF Chopped[n] = "none" THEN NotFound(r)
                       ELSE FindFirstExisting(Discarded(r), Chopped[n])
FindFirstExisting(e, n) == RealOrShorter(InitEntry(e, n), n)

(* Mutant: an explicit parent is not looked for. *)
ParentNameChopped(t1, name) == name

ParentName(t1, name) == IF t1 \in DOMAIN Parent THEN Parent[t1] ELSE name

(* loadParentsExceptRoot, with the name to go on with; the last entry of the *)
(* chain so far comes back.                                                  *)
RECURSIVE LoadParentsExceptRoot(_, _, _)
LoadAbove(t1, t2, name) ==
  LoadParentsExceptRoot([t2.entries EXCEPT ![t1].parent = t2.name], t2.name, name)
LoadParentsExceptRoot(e, t1, name) ==
  IF name = "none" \/ e[t1].parent # "none" \/ t1 \in NoFallback \/ ParentName(t1, name) = "root"
  THEN [entries |-> e, name |-> t1]
  ELSE LoadAbove(t1, InitEntry(e, ParentName(t1, name)), Chopped[ParentName(t1, name)])

(* insertRootBundle *)
InsertRootBundle(e, t1) ==
  [entries |-> [InitEntry(e, "root").entries EXCEPT ![t1].parent = "root"], name |-> "root"]

RECURSIVE Chain(_, _)
Chain(e, n) == IF n = "none" THEN {} ELSE {n} \cup Chain(e, e[n].parent)

AddTo(e, names, k) == [n \in Name |-> IF n \in names THEN [e[n] EXCEPT !.count = @ + k] ELSE e[n]]

(* The part of entryOpen and of entryOpenDirect after the entry r is found:  *)
(* what is missing of its chain is loaded, up to the root, the rest counted. *)
Loaded(r, name) == IF r.name = "root" THEN r ELSE LoadParentsExceptRoot(r.entries, r.name, name)
WithRoot(p, fallback) == IF p.name # "root" /\ p.entries[p.name].parent = "none" /\ fallback
                         THEN InsertRootBundle(p.entries, p.name) ELSE p
CountRest(p) == AddTo(p.entries, Chain(p.entries, p.entries[p.name].parent), 1)

(* Mutant: the parents that were there already are not counted. *)
LinkUncounted(r, name) ==
  [entries |-> WithRoot(Loaded(r, name), r.name \notin NoFallback).entries, name |-> r.name]

Link(r, name) ==
  [entries |-> CountRest(WithRoot(Loaded(r, name), r.name \notin NoFallback)), name |-> r.name]

RECURSIVE Shortest(_)
Shortest(n) == IF Chopped[n] = "none" THEN n ELSE Shortest(Chopped[n])

(* entryOpen: the name, else the default locale if it is wanted and was not  *)
(* just tried, else the root.  Root data are always there.                   *)
OrElse(r, n, wanted) == IF r.name = "none" /\ wanted THEN FindFirstExisting(r.entries, n) ELSE r
LinkOwn(r) == Link(r, Chopped[r.name])
EntryOpen(e, n, useDefault) ==
  LinkOwn(OrElse(OrElse(FindFirstExisting(e, n), Default,
                        useDefault /\ Shortest(n) # Shortest(Default) /\ n # "root"),
                 "root", TRUE))

(* entryOpenDirect: this name or nothing; its parents follow its own name.   *)
LinkReal(r, name) == IF r.name \in Real THEN Link(r, name) ELSE NotFound(r)
EntryOpenDirect(e, n) == LinkReal(InitEntry(e, n), Chopped[n])

Free == {b \in Bundle : bundle[b] = "none"}
NewBundle(b) == b \in Free /\ \A c \in Free : b <= c

(* ures_open, ures_openNoDefault, ures_openDirect *)
Open(b, n, type) ==
  /\ NewBundle(b)
  /\ LET r == CASE type = "default" -> EntryOpen(entry, n, TRUE)
                [] type = "root"    -> EntryOpen(entry, n, FALSE)
                [] type = "direct"  -> EntryOpenDirect(entry, n)
     IN  entry' = r.entries /\ bundle' = [bundle EXCEPT ![b] = r.name]

(* ures_close: entryCloseInt goes up the chain. *)
Close(b) ==
  /\ bundle[b] # "none"
  /\ entry' = AddTo(entry, Chain(entry, bundle[b]), -1)
  /\ bundle' = [bundle EXCEPT ![b] = "none"]

(* entryIncrease *)
Increase(e, n) == AddTo(e, Chain(e, n), 1)

(* ures_copyResb into a new bundle, and init_resb_result: a new bundle, or   *)
(* the same one again (fill-in), on the entry of the chain that has the item.*)
Copy(b, c) ==
  /\ bundle[b] # "none" /\ NewBundle(c)
  /\ entry' = Increase(entry, bundle[b])
  /\ bundle' = [bundle EXCEPT ![c] = bundle[b]]

GetItem(b, c, n) ==
  /\ bundle[b] # "none" /\ n \in Chain(entry, bundle[b]) \cap Real
  /\ NewBundle(c) \/ c = b
  /\ entry' = Increase(IF c = b THEN AddTo(entry, Chain(entry, bundle[b]), -1) ELSE entry, n)
  /\ bundle' = [bundle EXCEPT ![c] = n]

-------------------------------------------------------------------------------
(* free_entry gives back the pool and the alias. *)
FreeEntry(e, n) ==
  LET p == IF e[n].pool THEN AddTo(e, {"pool"}, -1) ELSE e
      a == IF e[n].alias = "none" THEN p ELSE AddTo(p, {e[n].alias}, -1)
  IN  [a EXCEPT ![n] = NoEntry]

(* Mutant: ures_flushCache goes over the table once. *)
RECURSIVE FreeAll(_, _)
FreeAll(e, names) ==
  IF names = {} THEN e
  ELSE LET n == CHOOSE m \in names : TRUE IN FreeAll(FreeEntry(e, n), names \ {n})
FlushedOnce(e) == FreeAll(e, {n \in Name : e[n].count = 0})

(* ures_flushCache: until nothing more is deleted, in whatever order.        *)
RECURSIVE Flushed(_)
Flushed(e) ==
  LET unused == {n \in Name : e[n].count = 0}
  IN  IF unused = {} THEN e ELSE Flushed(FreeEntry(e, CHOOSE n \in unused : TRUE))

(* ures_cleanup, when all bundles are closed: uhash_close frees no entry.    *)
Cleanup ==
  /\ \A b \in Bundle : bundle[b] = "none"
  /\ \E n \in Name : Cached(entry, n)
  /\ entry' = Flushed(entry) /\ UNCHANGED bundle

Next == \/ \E b \in Bundle, n \in Name \ {"pool"}, type \in {"default", "root", "direct"} : Open(b, n, type)
        \/ \E b \in Bundle : Close(b)
        \/ \E b, c \in Bundle : Copy(b, c) \/ \E n \in Name : GetItem(b, c, n)
        \/ Cleanup

-------------------------------------------------------------------------------
(* "fCountExisting should now be accurate" (ures_flushCache): it counts the  *)
(* open bundles that have the entry in their chain, and what refers to it.   *)
BundleCountsExact ==
  \A n \in Name : Cached(entry, n) =>
    entry[n].count = Cardinality({b \in Bundle : n \in Chain(entry, bundle[b])})
                   + Cardinality({m \in Name : entry[m].alias = n})
                   + Cardinality({m \in Name : n = "pool" /\ entry[m].pool})

(* The chain of an open bundle is the one its name asks for, whatever was    *)
(* opened before: "proper fallback chaining is executed while initialization.*)
(* The result is stored in cache for later fallback search".                 *)
Resolved(n) == IF n \in DOMAIN AliasOf THEN AliasOf[n] ELSE n
RECURSIVE Fallbacks(_)
Fallbacks(n) ==
  IF n = "root" \/ n \in NoFallback THEN <<n>>
  ELSE <<n>> \o Fallbacks(IF Chopped[n] = "none" THEN "root"
                          ELSE Resolved(IF n \in DOMAIN Parent THEN Parent[n] ELSE Chopped[n]))
RECURSIVE ChainSeq(_)
ChainSeq(n) == IF n = "none" THEN <<>> ELSE <<n>> \o ChainSeq(entry[n].parent)
FallbackChain == \A b \in Bundle : bundle[b] # "none" => ChainSeq(bundle[b]) = Fallbacks(bundle[b])

(* "Do it again to catch bundles (aliases, pool bundle) whose fCountExisting *)
(* got decremented by free_entry()": u_cleanup loses no entry.               *)
FlushLeavesNothing == (\E n \in Name : Cached(entry, n) /\ ~Cached(entry', n))
                        => \A n \in Name : ~Cached(entry', n)
===============================================================================

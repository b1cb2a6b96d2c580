---------------------------- MODULE CompositeCache ----------------------------
(***************************************************************************)
(* The unified cache with values that hold hard references to other cached *)
(* values: createObject gets them, the destructor releases them, and so    *)
(* does a createObject that fails after it got some.  A slice              *)
(* or a flush that evicts such a value runs its destructor inside its loop, *)
(* the destructor takes the (recursive) gCacheMutex again and may run      *)
(* another slice there.  All of it happens on one thread that keeps the    *)
(* mutex, so the module has one thread and a stack of calls; what other    *)
(* threads do in between is the matter of UnifiedCache.                    *)
(*                                                                         *)
(* A key is the slot of its entry in fHashtable, which gives the round     *)
(* robin its order; every key has one value at a time, which is known by   *)
(* its key.                                                                *)
(***************************************************************************)
EXTENDS Integers, FiniteSets, SequencesExt

CONSTANTS Slots,                \* slots of the hash table
          Unused,               \* fMaxUnused; the percentage in use is left at 0
          SLOT_ITERATIONS       \* MAX_EVICT_ITERATIONS

ASSUME SlotAssumption == /\ {Slots, SLOT_ITERATIONS} \subseteq Nat \ {0}
                         /\ Unused \subseteq Nat /\ Unused # {}

Slot == 1..Slots
UHASH_FIRST == 0                \* the position before the first slot

VARIABLES
  refs,        \* the keys whose values the value of a key refers to
  unused,      \* fMaxUnused
  entry,       \* "none", "progress", "value" or "failed" (gNoValue with an error)
  evictPos,    \* fEvictPos
  slotItems,   \* fItemsInUseCount
  hardRefs,    \* hardRefCount of the value of each key
  live,        \* the value exists: its destructor has not ended
  heldSlots,   \* keys whose values the client refers to
  calls,       \* the calls under way, innermost last
  phase,       \* of the cache: "open", "closing" (destructor) or "closed"
  crashed      \* a null element was looked at

compositeVars == <<refs, unused, entry, evictPos, slotItems, hardRefs, live, heldSlots, calls,
                   phase, crashed>>

Table == {k \in Slot : entry[k] # "none"}

(* createObject never needs its own key: the references are acyclic. *)
Acyclic(r) == \A S \in (SUBSET Slot) \ {{}} : \E k \in S : r[k] \cap S = {}

(* todo: what createObject does not refer to yet or, if it fails, any more;  *)
(* what the destructor still refers to.                                      *)
Frame == [fn : {"create"}, key : Slot, todo : SUBSET Slot, fails : BOOLEAN]
         \cup [fn : {"delete"}, key : Slot, todo : SUBSET Slot]
         \cup [fn : {"slice"}, evict : Nat, visit : Nat]
         \cup [fn : {"flush"}, left : Nat, result : BOOLEAN, all : BOOLEAN]

CompositeTypeOK ==
  /\ refs \in [Slot -> SUBSET Slot] /\ unused \in Unused
  /\ entry \in [Slot -> {"none", "progress", "value", "failed"}]
  /\ evictPos \in 0..Slots /\ slotItems \in Int
  /\ hardRefs \in [Slot -> Nat] /\ live \in [Slot -> BOOLEAN]
  /\ heldSlots \subseteq Slot /\ calls \in Seq(Frame)
  /\ phase \in {"open", "closing", "closed"} /\ crashed \in BOOLEAN

CompositeInit ==
  /\ refs \in {r \in [Slot -> SUBSET Slot] : Acyclic(r)} /\ unused \in Unused
  /\ entry = [k \in Slot |-> "none"]
  /\ evictPos = UHASH_FIRST /\ slotItems = 0
  /\ hardRefs = [k \in Slot |-> 0] /\ live = [k \in Slot |-> FALSE]
  /\ heldSlots = {} /\ calls = <<>> /\ phase = "open" /\ crashed = FALSE

Idle == calls = <<>> /\ phase = "open" /\ ~crashed
Top  == Last(calls)
In(fn) == calls # <<>> /\ Top.fn = fn /\ ~crashed

(* _isEvictable: every entry with a value is its master; a failed one is not  *)
(* the master of gNoValue.                                                   *)
Evictable(k) == entry[k] = "failed" \/ (entry[k] = "value" /\ hardRefs[k] = 0)

(* _nextElement: the next one in the table, or the first (Table # {}). *)
NextElement == LET after == {k \in Table : k > evictPos}
               IN  IF after = {} THEN Min(Table) ELSE Min(after)

(* _runEvictionSlice as a call, if there is anything to evict. *)
Slice(table, inUse) ==
  LET n == Cardinality(table) - inUse - unused
  IN  IF n <= 0 THEN <<>>
      ELSE <<[fn |-> "slice", evict |-> n, visit |-> SLOT_ITERATIONS]>>

FlushPass(table, all) == [fn |-> "flush", left |-> Cardinality(table), result |-> FALSE, all |-> all]

Create(k)  == [fn |-> "create", key |-> k, todo |-> refs[k], fails |-> FALSE]
Destroy(k) == [fn |-> "delete", key |-> k, todo |-> refs[k]]

(* Mutant: a value that comes back into use is not counted. *)
AddHardRefUncounted(k) ==
  /\ hardRefs' = [hardRefs EXCEPT ![k] = @ + 1]
  /\ UNCHANGED slotItems

(* SharedObject::addRef under the mutex. *)
AddHardRef(k) ==
  /\ hardRefs' = [hardRefs EXCEPT ![k] = @ + 1]
  /\ slotItems' = slotItems + (IF hardRefs[k] = 0 THEN 1 ELSE 0)

(* SharedObject::removeRef: the last hard reference takes the value out of   *)
(* the items in use and runs a slice; then, if the entry has gone as well,   *)
(* the value is deleted.                                                     *)
RemoveHardRef(k, caller) ==
  LET inUse == slotItems - (IF hardRefs[k] = 1 THEN 1 ELSE 0)
  IN  /\ hardRefs' = [hardRefs EXCEPT ![k] = @ - 1]
      /\ slotItems' = inUse
      /\ calls' = caller
                  \o (IF hardRefs[k] = 1 /\ entry[k] = "none" THEN <<Destroy(k)>> ELSE <<>>)
                  \o (IF hardRefs[k] = 1 THEN Slice(Table, inUse) ELSE <<>>)

-------------------------------------------------------------------------------
(* UnifiedCache::get by the client: a hit takes a reference, a miss enters   *)
(* gNoValue and calls createObject; a failed entry gives NULL and its error. *)
ClientGets(k) ==
  /\ Idle /\ k \notin heldSlots /\ entry[k] # "failed"
  /\ IF entry[k] = "value"
     THEN AddHardRef(k) /\ heldSlots' = heldSlots \cup {k} /\ UNCHANGED <<entry, calls>>
     ELSE /\ entry' = [entry EXCEPT ![k] = "progress"]
          /\ calls' = <<Create(k)>>
          /\ UNCHANGED <<hardRefs, slotItems, heldSlots>>
  /\ UNCHANGED <<refs, unused, evictPos, live, phase, crashed>>

(* createObject gets one of the values that the new one refers to; it fails  *)
(* with the error of an entry that has failed.                               *)
CreateGets(r) ==
  /\ In("create") /\ ~Top.fails /\ r \in Top.todo
  /\ LET caller == Append(Front(calls), [Top EXCEPT !.todo = @ \ {r}])
     IN  CASE entry[r] = "failed" ->
                /\ calls' = Append(Front(calls), [Top EXCEPT !.fails = TRUE])
                /\ UNCHANGED <<hardRefs, slotItems, entry>>
           [] entry[r] = "value" -> AddHardRef(r) /\ calls' = caller /\ UNCHANGED entry
           [] OTHER ->
                /\ entry' = [entry EXCEPT ![r] = "progress"]
                /\ calls' = Append(caller, Create(r))
                /\ UNCHANGED <<hardRefs, slotItems>>
  /\ UNCHANGED <<refs, unused, evictPos, live, heldSlots, phase, crashed>>

(* createObject returns a value with one reference, which goes to whoever    *)
(* called get; _putIfAbsentAndGet stores it and runs a slice.                *)
CreateEnds ==
  /\ In("create") /\ ~Top.fails /\ Top.todo = {}
  /\ LET k == Top.key
     IN  /\ entry' = [entry EXCEPT ![k] = "value"]
         /\ hardRefs' = [hardRefs EXCEPT ![k] = 1] /\ live' = [live EXCEPT ![k] = TRUE]
         /\ slotItems' = slotItems + 1
         /\ heldSlots' = IF Len(calls) = 1 THEN heldSlots \cup {k} ELSE heldSlots
         /\ calls' = Front(calls) \o Slice(Table, slotItems + 1)
  /\ UNCHANGED <<refs, unused, evictPos, phase, crashed>>

(* createObject fails by itself, with some or all of its references got ... *)
CreateGivesUp ==
  /\ In("create") /\ ~Top.fails
  /\ calls' = Append(Front(calls), [Top EXCEPT !.fails = TRUE])
  /\ UNCHANGED <<refs, unused, entry, evictPos, slotItems, hardRefs, live, heldSlots, phase, crashed>>

(* ... gives them back, one by one ...                                      *)
CreateReleases(r) ==
  /\ In("create") /\ Top.fails /\ r \in refs[Top.key] \ Top.todo
  /\ RemoveHardRef(r, Append(Front(calls), [Top EXCEPT !.todo = @ \cup {r}]))
  /\ UNCHANGED <<refs, unused, entry, evictPos, live, heldSlots, phase, crashed>>

(* ... and returns NULL: gNoValue is stored with the error, a slice runs,    *)
(* and the createObject that called get, if one did, fails as well.          *)
CreateFailEnds ==
  /\ In("create") /\ Top.fails /\ Top.todo = refs[Top.key]
  /\ LET k      == Top.key
         caller == Last(Front(calls))
     IN  /\ entry' = [entry EXCEPT ![k] = "failed"]
         /\ calls' = (IF Len(calls) = 1 THEN <<>>
                      ELSE Append(Front(Front(calls)),
                                  [caller EXCEPT !.fails = TRUE, !.todo = @ \cup {k}]))
                     \o Slice(Table, slotItems)
  /\ UNCHANGED <<refs, unused, evictPos, slotItems, hardRefs, live, heldSlots, phase, crashed>>

(* The client gives a reference back. *)
ClientReleases(k) ==
  /\ Idle /\ k \in heldSlots
  /\ heldSlots' = heldSlots \ {k}
  /\ RemoveHardRef(k, <<>>)
  /\ UNCHANGED <<refs, unused, entry, evictPos, live, phase, crashed>>

(* Mutant: the destructor keeps its references. *)
DeleteForgets(r) ==
  /\ In("delete") /\ r \in Top.todo
  /\ calls' = Append(Front(calls), [Top EXCEPT !.todo = @ \ {r}])
  /\ UNCHANGED <<refs, unused, entry, evictPos, slotItems, hardRefs, live, heldSlots, phase, crashed>>

(* The destructor of a value gives its references back, one by one ... *)
DeleteReleases(r) ==
  /\ In("delete") /\ r \in Top.todo
  /\ RemoveHardRef(r, Append(Front(calls), [Top EXCEPT !.todo = @ \ {r}]))
  /\ UNCHANGED <<refs, unused, entry, evictPos, live, heldSlots, phase, crashed>>

(* ... and ends. *)
DeleteEnds ==
  /\ In("delete") /\ Top.todo = {}
  /\ live' = [live EXCEPT ![Top.key] = FALSE]
  /\ calls' = Front(calls)
  /\ UNCHANGED <<refs, unused, entry, evictPos, slotItems, hardRefs, heldSlots, phase, crashed>>

(* One turn of a loop over the table: the element at hand goes or stays; the *)
(* null that _nextElement returns for an empty table is not tested.  If the  *)
(* entry held the last reference its value is deleted before the next turn.  *)
Visit(goes, continue) ==
  LET k == NextElement
  IN  /\ evictPos' = k
      /\ entry' = IF goes THEN [entry EXCEPT ![k] = "none"] ELSE entry
      /\ calls' = Front(calls) \o continue
                  \o (IF goes /\ entry[k] = "value" /\ hardRefs[k] = 0 THEN <<Destroy(k)>> ELSE <<>>)
      /\ UNCHANGED crashed

VisitNull == crashed' = TRUE /\ UNCHANGED <<entry, evictPos, calls>>

SliceTurn ==
  /\ In("slice")
  /\ IF Table = {} THEN VisitNull
     ELSE LET goes == Evictable(NextElement)
              next == [Top EXCEPT !.evict = IF goes THEN @ - 1 ELSE @, !.visit = @ - 1]
          IN  Visit(goes, IF next.evict = 0 \/ next.visit = 0 THEN <<>> ELSE <<next>>)
  /\ UNCHANGED <<refs, unused, slotItems, hardRefs, live, heldSlots, phase>>

(* Mutant: a pass counts as one that evicted something if it saw anything. *)
FlushTurnResult ==
  /\ In("flush") /\ Top.left > 0
  /\ IF Table = {} THEN VisitNull
     ELSE Visit(Top.all \/ Evictable(NextElement),
                <<[Top EXCEPT !.left = @ - 1, !.result = TRUE]>>)
  /\ UNCHANGED <<refs, unused, slotItems, hardRefs, live, heldSlots, phase>>

FlushTurn ==
  /\ In("flush") /\ Top.left > 0
  /\ IF Table = {} THEN VisitNull
     ELSE LET goes == Top.all \/ Evictable(NextElement)
          IN  Visit(goes, <<[Top EXCEPT !.left = @ - 1, !.result = @ \/ goes]>>)
  /\ UNCHANGED <<refs, unused, slotItems, hardRefs, live, heldSlots, phase>>

(* Mutant: flush makes one pass. *)
FlushPassOnce ==
  /\ In("flush") /\ Top.left = 0
  /\ IF phase = "closing" /\ ~Top.all
     THEN calls' = <<FlushPass(Table, TRUE)>> /\ UNCHANGED phase
     ELSE calls' = <<>> /\ phase' = IF phase = "closing" THEN "closed" ELSE phase
  /\ UNCHANGED <<refs, unused, entry, evictPos, slotItems, hardRefs, live, heldSlots, crashed>>

(* A pass of flush() that evicted something is followed by another; the      *)
(* destructor of the cache then makes one that takes everything.             *)
FlushTurnsEnd ==
  /\ In("flush") /\ Top.left = 0
  /\ IF Top.result /\ ~Top.all
     THEN calls' = <<FlushPass(Table, FALSE)>> /\ UNCHANGED phase
     ELSE IF phase = "closing" /\ ~Top.all
          THEN calls' = <<FlushPass(Table, TRUE)>> /\ UNCHANGED phase
          ELSE calls' = <<>> /\ phase' = IF phase = "closing" THEN "closed" ELSE phase
  /\ UNCHANGED <<refs, unused, entry, evictPos, slotItems, hardRefs, live, heldSlots, crashed>>

ClientFlushes ==
  /\ Idle
  /\ calls' = <<FlushPass(Table, FALSE)>>
  /\ UNCHANGED <<refs, unused, entry, evictPos, slotItems, hardRefs, live, heldSlots, phase, crashed>>

(* unifiedcache_cleanup deletes the cache. *)
ClientCloses ==
  /\ Idle
  /\ phase' = "closing"
  /\ calls' = <<FlushPass(Table, FALSE)>>
  /\ UNCHANGED <<refs, unused, entry, evictPos, slotItems, hardRefs, live, heldSlots, crashed>>

(* setEvictionPolicy takes effect with the next slice. *)
ClientSetsPolicy ==
  /\ Idle
  /\ \E m \in Unused \ {unused} : unused' = m
  /\ UNCHANGED <<refs, entry, evictPos, slotItems, hardRefs, live, heldSlots, calls, phase, crashed>>

CallSteps == \/ (\E r \in Slot : CreateGets(r) \/ CreateReleases(r) \/ DeleteReleases(r))
             \/ CreateEnds \/ CreateGivesUp \/ CreateFailEnds \/ DeleteEnds \/ SliceTurn \/ FlushTurn \/ FlushTurnsEnd

CompositeNext == \/ CallSteps
                 \/ \E k \in Slot : ClientGets(k) \/ ClientReleases(k)
                 \/ ClientFlushes \/ ClientCloses \/ ClientSetsPolicy

CompositeSpec == CompositeInit /\ [][CompositeNext]_compositeVars

(* A call that has begun runs on. *)
CompositeFairness == WF_compositeVars(CallSteps)

-------------------------------------------------------------------------------
(* The references that values under construction, whole values and values in *)
(* their destructor hold.                                                    *)
Frames(fn, k) == {i \in DOMAIN calls : calls[i].fn = fn /\ calls[i].key = k}
RefsOf(j) ==
  IF \E i \in DOMAIN calls : i \in Frames("create", j)
  THEN {r \in refs[j] : entry[r] = "value" /\ \A i \in Frames("create", j) : r \notin calls[i].todo}
  ELSE IF ~live[j] THEN {}
  ELSE {r \in refs[j] : \A i \in Frames("delete", j) : r \in calls[i].todo}
Referrers(k) == {j \in Slot : k \in RefsOf(j)}

(* The hard count of a value is the number of those who refer to it and the  *)
(* items in use are the values with a hard count, also in the middle of      *)
(* slices inside destructors inside slices.                                  *)
CountsExact ==
  /\ \A k \in Slot : hardRefs[k] = Cardinality(Referrers(k)) + (IF k \in heldSlots THEN 1 ELSE 0)
  /\ slotItems = Cardinality({k \in Slot : hardRefs[k] > 0})

(* Nothing that somebody refers to is deleted or in its destructor, no value *)
(* is in two destructors, and no entry leads to such a value.                *)
NoDanglingRef ==
  /\ \A k \in Slot : Referrers(k) # {} \/ k \in heldSlots \/ entry[k] = "value"
                      => live[k] /\ Frames("delete", k) = {}
  /\ \A k \in Slot : Cardinality(Frames("delete", k)) <= 1

(* "Use a loop in case cache items that are flushed held hard references to  *)
(* other cache items making those additional cache items eligible for        *)
(* flushing" (unifiedcache.cpp): after flush nothing is left to evict.       *)
FlushComplete ==
  [][calls # <<>> /\ calls' = <<>> /\ Top.fn = "flush"
       => \A k \in Slot : ~Evictable(k)']_compositeVars

(* The destructor of the cache leaves only what the client still refers to,  *)
(* directly or through another value.                                        *)
ClosedReleasesAll ==
  phase = "closed" => /\ Table = {}
                      /\ \A k \in Slot : live[k] => k \in heldSlots \/ Referrers(k) # {}

(* "Use a loop in case cache items that are flushed held hard references to  *)
(* other cache items" (unifiedcache.cpp) allows such items; then no flush or *)
(* slice may come to an element that is not there.                           *)
ElementFound == ~crashed

(* Every call ends: nested slices, destructors and flushes do not go on for  *)
(* ever with gCacheMutex taken.                                              *)
CallsEnd == calls # <<>> ~> calls = <<>> \/ crashed

(* Counts and references together, at every depth of nested calls. *)
CompositeInv == CompositeTypeOK /\ CountsExact /\ NoDanglingRef
===============================================================================

-------------------------------- MODULE MCCaches --------------------------------
(* The unified cache twice: used by several threads (UnifiedCache), or by    *)
(* one whose values refer to each other (CompositeCache).                    *)
EXTENDS MCUnifiedCache, CompositeCache

VARIABLE part

CachesInit ==
  \/ part = "threads"    /\ Init /\ CompositeInit /\ unused = 0 /\ \A k \in Slot : refs[k] = {}
  \/ part = "references" /\ Init /\ CompositeInit /\ policy = <<0, 0>>

(* The cache with references is closed, or was found broken. *)
Stopped == /\ part = "references" /\ (phase = "closed" \/ crashed)
           /\ UNCHANGED <<part, vars, compositeVars>>

CachesNext ==
  \/ part = "threads"    /\ Next          /\ UNCHANGED <<part, compositeVars>>
  \/ part = "references" /\ CompositeNext /\ UNCHANGED <<part, vars>>
  \/ Stopped

CachesSpec == /\ CachesInit /\ [][CachesNext]_<<part, vars, compositeVars>>
              /\ Fairness /\ CompositeFairness
===============================================================================

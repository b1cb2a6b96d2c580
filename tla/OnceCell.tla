------------------------------- MODULE OnceCell -------------------------------
(***************************************************************************)
(* What one-time initialisation promises its callers.  The outcome is not  *)
(* known until one caller has worked it out; from then on it stays, until  *)
(* the cell is cleared while nobody uses it, and a call that returns hands *)
(* its caller that outcome.  A caller that comes with an error of its own  *)
(* is sent back with it.                                                   *)
(***************************************************************************)
CONSTANTS Thread, Error,     \* callers; the failures an initialisation can have
          Ok, Unknown        \* its success; no outcome yet

VARIABLES outcome,           \* what the initialisation came to
          call               \* of each thread: "out", "in", or what it was told

cellVars == <<outcome, call>>

CellInit == /\ outcome = Unknown
            /\ call = [t \in Thread |-> "out"]

Enter(t) == /\ call[t] = "out"
            /\ call' = [call EXCEPT ![t] = "in"]
            /\ UNCHANGED outcome

Refuse(t) == /\ call[t] = "out"
             /\ \E e \in Error : call' = [call EXCEPT ![t] = e]
             /\ UNCHANGED outcome

Decide(t) == /\ call[t] = "in" /\ outcome = Unknown
             /\ outcome' \in Error \cup {Ok}
             /\ UNCHANGED call

Tell(t) == /\ call[t] = "in" /\ outcome # Unknown
           /\ call' = [call EXCEPT ![t] = outcome]
           /\ UNCHANGED outcome

Leave(t) == /\ call[t] \in Error \cup {Ok}
            /\ call' = [call EXCEPT ![t] = "out"]
            /\ UNCHANGED outcome

Clear == /\ \A t \in Thread : call[t] = "out"
         /\ outcome' = Unknown
         /\ UNCHANGED call

CellNext == \/ \E t \in Thread : Enter(t) \/ Refuse(t) \/ Decide(t) \/ Tell(t) \/ Leave(t)
            \/ Clear

CellSpec == CellInit /\ [][CellNext]_cellVars
===============================================================================

-------------------------------- MODULE MCUMutex --------------------------------
(* What umutex.h and umutex.cpp build on the Windows API, one at a time:     *)
(* one-time initialisation (UInitOnce) or the condition variable             *)
(* (UConditionVar).                                                          *)
EXTENDS UInitOnce, UConditionVar

VARIABLE part

UMutexInit == part \in {"once", "gates"} /\ Init /\ GateInit

(* Every thread sleeps, and nobody is left to broadcast. *)
AllAsleep == /\ part = "gates" /\ \A t \in Waiter : at[t] = "inEntry"
             /\ UNCHANGED <<part, vars, gateVars>>

UMutexNext ==
  \/ part = "once"  /\ Next     /\ UNCHANGED <<part, gateVars>>
  \/ part = "gates" /\ GateNext /\ UNCHANGED <<part, vars>>
  \/ AllAsleep

UMutexSpec == /\ UMutexInit /\ [][UMutexNext]_<<part, vars, gateVars>>
              /\ InitOnceFairness /\ GateFairness
===============================================================================

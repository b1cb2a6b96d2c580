------------------------------- MODULE CondVar -------------------------------
(***************************************************************************)
(* What a condition variable and its mutex promise: a thread that waits    *)
(* gives the mutex up and has it again when the wait returns; a broadcast  *)
(* wakes every thread that waits at that moment; and a thread may also be  *)
(* woken for no reason, so callers test their condition in a loop.         *)
(***************************************************************************)
CONSTANTS Thread, Nobody

VARIABLES owner,     \* of the mutex
          sleep      \* of each thread: "no", "waiting" or "woken"

condVars == <<owner, sleep>>

CInit == owner = Nobody /\ sleep = [t \in Thread |-> "no"]

CLock(t) == /\ owner = Nobody /\ sleep[t] = "no"
            /\ owner' = t /\ UNCHANGED sleep

CUnlock(t) == owner = t /\ owner' = Nobody /\ UNCHANGED sleep

CWait(t) == /\ owner = t
            /\ owner' = Nobody
            /\ sleep' = [sleep EXCEPT ![t] = "waiting"]

CBroadcast(t) == /\ owner = t
                 /\ sleep' = [u \in Thread |-> IF sleep[u] = "waiting" THEN "woken" ELSE sleep[u]]
                 /\ UNCHANGED owner

CSpurious(t) == /\ sleep[t] = "waiting"
                /\ sleep' = [sleep EXCEPT ![t] = "woken"]
                /\ UNCHANGED owner

CResume(t) == /\ owner = Nobody /\ sleep[t] = "woken"
              /\ owner' = t
              /\ sleep' = [sleep EXCEPT ![t] = "no"]

CNext == \E t \in Thread : \/ CLock(t) \/ CUnlock(t) \/ CWait(t) \/ CBroadcast(t)
                           \/ CSpurious(t) \/ CResume(t)

CSpec == CInit /\ [][CNext]_condVars
===============================================================================

---------------------------- MODULE UConditionVar ----------------------------
(***************************************************************************)
(* ICU's condition variable for Windows (umutex.cpp): two manual-reset     *)
(* events, the entry and the exit gate, and a count of the threads between *)
(* the start of umtx_condWait and the re-acquisition of the mutex behind   *)
(* the entry gate.  The last of those shuts the entry gate and lets those  *)
(* before it through the exit gate.                                        *)
(*                                                                         *)
(* The events and the critical section are external: WaitForSingleObject   *)
(* on an open gate passes, on a shut one blocks, and SetEvent releases all *)
(* threads that are blocked at that moment.                                *)
(***************************************************************************)
EXTENDS Integers, FiniteSets

CONSTANTS Waiter,    \* threads that use the condition variable and its mutex
          Nobody

ASSUME ThreadAssumption == IsFiniteSet(Waiter) /\ Nobody \notin Waiter

VARIABLES
  mutex,       \* owner of the associated mutex
  entryGate,   \* fEntryGate is signalled; also FALSE while it is NULL
  exitGate,    \* fExitGate is signalled; TRUE from CreateEvent on
  fWaitCount,
  at,          \* where each thread is
  owed         \* history: threads a broadcast found waiting and that still wait

gateVars == <<mutex, entryGate, exitGate, fWaitCount, at, owed>>

AtEntry   == {"toEntry", "inEntry"}             \* not woken yet
Counted   == AtEntry \cup {"behindEntry"}
AtExit    == {"toExit", "inExit", "behindExit"}
Holding   == {"critical", "broadcast", "shut", "open"}
CountedThreads == {t \in Waiter : at[t] \in Counted}

GateTypeOK ==
  /\ mutex \in Waiter \cup {Nobody}
  /\ entryGate \in BOOLEAN /\ exitGate \in BOOLEAN
  /\ fWaitCount \in Nat
  /\ at \in [Waiter -> {"out"} \cup Counted \cup AtExit \cup Holding]
  /\ owed \subseteq Waiter

GateInit ==
  /\ mutex = Nobody
  /\ entryGate = FALSE /\ exitGate = TRUE
  /\ fWaitCount = 0
  /\ at = [t \in Waiter |-> "out"]
  /\ owed = {}

Move(t, l) == at' = [at EXCEPT ![t] = l]

(* SetEvent on a gate: the threads blocked there are past it. *)
Release(inside, behind, p) == [u \in Waiter |-> IF p[u] = inside THEN behind ELSE p[u]]

-------------------------------------------------------------------------------
Lock(t) ==                              \* umtx_lock by a caller
  /\ at[t] = "out" /\ mutex = Nobody
  /\ mutex' = t
  /\ Move(t, "critical")
  /\ UNCHANGED <<entryGate, exitGate, fWaitCount, owed>>

Unlock(t) ==
  /\ at[t] = "critical"
  /\ mutex' = Nobody
  /\ Move(t, "out")
  /\ UNCHANGED <<entryGate, exitGate, fWaitCount, owed>>

(* Mutant: the exit gate stays as it is. *)
BroadcastKeepsExit(t) ==
  /\ at[t] = "critical" /\ fWaitCount # 0
  /\ Move(t, "broadcast")
  /\ UNCHANGED <<mutex, entryGate, exitGate, fWaitCount, owed>>

(* Mutant: a broadcast also when nobody waits. *)
BroadcastAlways(t) ==
  /\ at[t] = "critical"
  /\ exitGate' = FALSE
  /\ Move(t, "broadcast")
  /\ UNCHANGED <<mutex, entryGate, fWaitCount, owed>>

(* umtx_condBroadcast: nothing to do without waiting threads, else           *)
(* ResetEvent on the exit gate ...                                           *)
Broadcast(t) ==
  /\ at[t] = "critical" /\ fWaitCount # 0
  /\ exitGate' = FALSE
  /\ Move(t, "broadcast")
  /\ UNCHANGED <<mutex, entryGate, fWaitCount, owed>>

(* Mutant: PulseEvent, which releases the blocked threads and shuts the gate *)
(* again.                                                                    *)
PulseEntryGate(t) ==
  /\ at[t] = "broadcast"
  /\ at' = [Release("inEntry", "behindEntry", at) EXCEPT ![t] = "critical"]
  /\ owed' = owed \cup {u \in Waiter : at[u] \in AtEntry}
  /\ UNCHANGED <<mutex, entryGate, exitGate, fWaitCount>>

(* ... and SetEvent on the entry gate.                                       *)
SetEntryGate(t) ==
  /\ at[t] = "broadcast"
  /\ entryGate' = TRUE
  /\ at' = [Release("inEntry", "behindEntry", at) EXCEPT ![t] = "critical"]
  /\ owed' = owed \cup {u \in Waiter : at[u] \in AtEntry}
  /\ UNCHANGED <<mutex, exitGate, fWaitCount>>

(* umtx_condWait up to umtx_unlock; the first call creates the gates.        *)
CondWait(t) ==
  /\ at[t] = "critical"
  /\ fWaitCount' = fWaitCount + 1
  /\ mutex' = Nobody
  /\ Move(t, "toEntry")
  /\ UNCHANGED <<entryGate, exitGate, owed>>

WaitEntryGate(t) ==
  /\ at[t] = "toEntry"
  /\ Move(t, IF entryGate THEN "behindEntry" ELSE "inEntry")
  /\ UNCHANGED <<mutex, entryGate, exitGate, fWaitCount, owed>>

(* umtx_lock, the decrement and its test; all but the last unlock again.     *)
Relock(t) ==
  /\ at[t] = "behindEntry" /\ mutex = Nobody
  /\ fWaitCount' = fWaitCount - 1
  /\ IF fWaitCount = 1
     THEN mutex' = t /\ Move(t, "shut")
     ELSE UNCHANGED mutex /\ Move(t, "toExit")
  /\ UNCHANGED <<entryGate, exitGate, owed>>

ResetEntryGate(t) ==
  /\ at[t] = "shut"
  /\ entryGate' = FALSE
  /\ Move(t, "open")
  /\ UNCHANGED <<mutex, exitGate, fWaitCount, owed>>

(* Mutant: the threads at the exit gate are forgotten. *)
ExitGateForgotten(t) ==
  /\ at[t] = "open"
  /\ Move(t, "critical")
  /\ owed' = owed \ {t}
  /\ UNCHANGED <<mutex, entryGate, exitGate, fWaitCount>>

SetExitGate(t) ==                       \* and umtx_condWait returns
  /\ at[t] = "open"
  /\ exitGate' = TRUE
  /\ at' = [Release("inExit", "behindExit", at) EXCEPT ![t] = "critical"]
  /\ owed' = owed \ {t}
  /\ UNCHANGED <<mutex, entryGate, fWaitCount>>

WaitExitGate(t) ==
  /\ at[t] = "toExit"
  /\ Move(t, IF exitGate THEN "behindExit" ELSE "inExit")
  /\ UNCHANGED <<mutex, entryGate, exitGate, fWaitCount, owed>>

(* Mutant: the caller's mutex is not waited for. *)
ReturnWithoutLock(t) ==
  /\ at[t] = "behindExit"
  /\ mutex' = t
  /\ Move(t, "critical")
  /\ owed' = owed \ {t}
  /\ UNCHANGED <<entryGate, exitGate, fWaitCount>>

RelockBehindExit(t) ==                  \* and umtx_condWait returns
  /\ at[t] = "behindExit" /\ mutex = Nobody
  /\ mutex' = t
  /\ Move(t, "critical")
  /\ owed' = owed \ {t}
  /\ UNCHANGED <<entryGate, exitGate, fWaitCount>>

GateNext == \E t \in Waiter :
  \/ Lock(t) \/ Unlock(t) \/ Broadcast(t) \/ SetEntryGate(t) \/ CondWait(t)
  \/ WaitEntryGate(t) \/ Relock(t) \/ ResetEntryGate(t) \/ SetExitGate(t)
  \/ WaitExitGate(t) \/ RelockBehindExit(t)

GateSpec == GateInit /\ [][GateNext]_gateVars

(* Threads keep running, a thread that keeps finding the mutex free gets it, *)
(* and no caller keeps the mutex.  Nobody has to broadcast.                  *)
GateFairness == \A t \in Waiter :
  /\ WF_gateVars(SetEntryGate(t)) /\ WF_gateVars(WaitEntryGate(t)) /\ WF_gateVars(ResetEntryGate(t))
  /\ WF_gateVars(SetExitGate(t)) /\ WF_gateVars(WaitExitGate(t))
  /\ SF_gateVars(Relock(t)) /\ SF_gateVars(RelockBehindExit(t)) /\ SF_gateVars(Unlock(t))

-------------------------------------------------------------------------------
(* The mutex and the counter say what the comment of umtx_condBroadcast      *)
(* relies on ("access to fWaitCount is protected and safe").                 *)
CountInv ==
  /\ \A t \in Waiter : at[t] \in Holding <=> mutex = t
  /\ fWaitCount = Cardinality(CountedThreads)
  /\ \A t \in Waiter : at[t] = "broadcast" => fWaitCount > 0
  /\ \A t \in Waiter : at[t] \in {"shut", "open"} => fWaitCount = 0
  /\ \A t \in owed : at[t] \in Counted \cup AtExit \cup {"shut", "open"}

(* A shut exit gate never strands a thread: until it opens there is a thread *)
(* on its way to open it, behind an entry gate that is open.  A shut entry   *)
(* gate has an open exit gate and lets nobody through, and no thread sleeps  *)
(* at an open gate.                                                          *)
NobodyStranded ==
  /\ ~exitGate => \/ entryGate /\ fWaitCount > 0
                  \/ \E t \in Waiter : at[t] \in {"broadcast", "shut", "open"}
  /\ entryGate => fWaitCount > 0 \/ \E t \in Waiter : at[t] = "shut"
  /\ entryGate => \A t \in Waiter : at[t] # "inEntry"
  /\ exitGate => \A t \in Waiter : at[t] # "inExit"
  /\ ~entryGate => \A t \in Waiter : at[t] # "behindEntry"
  /\ \A t \in Waiter : at[t] = "broadcast" => ~exitGate
  /\ \A t \in Waiter : at[t] = "shut" => entryGate

(* A broadcast wakes every thread that waits: it passes both gates and gets  *)
(* the mutex back, whatever other threads wait and broadcast meanwhile.      *)
BroadcastWakes == \A t \in Waiter : t \in owed ~> t \notin owed

(* The two gates make a condition variable: they implement CondVar.          *)
Asleep(t) == at[t] \in AtEntry /\ t \notin owed
Waking(t) == at[t] \in Counted \cup AtExit \cup {"shut", "open"} /\ ~Asleep(t)

Condition == INSTANCE CondVar WITH
  Thread <- Waiter,
  owner <- IF \E t \in Waiter : at[t] \in {"shut", "open"} THEN Nobody ELSE mutex,
  sleep <- [t \in Waiter |-> IF Asleep(t) THEN "waiting" ELSE IF Waking(t) THEN "woken" ELSE "no"]
ImplementsCondVar == Condition!CSpec
===============================================================================

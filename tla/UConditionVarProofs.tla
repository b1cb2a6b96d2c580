-------------------------- MODULE UConditionVarProofs --------------------------
(***************************************************************************)
(* For any finite set of threads: the two gates and the counter of the     *)
(* Windows condition variable strand nobody, and they implement CondVar.   *)
(***************************************************************************)
EXTENDS UConditionVar, FiniteSetTheorems, TLAPS

(* The gates are right only as long as the counter is. *)
Inv == GateTypeOK /\ CountInv /\ NobodyStranded

(* The counter counts: nobody between the gates means zero, and conversely. *)
LEMMA CountedFinite ==
  /\ IsFiniteSet(CountedThreads)
  /\ Cardinality(CountedThreads) \in Nat
  /\ Cardinality(CountedThreads) = 0 <=> CountedThreads = {}
<1>1. CountedThreads \subseteq Waiter
      BY DEF CountedThreads
<1>2. IsFiniteSet(CountedThreads)
      BY <1>1, FS_Subset, ThreadAssumption
<1> QED BY <1>2, FS_CardinalityType, FS_EmptySet

(* At the start nobody waits: the entry gate is shut and the exit gate open. *)
LEMMA InitInv == GateInit => Inv
<1> SUFFICES ASSUME GateInit PROVE Inv
    OBVIOUS
<1>1. CountedThreads = {}
      BY DEF GateInit, CountedThreads, Counted, AtEntry
<1>2. Cardinality(CountedThreads) = 0
      BY <1>1, FS_EmptySet
<1> QED BY <1>2, ThreadAssumption
        DEF GateInit, Inv, GateTypeOK, CountInv, NobodyStranded, Counted, AtEntry, AtExit, Holding

(* The three conjuncts of Inv are preserved together.  Only CondWait and     *)
(* Relock change the set of threads that are counted.                        *)
LEMMA InvStep == Inv /\ [GateNext]_gateVars => Inv'
<1> SUFFICES ASSUME Inv, [GateNext]_gateVars PROVE Inv'
    OBVIOUS
<1>b. Cardinality(CountedThreads) \in Nat /\ (fWaitCount = 0 <=> CountedThreads = {})
      BY CountedFinite DEF Inv, CountInv
<1>c. \A t \in Waiter : at[t] \in Counted => fWaitCount > 0
      BY <1>b DEF Inv, GateTypeOK, CountedThreads
<1> USE ThreadAssumption DEF Inv, GateTypeOK, Counted, AtEntry, AtExit, Holding, Move
<1>same. ASSUME CountedThreads' = CountedThreads, UNCHANGED fWaitCount
         PROVE  fWaitCount' = Cardinality(CountedThreads')
         BY <1>same DEF CountInv
<1>0. CASE UNCHANGED gateVars
  <2>1. CountedThreads' = CountedThreads
        BY <1>0 DEF gateVars, CountedThreads
  <2>2. GateTypeOK'
        BY <1>0 DEF gateVars
  <2>3. CountInv'
        BY <1>0, <2>1, <1>same DEF gateVars, CountInv
  <2>4. NobodyStranded'
        BY <1>0 DEF gateVars, CountInv, NobodyStranded
  <2> QED BY <2>2, <2>3, <2>4
<1>1. ASSUME NEW t \in Waiter, Lock(t) PROVE Inv'
  <2>1. CountedThreads' = CountedThreads
        BY <1>1 DEF Lock, CountedThreads
  <2>2. GateTypeOK'
        BY <1>1 DEF Lock
  <2>3. CountInv'
        BY <1>1, <2>1, <1>same DEF Lock, CountInv
  <2>4. NobodyStranded'
        BY <1>1 DEF Lock, CountInv, NobodyStranded
  <2> QED BY <2>2, <2>3, <2>4
<1>2. ASSUME NEW t \in Waiter, Unlock(t) PROVE Inv'
  <2>1. CountedThreads' = CountedThreads
        BY <1>2 DEF Unlock, CountedThreads
  <2>2. GateTypeOK'
        BY <1>2 DEF Unlock
  <2>3. CountInv'
        BY <1>2, <2>1, <1>same DEF Unlock, CountInv
  <2>4. NobodyStranded'
        BY <1>2 DEF Unlock, CountInv, NobodyStranded
  <2> QED BY <2>2, <2>3, <2>4
<1>3. ASSUME NEW t \in Waiter, Broadcast(t) PROVE Inv'
  <2>1. CountedThreads' = CountedThreads
        BY <1>3 DEF Broadcast, CountedThreads
  <2>2. GateTypeOK'
        BY <1>3 DEF Broadcast
  <2>3. CountInv'
        BY <1>3, <2>1, <1>same DEF Broadcast, CountInv
  <2>4. NobodyStranded'
        BY <1>3 DEF Broadcast, CountInv, NobodyStranded
  <2> QED BY <2>2, <2>3, <2>4
<1>4. ASSUME NEW t \in Waiter, SetEntryGate(t) PROVE Inv'
  <2>1. CountedThreads' = CountedThreads
        BY <1>4 DEF SetEntryGate, Release, CountedThreads
  <2>2. GateTypeOK'
        BY <1>4 DEF SetEntryGate, Release
  <2>3. CountInv'
        BY <1>4, <2>1, <1>same DEF SetEntryGate, Release, CountInv
  <2>4. NobodyStranded'
        BY <1>4 DEF SetEntryGate, Release, CountInv, NobodyStranded
  <2> QED BY <2>2, <2>3, <2>4
<1>5. ASSUME NEW t \in Waiter, CondWait(t) PROVE Inv'
  <2>1. CountedThreads' = CountedThreads \cup {t} /\ t \notin CountedThreads
        BY <1>5 DEF CondWait, CountedThreads
  <2>2. Cardinality(CountedThreads') = Cardinality(CountedThreads) + 1
        BY <2>1, CountedFinite, FS_AddElement
  <2>3. fWaitCount' = Cardinality(CountedThreads')
        BY <1>5, <2>2 DEF CondWait, CountInv
  <2>4. GateTypeOK'
        BY <1>5 DEF CondWait
  <2>5. CountInv'
        BY <1>5, <2>3 DEF CondWait, CountInv
  <2>6. NobodyStranded'
        BY <1>5 DEF CondWait, CountInv, NobodyStranded
  <2> QED BY <2>4, <2>5, <2>6
<1>6. ASSUME NEW t \in Waiter, WaitEntryGate(t) PROVE Inv'
  <2>1. CountedThreads' = CountedThreads
        BY <1>6 DEF WaitEntryGate, CountedThreads
  <2>2. GateTypeOK'
        BY <1>6 DEF WaitEntryGate
  <2>3. CountInv'
        BY <1>6, <2>1, <1>same DEF WaitEntryGate, CountInv
  <2>4. NobodyStranded'
        BY <1>6 DEF WaitEntryGate, CountInv, NobodyStranded
  <2> QED BY <2>2, <2>3, <2>4
<1>7. ASSUME NEW t \in Waiter, Relock(t) PROVE Inv'
  <2>1. CountedThreads' = CountedThreads \ {t} /\ t \in CountedThreads
        BY <1>7 DEF Relock, CountedThreads
  <2>2. Cardinality(CountedThreads') = Cardinality(CountedThreads) - 1
        BY <2>1, CountedFinite, FS_RemoveElement
  <2>3. fWaitCount' = Cardinality(CountedThreads') /\ fWaitCount > 0
        BY <1>7, <2>2, <1>c DEF Relock, CountInv
  <2>4. GateTypeOK'
        BY <1>7, <2>3 DEF Relock
  <2>5. CountInv'
        BY <1>7, <2>3 DEF Relock, CountInv
  <2>6. NobodyStranded'
        BY <1>7, <2>3 DEF Relock, CountInv, NobodyStranded
  <2> QED BY <2>4, <2>5, <2>6
<1>8. ASSUME NEW t \in Waiter, ResetEntryGate(t) PROVE Inv'
  <2>1. CountedThreads' = CountedThreads
        BY <1>8 DEF ResetEntryGate, CountedThreads
  <2>2. GateTypeOK'
        BY <1>8 DEF ResetEntryGate
  <2>3. CountInv'
        BY <1>8, <2>1, <1>same DEF ResetEntryGate, CountInv
  <2>4. NobodyStranded'
        BY <1>8, <1>c DEF ResetEntryGate, CountInv, NobodyStranded
  <2> QED BY <2>2, <2>3, <2>4
<1>9. ASSUME NEW t \in Waiter, SetExitGate(t) PROVE Inv'
  <2>1. CountedThreads' = CountedThreads
        BY <1>9 DEF SetExitGate, Release, CountedThreads
  <2>2. GateTypeOK'
        BY <1>9 DEF SetExitGate, Release
  <2>3. CountInv'
        BY <1>9, <2>1, <1>same DEF SetExitGate, Release, CountInv
  <2>4. NobodyStranded'
        BY <1>9 DEF SetExitGate, Release, CountInv, NobodyStranded
  <2> QED BY <2>2, <2>3, <2>4
<1>10. ASSUME NEW t \in Waiter, WaitExitGate(t) PROVE Inv'
  <2>1. CountedThreads' = CountedThreads
        BY <1>10 DEF WaitExitGate, CountedThreads
  <2>2. GateTypeOK'
        BY <1>10 DEF WaitExitGate
  <2>3. CountInv'
        BY <1>10, <2>1, <1>same DEF WaitExitGate, CountInv
  <2>4. NobodyStranded'
        BY <1>10 DEF WaitExitGate, CountInv, NobodyStranded
  <2> QED BY <2>2, <2>3, <2>4
<1>11. ASSUME NEW t \in Waiter, RelockBehindExit(t) PROVE Inv'
  <2>1. CountedThreads' = CountedThreads
        BY <1>11 DEF RelockBehindExit, CountedThreads
  <2>2. GateTypeOK'
        BY <1>11 DEF RelockBehindExit
  <2>3. CountInv'
        BY <1>11, <2>1, <1>same DEF RelockBehindExit, CountInv
  <2>4. NobodyStranded'
        BY <1>11 DEF RelockBehindExit, CountInv, NobodyStranded
  <2> QED BY <2>2, <2>3, <2>4
<1> QED BY <1>0, <1>1, <1>2, <1>3, <1>4, <1>5, <1>6, <1>7, <1>8, <1>9, <1>10, <1>11
        DEF GateNext

(* Inv holds in every reachable state. *)
THEOREM Invariant == GateSpec => []Inv
<1> QED BY InitInv, InvStep, PTL DEF GateSpec

(* CountInv: fWaitCount is protected by the mutex and counts who waits.      *)
THEOREM CountHolds == GateSpec => []CountInv
<1>1. Inv => CountInv
      BY DEF Inv
<1> QED BY <1>1, Invariant, PTL

(* NobodyStranded: while the exit gate is shut, somebody will open it.       *)
THEOREM NobodyStrandedHolds == GateSpec => []NobodyStranded
<1>1. Inv => NobodyStranded
      BY DEF Inv
<1> QED BY <1>1, Invariant, PTL

(* ImplementsCondVar: a broadcast takes effect when the entry gate opens, a  *)
(* wait ends with the mutex when the exit gate has been opened or passed,    *)
(* and a thread that meets an open entry gate wakes for no reason.           *)
THEOREM Refinement == GateSpec => ImplementsCondVar
<1> USE ThreadAssumption
<1> DEFINE asleep == [t \in Waiter |-> IF Asleep(t) THEN "waiting"
                                       ELSE IF Waking(t) THEN "woken" ELSE "no"]
           own    == IF \E t \in Waiter : at[t] \in {"shut", "open"} THEN Nobody ELSE mutex
<1>1. GateInit => Condition!CInit
      BY DEF GateInit, Condition!CInit, Asleep, Waking, AtEntry, Counted, AtExit
<1>2. ASSUME Inv, Inv', [GateNext]_gateVars PROVE [Condition!CNext]_(Condition!condVars)
  <2> USE <1>2 DEF Inv, GateTypeOK, CountInv, Counted, AtEntry, AtExit, Holding, Move
  <2>a. \A t \in Waiter : at[t] = "critical" => own = t
        OBVIOUS
  <2>b. mutex = Nobody => own = Nobody
        OBVIOUS
  <2>0. CASE UNCHANGED gateVars
        BY <2>0 DEF gateVars, Condition!condVars, Asleep, Waking
  <2>1. ASSUME NEW t \in Waiter, Lock(t) PROVE Condition!CNext
    <3>1. own = Nobody /\ own' = t
          BY <2>1, <2>b DEF Lock
    <3>2. asleep' = asleep /\ asleep[t] = "no"
          BY <2>1 DEF Lock, Asleep, Waking
    <3>3. Condition!CLock(t)
          BY <3>1, <3>2 DEF Condition!CLock
    <3> QED BY <3>3 DEF Condition!CNext
  <2>2. ASSUME NEW t \in Waiter, Unlock(t) PROVE Condition!CNext
    <3>1. own = t /\ own' = Nobody
          BY <2>2, <2>a DEF Unlock
    <3>2. asleep' = asleep
          BY <2>2 DEF Unlock, Asleep, Waking
    <3>3. Condition!CUnlock(t)
          BY <3>1, <3>2 DEF Condition!CUnlock
    <3> QED BY <3>3 DEF Condition!CNext
  <2>3. ASSUME NEW t \in Waiter, Broadcast(t) \/ Relock(t) \/ ResetEntryGate(t) \/ WaitExitGate(t)
        PROVE  UNCHANGED Condition!condVars
    <3>1. own' = own
          BY <2>3 DEF Broadcast, Relock, ResetEntryGate, WaitExitGate
    <3>2. asleep' = asleep
          BY <2>3 DEF Broadcast, Relock, ResetEntryGate, WaitExitGate, Asleep, Waking
    <3> QED BY <3>1, <3>2 DEF Condition!condVars
  <2>4. ASSUME NEW t \in Waiter, SetEntryGate(t) PROVE Condition!CNext
    <3>1. own = t /\ own' = own
          BY <2>4 DEF SetEntryGate, Release
    <3>2. asleep' = [u \in Waiter |-> IF asleep[u] = "waiting" THEN "woken" ELSE asleep[u]]
          BY <2>4 DEF SetEntryGate, Release, Asleep, Waking
    <3>3. Condition!CBroadcast(t)
          BY <3>1, <3>2 DEF Condition!CBroadcast
    <3> QED BY <3>3 DEF Condition!CNext
  <2>5. ASSUME NEW t \in Waiter, CondWait(t) PROVE Condition!CNext
    <3>1. own = t /\ own' = Nobody
          BY <2>5, <2>a DEF CondWait
    <3>2. asleep' = [asleep EXCEPT ![t] = "waiting"]
          BY <2>5 DEF CondWait, Asleep, Waking
    <3>3. Condition!CWait(t)
          BY <3>1, <3>2 DEF Condition!CWait
    <3> QED BY <3>3 DEF Condition!CNext
  <2>6. ASSUME NEW t \in Waiter, WaitEntryGate(t)
        PROVE  Condition!CNext \/ UNCHANGED Condition!condVars
    <3>1. own' = own
          BY <2>6 DEF WaitEntryGate
    <3>2. CASE entryGate /\ t \notin owed
      <4>1. asleep' = [asleep EXCEPT ![t] = "woken"] /\ asleep[t] = "waiting"
            BY <2>6, <3>2 DEF WaitEntryGate, Asleep, Waking
      <4>2. Condition!CSpurious(t)
            BY <3>1, <4>1 DEF Condition!CSpurious
      <4> QED BY <4>2 DEF Condition!CNext
    <3>3. CASE ~entryGate \/ t \in owed
      <4>1. asleep' = asleep
            BY <2>6, <3>3 DEF WaitEntryGate, Asleep, Waking
      <4> QED BY <3>1, <4>1 DEF Condition!condVars
    <3> QED BY <3>2, <3>3
  <2>7. ASSUME NEW t \in Waiter, SetExitGate(t) \/ RelockBehindExit(t) PROVE Condition!CNext
    <3>1. own = Nobody /\ own' = t
          BY <2>7 DEF SetExitGate, RelockBehindExit, Release
    <3>2. asleep' = [asleep EXCEPT ![t] = "no"] /\ asleep[t] = "woken"
          BY <2>7, ZenonT(40) DEF SetExitGate, RelockBehindExit, Release, Asleep, Waking
    <3>3. Condition!CResume(t)
          BY <3>1, <3>2 DEF Condition!CResume
    <3> QED BY <3>3 DEF Condition!CNext
  <2> QED BY <2>0, <2>1, <2>2, <2>3, <2>4, <2>5, <2>6, <2>7 DEF GateNext
<1> QED BY <1>1, <1>2, Invariant, PTL DEF GateSpec, ImplementsCondVar, Condition!CSpec
===============================================================================

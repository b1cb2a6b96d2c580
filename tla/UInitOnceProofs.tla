---------------------------- MODULE UInitOnceProofs ----------------------------
(***************************************************************************)
(* For any number of threads and any errors: umtx_initOnce runs the        *)
(* initialisation function once per reset, and implements OnceCell.        *)
(***************************************************************************)
EXTENDS UInitOnce, TLAPS

(* RunsOnce is inductive only together with who may be where for each state. *)
Inv == TypeOK /\ StateInv /\ RunsOnce

(* The three conjuncts of Inv are preserved together. *)
LEMMA InvStep == Inv /\ [Next]_vars => Inv'
<1> SUFFICES ASSUME Inv, [Next]_vars PROVE Inv'
    OBVIOUS
<1> USE ErrorAssumption DEF Inv, TypeOK, StateInv, RunsOnce, Goto, Codes, Running
<1>0. CASE UNCHANGED vars
      BY <1>0 DEF vars
<1>1. ASSUME NEW t \in Thread, Call(t) PROVE Inv'
  <2>1. PICK c \in Codes : errCode' = [errCode EXCEPT ![t] = c]
        BY <1>1 DEF Call
  <2> QED BY <1>1, <2>1 DEF Call
<1>2. ASSUME NEW t \in Thread, Load(t) PROVE Inv'
      BY <1>2 DEF Load
<1>3. ASSUME NEW t \in Thread, CompareExchange(t) PROVE Inv'
      BY <1>3 DEF CompareExchange
<1>4. ASSUME NEW t \in Thread, Spin(t) PROVE Inv'
      BY <1>4 DEF Spin
<1>5. ASSUME NEW t \in Thread, RunInit(t) PROVE Inv'
  <2>1. PICK c \in Codes : errCode' = [errCode EXCEPT ![t] = c] /\ epoch' = c
        BY <1>5 DEF RunInit
  <2> QED BY <1>5, <2>1 DEF RunInit
<1>6. ASSUME NEW t \in Thread, StoreErrCode(t) PROVE Inv'
      BY <1>6 DEF StoreErrCode
<1>7. ASSUME NEW t \in Thread, PostInit(t) PROVE Inv'
      BY <1>7 DEF PostInit
<1>8. ASSUME NEW t \in Thread, ReadErrCode(t) PROVE Inv'
      BY <1>8 DEF ReadErrCode
<1>9. ASSUME NEW t \in Thread, Return(t) PROVE Inv'
      BY <1>9 DEF Return
<1>10. CASE Reset
      BY <1>10 DEF Reset
<1> QED BY <1>0, <1>1, <1>2, <1>3, <1>4, <1>5, <1>6, <1>7, <1>8, <1>9, <1>10
        DEF Next, InitOnce

(* Inv holds in every reachable state. *)
THEOREM Invariant == Spec => []Inv
<1>1. Init => Inv
      BY ErrorAssumption DEF Init, Inv, TypeOK, StateInv, RunsOnce, Codes, Running
<1> QED BY <1>1, InvStep, PTL DEF Spec

(* StateInv: fState says who runs the function and who knows the outcome.   *)
THEOREM StateInvHolds == Spec => []StateInv
<1>1. Inv => StateInv
      BY DEF Inv
<1> QED BY <1>1, Invariant, PTL

(* RunsOnce: between two resets one thread runs the function, once. *)
THEOREM RunsOnceHolds == Spec => []RunsOnce
<1>1. Inv => RunsOnce
      BY DEF Inv
<1> QED BY <1>1, Invariant, PTL

(* EveryoneTold: callers see OnceCell.  The outcome is decided by RunInit;  *)
(* a caller is told by PostInit, if it ran the function, or by ReadErrCode, *)
(* and both hand out the outcome because fErrCode was stored before fState. *)
THEOREM Refinement == Spec => EveryoneTold
<1> USE ErrorAssumption
<1>1. Init => Cell!CellInit
      BY DEF Init, Cell!CellInit
<1>2. ASSUME Inv, [Next]_vars PROVE [Cell!CellNext]_(Cell!cellVars)
  <2> USE <1>2 DEF Inv, TypeOK, Codes, Running, Goto, Cell!cellVars
  <2> DEFINE Told(t) == IF pc[t] = "idle" THEN "out"
                        ELSE IF pc[t] = "done" THEN errCode[t] ELSE "in"
             told == [t \in Thread |-> Told(t)]
  <2>0. CASE UNCHANGED vars
        BY <2>0 DEF vars
  <2>1. ASSUME NEW t \in Thread, Call(t) PROVE Cell!CellNext
    <3>1. PICK c \in Codes : errCode' = [errCode EXCEPT ![t] = c]
          BY <2>1 DEF Call
    <3>2. told' = [told EXCEPT ![t] = IF c = Ok THEN "in" ELSE c]
          BY <2>1, <3>1 DEF Call
    <3>3. told[t] = "out" /\ UNCHANGED epoch
          BY <2>1 DEF Call
    <3>4. CASE c = Ok
      <4>1. Cell!Enter(t)
            BY <3>2, <3>3, <3>4 DEF Cell!Enter
      <4> QED BY <4>1 DEF Cell!CellNext
    <3>5. CASE c \in Error
      <4>1. Cell!Refuse(t)
            BY <3>2, <3>3, <3>5 DEF Cell!Refuse
      <4> QED BY <4>1 DEF Cell!CellNext
    <3> QED BY <3>4, <3>5
  <2>2. ASSUME NEW t \in Thread, Load(t) \/ CompareExchange(t) \/ Spin(t) \/ StoreErrCode(t)
        PROVE  UNCHANGED Cell!cellVars
        BY <2>2 DEF Load, CompareExchange, Spin, StoreErrCode
  <2>3. ASSUME NEW t \in Thread, RunInit(t) PROVE Cell!CellNext
    <3>1. PICK c \in Codes : errCode' = [errCode EXCEPT ![t] = c] /\ epoch' = c
          BY <2>3 DEF RunInit
    <3>2. told' = told /\ told[t] = "in" /\ epoch = "none"
          BY <2>3, <3>1 DEF RunInit, StateInv
    <3>3. Cell!Decide(t)
          BY <3>1, <3>2 DEF Cell!Decide
    <3> QED BY <3>3 DEF Cell!CellNext
  <2>4. ASSUME NEW t \in Thread, PostInit(t) PROVE Cell!CellNext
    <3>1. told' = [told EXCEPT ![t] = errCode[t]] /\ told[t] = "in"
          BY <2>4 DEF PostInit
    <3>2. epoch = errCode[t] /\ epoch # "none" /\ epoch' = epoch
          BY <2>4 DEF PostInit, StateInv
    <3>3. Cell!Tell(t)
          BY <3>1, <3>2 DEF Cell!Tell
    <3> QED BY <3>3 DEF Cell!CellNext
  <2>5. ASSUME NEW t \in Thread, ReadErrCode(t) PROVE Cell!CellNext
    <3>1. fState = 2 /\ epoch = fErrCode /\ errCode[t] = Ok /\ epoch' = epoch
          BY <2>5 DEF ReadErrCode, StateInv
    <3>2. told' = [told EXCEPT ![t] = fErrCode] /\ told[t] = "in"
          BY <2>5, <3>1 DEF ReadErrCode
    <3>3. Cell!Tell(t)
          BY <3>1, <3>2 DEF Cell!Tell
    <3> QED BY <3>3 DEF Cell!CellNext
  <2>6. ASSUME NEW t \in Thread, Return(t) PROVE Cell!CellNext
    <3>1. told' = [told EXCEPT ![t] = "out"] /\ told[t] \in Codes /\ epoch' = epoch
          BY <2>6 DEF Return
    <3>2. Cell!Leave(t)
          BY <3>1 DEF Cell!Leave
    <3> QED BY <3>2 DEF Cell!CellNext
  <2>7. CASE Reset
    <3>1. Cell!Clear
          BY <2>7 DEF Reset, Cell!Clear
    <3> QED BY <3>1 DEF Cell!CellNext
  <2> QED BY <2>0, <2>1, <2>2, <2>3, <2>4, <2>5, <2>6, <2>7 DEF Next, InitOnce
<1> QED BY <1>1, <1>2, Invariant, PTL DEF Spec, EveryoneTold, Cell!CellSpec
===============================================================================


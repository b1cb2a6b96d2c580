------------------------------- MODULE UInitOnce -------------------------------
(***************************************************************************)
(* umtx_initOnce (umutex.h) over the Windows umtx_initImplPreInit and      *)
(* umtx_initImplPostInit (umutex.cpp): threads call one initialisation     *)
(* function, the first to win the compare-exchange runs it, the others     *)
(* spin until it is done and copy its error.  Every access to fState and   *)
(* fErrCode is a step of its own.  u_cleanup resets the structure while no *)
(* other thread is in ICU, as uclean.h demands; it does not reset fErrCode. *)
(***************************************************************************)
EXTENDS Naturals

CONSTANTS Thread, Error,
          Ok                  \* U_ZERO_ERROR

ASSUME ErrorAssumption == /\ Ok \notin Error
                          /\ \A c \in Error \cup {Ok} : c \notin {"none", "out", "in"}

VARIABLES
  fState,     \* 0: not run, 1: running, 2: done
  fErrCode,   \* the error the initialisation ended with
  errCode,    \* each caller's errCode argument
  pc,         \* where each thread is
  epoch,      \* history: the outcome of the run since the last reset, or "none"
  runs        \* history: threads that ran the function since the last reset

vars == <<fState, fErrCode, errCode, pc, epoch, runs>>

Codes   == Error \cup {Ok}
Running == {"init", "store", "post"}

TypeOK ==
  /\ fState \in {0, 1, 2}
  /\ fErrCode \in Codes
  /\ errCode \in [Thread -> Codes]
  /\ pc \in [Thread -> {"idle", "load", "cas", "spin", "read", "done"} \cup Running]
  /\ epoch \in Codes \cup {"none"}
  /\ runs \subseteq Thread

Init ==
  /\ fState = 0 /\ fErrCode = Ok
  /\ errCode = [t \in Thread |-> Ok]
  /\ pc = [t \in Thread |-> "idle"]
  /\ epoch = "none" /\ runs = {}

Goto(t, l) == pc' = [pc EXCEPT ![t] = l]

(* umtx_initOnce; a caller that already has a failure returns at once. *)
Call(t) ==
  /\ pc[t] = "idle"
  /\ errCode' \in {[errCode EXCEPT ![t] = c] : c \in Codes}
  /\ Goto(t, IF errCode'[t] = Ok THEN "load" ELSE "done")
  /\ UNCHANGED <<fState, fErrCode, epoch, runs>>

Load(t) ==
  /\ pc[t] = "load"
  /\ Goto(t, IF fState = 2 THEN "read" ELSE "cas")
  /\ UNCHANGED <<fState, fErrCode, errCode, epoch, runs>>

(* Mutant: the state is read and written in two steps' worth of knowledge:   *)
(* whoever finds the initialisation unfinished runs it.                      *)
CompareExchangeNotExclusive(t) ==
  /\ pc[t] = "cas"
  /\ fState' = IF fState = 2 THEN 2 ELSE 1
  /\ Goto(t, IF fState = 2 THEN "read" ELSE "init")
  /\ UNCHANGED <<fErrCode, errCode, epoch, runs>>

(* umtx_initImplPreInit: InterlockedCompareExchange. *)
CompareExchange(t) ==
  /\ pc[t] = "cas"
  /\ fState' = IF fState = 0 THEN 1 ELSE fState
  /\ Goto(t, CASE fState = 0 -> "init" [] fState = 2 -> "read" [] fState = 1 -> "spin")
  /\ UNCHANGED <<fErrCode, errCode, epoch, runs>>

(* Sleep(1) until the state is no longer 1, then round the loop again. *)
Spin(t) ==
  /\ pc[t] = "spin" /\ fState # 1
  /\ Goto(t, "cas")
  /\ UNCHANGED <<fState, fErrCode, errCode, epoch, runs>>

(* The initialisation function, which sets the caller's error code. *)
RunInit(t) ==
  /\ pc[t] = "init"
  /\ \E c \in Codes : errCode' = [errCode EXCEPT ![t] = c] /\ epoch' = c
  /\ runs' = runs \cup {t}
  /\ Goto(t, "store")
  /\ UNCHANGED <<fState, fErrCode>>

(* Mutant: the error is kept only when there is one. *)
StoreOnlyFailure(t) ==
  /\ pc[t] = "store"
  /\ fErrCode' = IF errCode[t] = Ok THEN fErrCode ELSE errCode[t]
  /\ Goto(t, "post")
  /\ UNCHANGED <<fState, errCode, epoch, runs>>

StoreErrCode(t) ==
  /\ pc[t] = "store"
  /\ fErrCode' = errCode[t]
  /\ Goto(t, "post")
  /\ UNCHANGED <<fState, errCode, epoch, runs>>

(* Mutant: the state is never moved on. *)
PostInitForgotten(t) ==
  /\ pc[t] = "post"
  /\ Goto(t, "done")
  /\ UNCHANGED <<fState, fErrCode, errCode, epoch, runs>>

(* umtx_initImplPostInit. *)
PostInit(t) ==
  /\ pc[t] = "post"
  /\ fState' = 2
  /\ Goto(t, "done")
  /\ UNCHANGED <<fErrCode, errCode, epoch, runs>>

(* Someone else ran the initialisation: a failure of it is passed on. *)
ReadErrCode(t) ==
  /\ pc[t] = "read"
  /\ errCode' = [errCode EXCEPT ![t] = IF fErrCode # Ok THEN fErrCode ELSE @]
  /\ Goto(t, "done")
  /\ UNCHANGED <<fState, fErrCode, epoch, runs>>

Return(t) ==
  /\ pc[t] = "done"
  /\ Goto(t, "idle")
  /\ errCode' = [errCode EXCEPT ![t] = Ok]
  /\ UNCHANGED <<fState, fErrCode, epoch, runs>>

(* reset(), called by a cleanup function. *)
Reset ==
  /\ \A t \in Thread : pc[t] = "idle"
  /\ fState' = 0
  /\ epoch' = "none" /\ runs' = {}
  /\ UNCHANGED <<fErrCode, errCode, pc>>

InitOnce(t) == \/ Load(t) \/ CompareExchange(t) \/ Spin(t) \/ RunInit(t)
               \/ StoreErrCode(t) \/ PostInit(t) \/ ReadErrCode(t)

Next == \/ \E t \in Thread : Call(t) \/ InitOnce(t) \/ Return(t)
        \/ Reset

Spec == Init /\ [][Next]_vars

(* A thread in umtx_initOnce keeps running, and the function it runs ends. *)
InitOnceFairness == \A t \in Thread : WF_vars(InitOnce(t))

-------------------------------------------------------------------------------
(* Who is where for each value of fState, and which of them know the outcome. *)
StateInv ==
  /\ fState = 0 => epoch = "none" /\ runs = {} /\ \A t \in Thread : pc[t] \notin Running \cup {"read", "spin"}
  /\ fState = 1 => \E t \in Thread : pc[t] \in Running
  /\ fState = 2 => epoch = fErrCode /\ \A t \in Thread : pc[t] \notin Running
  /\ \A t \in Thread : pc[t] \in Running => fState = 1
  /\ \A t \in Thread : pc[t] = "read" => fState = 2
  /\ \A t \in Thread : pc[t] = "init" => epoch = "none" /\ runs = {}
  /\ \A t \in Thread : pc[t] \in {"store", "post"} => epoch = errCode[t] /\ runs = {t}
  /\ \A t \in Thread : pc[t] = "post" => epoch = fErrCode
  /\ \A t \in Thread : pc[t] \in {"idle", "load", "cas", "spin", "init", "read"} => errCode[t] = Ok

(* The initialisation function runs once, in one thread, between a reset and *)
(* the next, whatever the threads that arrive while it runs do.              *)
RunsOnce ==
  /\ \A t, u \in Thread : pc[t] \in Running /\ pc[u] \in Running => t = u
  /\ \A t, u \in runs : t = u
  /\ \A t \in Thread : pc[t] = "init" => runs = {}

(* Nobody goes on before the initialisation is complete, and everybody       *)
(* learns how it ended: umtx_initOnce implements OnceCell.                   *)
Cell == INSTANCE OnceCell WITH
          Unknown <- "none",
          outcome <- epoch,
          call    <- [t \in Thread |-> IF pc[t] = "idle" THEN "out"
                                      ELSE IF pc[t] = "done" THEN errCode[t] ELSE "in"]
EveryoneTold == Cell!CellSpec

(* A call ends once it has begun: no caller spins for ever.                  *)
CallsEnd == \A t \in Thread : pc[t] = "load" ~> pc[t] = "done"
===============================================================================

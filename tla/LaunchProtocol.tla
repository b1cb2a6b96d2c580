---------------------------- MODULE LaunchProtocol ----------------------------
(***************************************************************************)
(* What starting the search program promises its user.  A launch is        *)
(* pending until it either puts up a frame of its own, or ends because a   *)
(* program that was already up has taken its request over.  A request is   *)
(* taken over at most once, only from a launch that was made, and only by  *)
(* a program that has a frame of its own behind it; the launch may then    *)
(* still put up a frame, which is what happens when the answer is late.    *)
(***************************************************************************)
CONSTANT Proc
VARIABLE phase

aVars == phase

Phases == {"idle", "pending", "served", "joined", "up", "servedUp", "down"}

(* A program is a host while it has been up and has not gone down. *)
Up(p) == phase[p] \in {"up", "servedUp"}

AInit == phase = [p \in Proc |-> "idle"]

AStart(p) == /\ phase[p] = "idle"
             /\ phase' = [phase EXCEPT ![p] = "pending"]

AServe(p) ==
  /\ \E q \in Proc : q # p /\ Up(q)
  /\ \/ phase[p] = "pending" /\ phase' = [phase EXCEPT ![p] = "served"]
     \/ phase[p] = "up" /\ phase' = [phase EXCEPT ![p] = "servedUp"]

AJoin(p) == /\ phase[p] = "served"
            /\ phase' = [phase EXCEPT ![p] = "joined"]

AOpen(p) ==
  \/ phase[p] = "pending" /\ phase' = [phase EXCEPT ![p] = "up"]
  \/ phase[p] = "served" /\ phase' = [phase EXCEPT ![p] = "servedUp"]

ADown(p) == /\ phase[p] \in {"pending", "served"} \/ Up(p)
            /\ phase' = [phase EXCEPT ![p] = "down"]

ANext == \E p \in Proc :
           AStart(p) \/ AServe(p) \/ AJoin(p) \/ AOpen(p) \/ ADown(p)

ASpec == AInit /\ [][ANext]_aVars
===============================================================================

------------------------- MODULE SearchInstanceProofs -------------------------
(***************************************************************************)
(* For any number of launches: the invariants of SearchInstance, the three *)
(* properties an undisturbed start rests on, and that every behaviour of   *)
(* the processes is one that LaunchProtocol allows.                        *)
(***************************************************************************)
EXTENDS SearchInstance, TLAPS

USE NoProcAssumption

(* The types of all variables hold in every step of every process; the     *)
(* window a launch found is a process whenever the launch asks its owner.  *)
LEMMA TypeStep == TypeOK /\ [Next]_vars => TypeOK'
<1> SUFFICES ASSUME TypeOK, [Next]_vars PROVE TypeOK'
    OBVIOUS
<1> USE DEF TypeOK, Goto, Excuse, PCs, Attempting, Asking, Opening, Serving, Final
<1>0. CASE UNCHANGED vars
      BY <1>0 DEF vars, wndVars, mailVars
<1>1. ASSUME NEW p \in Proc, Notify(p) PROVE TypeOK'
  <2>1. CASE Find(p)
        BY <2>1 DEF Find, Windows, wndVars, mailVars
  <2>2. CASE GetOwner(p)
        BY <2>2 DEF GetOwner, wndVars
  <2>3. CASE Send(p)
        BY <2>3 DEF Send, wndVars
  <2>4. CASE Answered(p) \/ SendFails(p)
        BY <2>4 DEF Answered, SendFails, wndVars, mailVars
  <2>5. CASE SendTimesOut(p)
        BY <2>5 DEF SendTimesOut, wndVars
  <2> QED BY <1>1, <2>1, <2>2, <2>3, <2>4, <2>5 DEF Notify
<1>2. ASSUME NEW p \in Proc, Show(p) PROVE TypeOK'
  <2>1. CASE CreateFrame(p)
        BY <2>1 DEF CreateFrame, mailVars
  <2>2. CASE Refind(p) \/ FillList(p)
        BY <2>2 DEF Refind, FillList, wndVars, mailVars
  <2>3. CASE CreateMessageOnlyWindow(p)
    <3>1. /\ msgWnd' = [msgWnd EXCEPT ![p] = TRUE] \/ UNCHANGED msgWnd
          /\ excuse' \in {excuse, excuse \cup {"twins"}, excuse \cup {"nocreate"}}
          BY <2>3 DEF CreateMessageOnlyWindow
    <3>2. msgWnd' \in [Proc -> BOOLEAN]
          BY <3>1
    <3>3. excuse' \subseteq {"overlap", "timeout", "nocreate", "twins"}
          BY <3>1
    <3> HIDE DEF Excuse
    <3> QED BY <2>3, <3>2, <3>3 DEF CreateMessageOnlyWindow, mailVars
  <2> QED BY <1>2, <2>1, <2>2, <2>3 DEF Show
<1>3. ASSUME NEW p \in Proc, Loop(p) PROVE TypeOK'
  <2>1. ASSUME NEW s \in Proc, Deliver(p, s) PROVE TypeOK'
        BY <2>1 DEF Deliver
  <2>2. CASE DestroyFrame(p) \/ EndLoop(p)
        BY <2>2 DEF DestroyFrame, EndLoop, wndVars, mailVars
  <2>3. CASE Exit(p)
        BY <2>3 DEF Exit
  <2> QED BY <1>3, <2>1, <2>2, <2>3 DEF Loop
<1>4. ASSUME NEW p \in Proc, User(p) PROVE TypeOK'
  <2>1. CASE Launch(p)
    <3>1. PICK b \in BOOLEAN : named' = [named EXCEPT ![p] = b]
          BY <2>1 DEF Launch
    <3>2. named' \in [Proc -> BOOLEAN]
          BY <3>1
    <3> QED BY <2>1, <3>2 DEF Launch, wndVars, mailVars
  <2>2. CASE OnBtnMinimize(p) \/ OnBtnClose(p)
        BY <2>2 DEF OnBtnMinimize, OnBtnClose, mailVars
  <2>3. CASE Crash(p)
        BY <2>3 DEF Crash
  <2> QED BY <1>4, <2>1, <2>2, <2>3 DEF User
<1> QED BY <1>0, <1>1, <1>2, <1>3, <1>4 DEF Next

(* A frame is open only between Create and the end of the message loop, a  *)
(* message-only window exists from InitWidgetDialog until the process ends. *)
LEMMA FrameStep == TypeOK /\ FramesAndWindows /\ [Next]_vars => FramesAndWindows'
<1> SUFFICES ASSUME TypeOK, FramesAndWindows, [Next]_vars PROVE FramesAndWindows'
    OBVIOUS
<1> USE DEF TypeOK, FramesAndWindows, Goto, Attempting, Serving
<1>0. CASE UNCHANGED vars
      BY <1>0 DEF vars, wndVars, mailVars
<1>1. ASSUME NEW p \in Proc, Notify(p) PROVE FramesAndWindows'
      BY <1>1 DEF Notify, Find, GetOwner, Send, Answered, SendFails, SendTimesOut,
                  wndVars, mailVars
<1>2. ASSUME NEW p \in Proc, Show(p) PROVE FramesAndWindows'
  <2>1. CASE CreateFrame(p)
        BY <2>1 DEF CreateFrame, mailVars
  <2>2. CASE Refind(p) \/ FillList(p)
        BY <2>2 DEF Refind, FillList, wndVars, mailVars
  <2>3. CASE CreateMessageOnlyWindow(p)
        BY <2>3 DEF CreateMessageOnlyWindow, mailVars
  <2> QED BY <1>2, <2>1, <2>2, <2>3 DEF Show
<1>3. ASSUME NEW p \in Proc, Loop(p) PROVE FramesAndWindows'
  <2>1. CASE DestroyFrame(p)
        BY <2>1 DEF DestroyFrame, mailVars
  <2>2. CASE EndLoop(p)
        BY <2>2 DEF EndLoop, wndVars, mailVars
  <2>3. CASE Exit(p)
        BY <2>3 DEF Exit
  <2>4. CASE \E s \in Proc : Deliver(p, s)
        BY <2>4 DEF Deliver
  <2> QED BY <1>3, <2>1, <2>2, <2>3, <2>4 DEF Loop
<1>4. ASSUME NEW p \in Proc, User(p) PROVE FramesAndWindows'
  <2>1. CASE Launch(p)
        BY <2>1 DEF Launch, wndVars, mailVars
  <2>2. CASE OnBtnMinimize(p) \/ OnBtnClose(p)
        BY <2>2 DEF OnBtnMinimize, OnBtnClose, mailVars
  <2>3. CASE Crash(p)
        BY <2>3 DEF Crash
  <2> QED BY <1>4, <2>1, <2>2, <2>3 DEF User
<1> QED BY <1>0, <1>1, <1>2, <1>3, <1>4 DEF Next

(* What was ever unusual stays on record. *)
LEMMA ExcuseStep == [Next]_vars => excuse \subseteq excuse'
  BY DEF Next, Notify, Show, Loop, User, Launch, Find, GetOwner, Send, Answered,
         SendFails, SendTimesOut, CreateFrame, Refind, CreateMessageOnlyWindow,
         FillList, Deliver, OnBtnMinimize, OnBtnClose, DestroyFrame, EndLoop,
         Exit, Crash, Excuse, vars

(* While there is one window at a time, a launch grants the foreground only *)
(* to the program whose window that is, so the right stays where a request  *)
(* waits; a program whose window goes takes its requests with it.           *)
LEMMA GrantStep ==
  ASSUME TypeOK, FramesAndWindows, RequestInv, GrantInPlace, "twins" \notin excuse', Next
  PROVE  GrantInPlace'
<1> USE DEF TypeOK, FramesAndWindows, RequestInv, GrantInPlace, Goto, Attempting, Asking,
            Opening, Serving
<1>1. ASSUME NEW p \in Proc, Notify(p) PROVE GrantInPlace'
  <2>1. CASE Find(p)
        BY <2>1 DEF Find, Windows, wndVars, mailVars
  <2>2. CASE GetOwner(p)
        BY <2>2 DEF GetOwner, wndVars
  <2>3. CASE Send(p)
        BY <2>3 DEF Send, wndVars
  <2>4. CASE Answered(p) \/ SendFails(p)
        BY <2>4 DEF Answered, SendFails, wndVars, mailVars
  <2>5. CASE SendTimesOut(p)
    <3>1. /\ \A q, r \in Proc : q \in inbox'[r] => q \in inbox[r]
          /\ \A q \in Proc : pc'[q] = "send" => pc[q] = "send"
          /\ excuse \subseteq excuse'
          BY <2>5 DEF SendTimesOut, Excuse
    <3>2. UNCHANGED <<target, msgWnd, allowed, served>>
          BY <2>5 DEF SendTimesOut, wndVars
    <3> QED BY <3>1, <3>2
  <2> QED BY <1>1, <2>1, <2>2, <2>3, <2>4, <2>5 DEF Notify
<1>2. ASSUME NEW p \in Proc, Show(p) PROVE GrantInPlace'
  <2>1. CASE CreateFrame(p)
        BY <2>1 DEF CreateFrame, mailVars
  <2>2. CASE Refind(p) \/ FillList(p)
        BY <2>2 DEF Refind, FillList, Windows, wndVars, mailVars
  <2>3. CASE CreateMessageOnlyWindow(p)
        BY <2>3 DEF CreateMessageOnlyWindow, Windows, Excuse, mailVars
  <2> QED BY <1>2, <2>1, <2>2, <2>3 DEF Show
<1>3. ASSUME NEW p \in Proc, Loop(p) PROVE GrantInPlace'
  <2>1. CASE \E r \in Proc : Deliver(p, r)
        BY <2>1 DEF Deliver
  <2>2. CASE DestroyFrame(p) \/ EndLoop(p)
        BY <2>2 DEF DestroyFrame, EndLoop, wndVars, mailVars
  <2>3. CASE Exit(p)
        BY <2>3 DEF Exit
  <2> QED BY <1>3, <2>1, <2>2, <2>3 DEF Loop
<1>4. ASSUME NEW p \in Proc, User(p) PROVE GrantInPlace'
  <2>1. CASE Launch(p)
        BY <2>1 DEF Launch, Excuse, wndVars, mailVars
  <2>2. CASE OnBtnMinimize(p) \/ OnBtnClose(p)
        BY <2>2 DEF OnBtnMinimize, OnBtnClose, mailVars
  <2>3. CASE Crash(p)
        BY <2>3 DEF Crash
  <2> QED BY <1>4, <2>1, <2>2, <2>3 DEF User
<1> QED BY <1>1, <1>2, <1>3, <1>4 DEF Next

(* While launches do not overlap, the one under way creates a window only   *)
(* when there is none, and what it finds is the only window.                *)
LEMMA OneAtATimeStep ==
  ASSUME TypeOK, FramesAndWindows, GrantInPlace, OneAtATime,
         "overlap" \notin excuse', Next
  PROVE  OneAtATime'
<1> USE DEF TypeOK, FramesAndWindows, GrantInPlace, OneAtATime, Goto, Starting, Attempting,
            Asking, Opening, Serving
<1>1. ASSUME NEW p \in Proc, Notify(p) PROVE OneAtATime'
  <2>1. CASE Find(p)
        BY <2>1 DEF Find, Windows, wndVars, mailVars
  <2>2. CASE GetOwner(p)
        BY <2>2 DEF GetOwner, wndVars
  <2>3. CASE Send(p)
        BY <2>3 DEF Send, wndVars
  <2>4. CASE Answered(p) \/ SendFails(p)
        BY <2>4 DEF Answered, SendFails, wndVars, mailVars
  <2>5. CASE SendTimesOut(p)
        BY <2>5 DEF SendTimesOut, Excuse, wndVars
  <2> QED BY <1>1, <2>1, <2>2, <2>3, <2>4, <2>5 DEF Notify
<1>2. ASSUME NEW p \in Proc, Show(p) PROVE OneAtATime'
  <2>1. CASE CreateFrame(p)
        BY <2>1 DEF CreateFrame, mailVars
  <2>2. CASE Refind(p) \/ FillList(p)
        BY <2>2 DEF Refind, FillList, Windows, wndVars, mailVars
  <2>3. CASE CreateMessageOnlyWindow(p)
        BY <2>3 DEF CreateMessageOnlyWindow, Windows, Excuse, mailVars
  <2> QED BY <1>2, <2>1, <2>2, <2>3 DEF Show
<1>3. ASSUME NEW p \in Proc, Loop(p) PROVE OneAtATime'
  <2>1. CASE \E r \in Proc : Deliver(p, r)
        BY <2>1 DEF Deliver
  <2>2. CASE DestroyFrame(p) \/ EndLoop(p)
        BY <2>2 DEF DestroyFrame, EndLoop, wndVars, mailVars
  <2>3. CASE Exit(p)
        BY <2>3 DEF Exit
  <2> QED BY <1>3, <2>1, <2>2, <2>3 DEF Loop
<1>4. ASSUME NEW p \in Proc, User(p) PROVE OneAtATime'
  <2>1. CASE Launch(p)
        BY <2>1 DEF Launch, Excuse, wndVars, mailVars
  <2>2. CASE OnBtnMinimize(p) \/ OnBtnClose(p)
        BY <2>2 DEF OnBtnMinimize, OnBtnClose, mailVars
  <2>3. CASE Crash(p)
        BY <2>3 DEF Crash
  <2> QED BY <1>4, <2>1, <2>2, <2>3 DEF User
<1> QED BY <1>1, <1>2, <1>3, <1>4 DEF Next

(* A launch comes to open its frame only when the window it found, the only *)
(* one, is gone, and a program serves behind a frame only with its window.  *)
LEMMA UndisturbedStep ==
  ASSUME TypeOK, FramesAndWindows, OneAtATime, Undisturbed, excuse' = {}, Next
  PROVE  Undisturbed'
<1> USE DEF TypeOK, FramesAndWindows, OneAtATime, Undisturbed, Goto, Starting, Attempting,
            Asking, Opening, Serving
<1>1. ASSUME NEW p \in Proc, Notify(p) PROVE Undisturbed'
  <2>1. CASE Find(p)
        BY <2>1 DEF Find, Windows, wndVars, mailVars
  <2>2. CASE GetOwner(p) \/ Send(p)
        BY <2>2 DEF GetOwner, Send, wndVars
  <2>3. CASE Answered(p) \/ SendFails(p)
        BY <2>3 DEF Answered, SendFails, wndVars, mailVars
  <2>4. CASE SendTimesOut(p)
        BY <2>4 DEF SendTimesOut, Excuse
  <2> QED BY <1>1, <2>1, <2>2, <2>3, <2>4 DEF Notify
<1>2. ASSUME NEW p \in Proc, Show(p) PROVE Undisturbed'
  <2>1. CASE CreateFrame(p)
        BY <2>1 DEF CreateFrame, mailVars
  <2>2. CASE Refind(p) \/ FillList(p)
        BY <2>2 DEF Refind, FillList, Windows, wndVars, mailVars
  <2>3. CASE CreateMessageOnlyWindow(p)
        BY <2>3 DEF CreateMessageOnlyWindow, Windows, Excuse, mailVars
  <2> QED BY <1>2, <2>1, <2>2, <2>3 DEF Show
<1>3. ASSUME NEW p \in Proc, Loop(p) PROVE Undisturbed'
  <2>1. CASE \E r \in Proc : Deliver(p, r)
        BY <2>1 DEF Deliver
  <2>2. CASE DestroyFrame(p) \/ EndLoop(p)
        BY <2>2 DEF DestroyFrame, EndLoop, wndVars, mailVars
  <2>3. CASE Exit(p)
        BY <2>3 DEF Exit
  <2> QED BY <1>3, <2>1, <2>2, <2>3 DEF Loop
<1>4. ASSUME NEW p \in Proc, User(p) PROVE Undisturbed'
  <2>1. CASE Launch(p)
        BY <2>1 DEF Launch, wndVars, mailVars
  <2>2. CASE OnBtnMinimize(p) \/ OnBtnClose(p)
        BY <2>2 DEF OnBtnMinimize, OnBtnClose, mailVars
  <2>3. CASE Crash(p)
        BY <2>3 DEF Crash
  <2> QED BY <1>4, <2>1, <2>2, <2>3 DEF User
<1> QED BY <1>1, <1>2, <1>3, <1>4 DEF Next

(* A request is queued once and only until it is handled. *)
LEMMA RequestStep ==
  TypeOK /\ FramesAndWindows /\ RequestInv /\ [Next]_vars => RequestInv'
<1> SUFFICES ASSUME TypeOK, FramesAndWindows, RequestInv, [Next]_vars
             PROVE  RequestInv'
    OBVIOUS
<1> USE DEF TypeOK, FramesAndWindows, RequestInv, Goto, Attempting, Asking,
            Opening, Serving
<1>0. CASE UNCHANGED vars
      BY <1>0 DEF vars, wndVars, mailVars
<1>1. ASSUME NEW p \in Proc, Notify(p) PROVE RequestInv'
  <2>1. CASE Find(p)
    <3>1. /\ UNCHANGED <<msgWnd, inbox, reply, served>>
          /\ pc[p] = "find" /\ pc' = [pc EXCEPT ![p] = pc'[p]] /\ pc'[p] \in {"show", "owner"}
          /\ target' = [target EXCEPT ![p] = target'[p]]
          /\ pc'[p] = "owner" => target'[p] \in Proc /\ msgWnd[target'[p]]
          BY <2>1 DEF Find, Windows, wndVars, mailVars
    <3> QED BY <3>1
  <2>2. CASE GetOwner(p)
        BY <2>2 DEF GetOwner, wndVars
  <2>3. CASE Send(p)
    <3> DEFINE t == target[p]
    <3>1. t \in Proc /\ t # p /\ pc[t] \in Serving \cup {"term", "exited"}
          BY <2>3 DEF Send
    <3>2. CASE msgWnd[t]
      <4>1. \A q, r \in Proc : q \in inbox'[r] => q \in inbox[r] \/ (q = p /\ r = t)
            BY <2>3, <3>1, <3>2 DEF Send
      <4>2. \A q \in Proc : p \notin inbox[q]
            BY <2>3 DEF Send
      <4>3. /\ pc' = [pc EXCEPT ![p] = "wait"]
            /\ UNCHANGED <<target, msgWnd, reply, served>>
            /\ pc[p] = "send"
            BY <2>3, <3>2 DEF Send, wndVars
      <4>4. \A q, r \in Proc : q \in inbox'[r] =>
              q # r /\ served'[q] = "none" /\ msgWnd'[r]
              /\ pc'[q] \notin {"idle", "find", "owner", "send"}
            BY <3>1, <3>2, <4>1, <4>3
      <4>5. \A q, r, u \in Proc : q \in inbox'[r] /\ q \in inbox'[u] => r = u
            BY <3>1, <4>1, <4>2
      <4>6. \A q \in Proc : pc'[q] \in Asking =>
              target'[q] # q /\ pc'[target'[q]] \in Serving \cup {"term", "exited"}
            BY <3>1, <4>3
      <4> QED BY <4>3, <4>4, <4>5, <4>6
    <3>3. CASE ~msgWnd[t]
          BY <2>3, <3>1, <3>3 DEF Send, wndVars
    <3> QED BY <3>2, <3>3
  <2>4. CASE Answered(p)
        BY <2>4 DEF Answered, wndVars, mailVars
  <2>5. CASE SendFails(p)
        BY <2>5 DEF SendFails, wndVars, mailVars
  <2>6. CASE SendTimesOut(p)
    <3>1. \A q, r \in Proc : q \in inbox'[r] => q \in inbox[r]
          BY <2>6 DEF SendTimesOut
    <3> QED BY <2>6, <3>1 DEF SendTimesOut, wndVars
  <2> QED BY <1>1, <2>1, <2>2, <2>3, <2>4, <2>5, <2>6 DEF Notify
<1>2. ASSUME NEW p \in Proc, Show(p) PROVE RequestInv'
  <2>1. CASE CreateFrame(p)
        BY <2>1 DEF CreateFrame, mailVars
  <2>2. CASE Refind(p)
        BY <2>2 DEF Refind, wndVars, mailVars
  <2>3. CASE CreateMessageOnlyWindow(p)
        BY <2>3 DEF CreateMessageOnlyWindow, mailVars
  <2>4. CASE FillList(p)
        BY <2>4 DEF FillList, wndVars, mailVars
  <2> QED BY <1>2, <2>1, <2>2, <2>3, <2>4 DEF Show
<1>3. ASSUME NEW p \in Proc, Loop(p) PROVE RequestInv'
  <2>1. ASSUME NEW s \in Proc, Deliver(p, s) PROVE RequestInv'
        BY <2>1 DEF Deliver
  <2>2. CASE DestroyFrame(p) \/ EndLoop(p)
        BY <2>2 DEF DestroyFrame, EndLoop, wndVars, mailVars
  <2>3. CASE Exit(p)
        BY <2>3 DEF Exit
  <2> QED BY <1>3, <2>1, <2>2, <2>3 DEF Loop
<1>4. ASSUME NEW p \in Proc, User(p) PROVE RequestInv'
  <2>1. CASE Launch(p)
        BY <2>1 DEF Launch, wndVars, mailVars
  <2>2. CASE OnBtnMinimize(p) \/ OnBtnClose(p)
        BY <2>2 DEF OnBtnMinimize, OnBtnClose, mailVars
  <2>3. CASE Crash(p)
        BY <2>3 DEF Crash
  <2> QED BY <1>4, <2>1, <2>2, <2>3 DEF User
<1> QED BY <1>0, <1>1, <1>2, <1>3, <1>4 DEF Next

(* The inductive invariant of the instance protocol. *)
LEMMA InstanceInvStep == InstanceInv /\ [Next]_vars => InstanceInv'
<1> SUFFICES ASSUME InstanceInv, [Next]_vars PROVE InstanceInv'
    OBVIOUS
<1>1. TypeOK' /\ FramesAndWindows' /\ RequestInv'
      BY TypeStep, FrameStep, RequestStep DEF InstanceInv
<1>2. ASSUME "twins" \notin excuse' PROVE GrantInPlace'
  <2>1. TypeOK /\ FramesAndWindows /\ RequestInv /\ GrantInPlace
        BY <1>2, ExcuseStep DEF InstanceInv
  <2>2. CASE UNCHANGED vars
        BY <2>1, <2>2 DEF GrantInPlace, vars, wndVars, mailVars
  <2>3. CASE Next
        BY <2>1, <2>3, <1>2, GrantStep
  <2> QED BY <2>2, <2>3
<1>3. ASSUME "overlap" \notin excuse' PROVE OneAtATime'
  <2>1. TypeOK /\ FramesAndWindows /\ GrantInPlace /\ OneAtATime
        BY <1>3, ExcuseStep DEF InstanceInv, OneAtATime
  <2>2. CASE UNCHANGED vars
        BY <2>1, <2>2 DEF OneAtATime, Starting, vars, wndVars, mailVars
  <2>3. CASE Next
        BY <2>1, <2>3, <1>3, OneAtATimeStep
  <2> QED BY <2>2, <2>3
<1>4. ASSUME excuse' = {} PROVE Undisturbed'
  <2>1. TypeOK /\ FramesAndWindows /\ OneAtATime /\ Undisturbed
        BY <1>4, ExcuseStep DEF InstanceInv
  <2>2. CASE UNCHANGED vars
        BY <2>1, <2>2 DEF Undisturbed, vars, wndVars
  <2>3. CASE Next
        BY <2>1, <2>3, <1>4, UndisturbedStep
  <2> QED BY <2>2, <2>3
<1> QED BY <1>1, <1>2, <1>3, <1>4 DEF InstanceInv

(* The types and the inductive invariant hold in every reachable state. *)
THEOREM Invariant == Spec => []InstanceInv
<1>1. Init => InstanceInv
      BY DEF Init, InstanceInv, TypeOK, FramesAndWindows, RequestInv, GrantInPlace, OneAtATime,
             Undisturbed, Starting, PCs,
             Attempting, Asking, Opening, Serving, Final
<1> QED BY <1>1, InstanceInvStep, PTL DEF Spec

(* TypeOK: every variable keeps its type. *)
THEOREM TypeCorrect == Spec => []TypeOK
<1>1. InstanceInv => TypeOK
      BY DEF InstanceInv
<1> QED BY <1>1, Invariant, PTL

(* OneFrame: launches that do not overlap, and are answered in time, never  *)
(* open a second frame.  FramesAndWindows places an open frame in its       *)
(* program's opening or serving steps; Undisturbed allows no window beside  *)
(* an opening one and gives every serving one its own, which GrantInPlace   *)
(* makes the only one.                                                      *)
THEOREM OneFrameHolds == Spec => []OneFrame
<1>1. InstanceInv => OneFrame
      BY DEF InstanceInv, TypeOK, FramesAndWindows, GrantInPlace, OneAtATime, Undisturbed,
             OneFrame, Starting,
             Opening, Serving
<1> QED BY <1>1, Invariant, PTL

(* FrameIsReachable: an open frame that serves has its message-only window. *)
THEOREM FrameIsReachableHolds == Spec => []FrameIsReachable
<1>1. InstanceInv => FrameIsReachable
      BY DEF InstanceInv, Undisturbed, FrameIsReachable
<1> QED BY <1>1, Invariant, PTL

(* GrantReachesReceiver: unless two programs had their windows at once, the *)
(* right to the foreground is still valid when the request it was granted   *)
(* for is handled, however late that is.                                    *)
THEOREM GrantHolds == Spec => []GrantReachesReceiver
<1>1. InstanceInv => GrantReachesReceiver
      BY DEF InstanceInv, GrantInPlace, GrantReachesReceiver
<1> QED BY <1>1, Invariant, PTL

(* RequestInv: a request is queued once and answered only when handled. *)
THEOREM RequestInvHolds == Spec => []RequestInv
<1>1. InstanceInv => RequestInv
      BY DEF InstanceInv
<1> QED BY <1>1, Invariant, PTL

-------------------------------------------------------------------------------
(* The phase of a launch follows from where it is and whether its request  *)
(* was handled; a step that keeps both keeps the phase.                    *)
LEMMA PhaseKept ==
  ASSUME NEW p \in Proc, pc'[p] = pc[p], served'[p] = served[p]
  PROVE  PhaseOf(p)' = PhaseOf(p)
  BY DEF PhaseOf

(* A step after which all phases but that of p are as before is described  *)
(* by the new phase of p.                                                  *)
LEMMA PhaseUpdate ==
  ASSUME NEW p \in Proc,
         \A q \in Proc \ {p} : pc'[q] = pc[q] /\ served'[q] = served[q]
  PROVE  phaseOf' = [phaseOf EXCEPT ![p] = PhaseOf(p)']
<1>1. \A q \in Proc \ {p} : PhaseOf(q)' = PhaseOf(q)
      BY PhaseKept
<1> QED BY <1>1 DEF phaseOf

(* The steps of AttemptFastNotify change no phase until the answer is read. *)
LEMMA NotifyRefines ==
  ASSUME TypeOK, RequestInv, NEW p \in Proc, Notify(p)
  PROVE  [Abstract!ANext]_phaseOf
<1>1. /\ pc' = [pc EXCEPT ![p] = pc'[p]]
      /\ served' = served
      /\ \/ pc[p] \in Attempting /\ pc'[p] \in Attempting \cup {"show"}
         \/ pc[p] = "wait" /\ reply[p] /\ pc'[p] = "joined"
      BY DEF TypeOK, Notify, Find, GetOwner, Send, Answered, SendFails, SendTimesOut,
             Goto, Attempting, wndVars, mailVars
<1>2. phaseOf' = [phaseOf EXCEPT ![p] = PhaseOf(p)']
      BY <1>1, PhaseUpdate DEF TypeOK
<1>3. CASE pc[p] \in Attempting /\ pc'[p] \in Attempting \cup {"show"}
  <2>1. PhaseOf(p)' = PhaseOf(p)
        BY <1>1, <1>3 DEF PhaseOf, Attempting, Serving
  <2> QED BY <1>2, <2>1 DEF phaseOf
<1>4. CASE pc[p] = "wait" /\ reply[p] /\ pc'[p] = "joined"
  <2>1. PhaseOf(p) = "served" /\ PhaseOf(p)' = "joined"
        BY <1>4 DEF PhaseOf, Attempting, Serving, RequestInv
  <2> QED BY <1>2, <2>1 DEF phaseOf, Abstract!ANext, Abstract!AJoin
<1> QED BY <1>1, <1>3, <1>4

(* ShowFrame: Create() opens the frame, all else keeps the phase. *)
LEMMA ShowRefines ==
  ASSUME TypeOK, NEW p \in Proc, Show(p)
  PROVE  [Abstract!ANext]_phaseOf
<1>1. /\ pc' = [pc EXCEPT ![p] = pc'[p]]
      /\ served' = served
      /\ \/ pc[p] = "show" /\ pc'[p] = "refind"
         \/ pc[p] \in {"refind", "create", "fill"} /\ pc'[p] \in {"create", "fill", "run"}
      BY DEF TypeOK, Show, CreateFrame, Refind, CreateMessageOnlyWindow, FillList, Goto,
             wndVars, mailVars
<1>2. phaseOf' = [phaseOf EXCEPT ![p] = PhaseOf(p)']
      BY <1>1, PhaseUpdate DEF TypeOK
<1>3. CASE pc[p] = "show" /\ pc'[p] = "refind"
  <2>1. \/ PhaseOf(p) = "pending" /\ PhaseOf(p)' = "up"
        \/ PhaseOf(p) = "served" /\ PhaseOf(p)' = "servedUp"
        BY <1>1, <1>3 DEF PhaseOf, Attempting, Serving
  <2> QED BY <1>2, <2>1 DEF phaseOf, Abstract!ANext, Abstract!AOpen
<1>4. CASE pc[p] \in {"refind", "create", "fill"} /\ pc'[p] \in {"create", "fill", "run"}
  <2>1. PhaseOf(p)' = PhaseOf(p)
        BY <1>1, <1>4 DEF PhaseOf, Attempting, Serving
  <2> QED BY <1>2, <2>1 DEF phaseOf
<1> QED BY <1>1, <1>3, <1>4

(* A request that is handled changes the phase of its sender, and its      *)
(* receiver is another program that is up.                                 *)
LEMMA DeliverRefines ==
  ASSUME TypeOK, RequestInv, NEW p \in Proc, NEW s \in Proc, Deliver(p, s)
  PROVE  [Abstract!ANext]_phaseOf
<1>1. /\ pc' = pc /\ served' = [served EXCEPT ![s] = served'[s]]
      /\ served'[s] # "none"
      /\ pc[p] \in Serving /\ s \in inbox[p]
      BY DEF Deliver, TypeOK
<1>2. /\ s # p /\ served[s] = "none"
      /\ pc[s] \notin {"idle", "find", "owner", "send"}
      BY <1>1 DEF RequestInv
<1>3. phaseOf' = [phaseOf EXCEPT ![s] = PhaseOf(s)']
      BY <1>1, PhaseUpdate DEF TypeOK
<1>4. PhaseOf(p) \in {"up", "servedUp"}
      BY <1>1 DEF PhaseOf, Serving, Attempting
<1>5. \/ PhaseOf(s)' = PhaseOf(s)
      \/ PhaseOf(s) = "pending" /\ PhaseOf(s)' = "served"
      \/ PhaseOf(s) = "up" /\ PhaseOf(s)' = "servedUp"
      BY <1>1, <1>2 DEF PhaseOf, TypeOK, PCs, Serving, Attempting, Opening, Final
<1> QED BY <1>2, <1>3, <1>4, <1>5 DEF phaseOf, Abstract!ANext, Abstract!AServe, Abstract!Up

(* A message loop or a process that ends takes the program down. *)
LEMMA EndRefines ==
  ASSUME TypeOK, NEW p \in Proc, EndLoop(p) \/ Exit(p) \/ Crash(p)
  PROVE  [Abstract!ANext]_phaseOf
<1>1. /\ pc' = [pc EXCEPT ![p] = pc'[p]] /\ served' = served
      /\ pc[p] \notin {"idle", "joined"} /\ pc'[p] \in {"term", "exited"}
      BY DEF TypeOK, EndLoop, Exit, Crash, Live, Final, Goto, wndVars, mailVars
<1>2. phaseOf' = [phaseOf EXCEPT ![p] = PhaseOf(p)']
      BY <1>1, PhaseUpdate DEF TypeOK
<1>3. PhaseOf(p)' = "down"
      BY <1>1 DEF PhaseOf, Attempting, Serving
<1>4. PhaseOf(p) \in {"pending", "served", "up", "servedUp", "down"}
      BY <1>1 DEF PhaseOf, TypeOK, PCs, Serving, Attempting, Opening, Final
<1> QED BY <1>2, <1>3, <1>4 DEF phaseOf, Abstract!ANext, Abstract!ADown, Abstract!Up

(* LaunchPromise: a launch ends by itself only after a program with a frame *)
(* of its own has taken its request over, and that happens at most once.    *)
THEOREM Refinement == Spec => LaunchPromise
<1>1. Init => Abstract!AInit
      BY DEF Init, Abstract!AInit, phaseOf, PhaseOf, Attempting, Serving
<1>2. ASSUME TypeOK, RequestInv, [Next]_vars PROVE [Abstract!ANext]_phaseOf
  <2>1. CASE pc' = pc /\ served' = served
        BY <2>1, PhaseKept DEF phaseOf
  <2>2. ASSUME NEW p \in Proc, Notify(p) PROVE [Abstract!ANext]_phaseOf
        BY <1>2, <2>2, NotifyRefines
  <2>3. ASSUME NEW p \in Proc, Show(p) PROVE [Abstract!ANext]_phaseOf
        BY <1>2, <2>3, ShowRefines
  <2>4. ASSUME NEW p \in Proc, Loop(p) PROVE [Abstract!ANext]_phaseOf
    <3>1. CASE DestroyFrame(p)
          BY <2>1, <3>1 DEF DestroyFrame, mailVars
    <3> QED BY <1>2, <2>4, <3>1, DeliverRefines, EndRefines DEF Loop
  <2>5. ASSUME NEW p \in Proc, User(p) PROVE [Abstract!ANext]_phaseOf
    <3>1. CASE Launch(p)
      <4>1. /\ pc' = [pc EXCEPT ![p] = "find"] /\ served' = served /\ pc[p] = "idle"
            BY <3>1 DEF Launch, Goto, mailVars
      <4>2. phaseOf' = [phaseOf EXCEPT ![p] = PhaseOf(p)']
            BY <4>1, <1>2, PhaseUpdate DEF TypeOK
      <4>3. PhaseOf(p) = "idle" /\ PhaseOf(p)' = "pending"
            BY <4>1, <1>2 DEF PhaseOf, TypeOK, RequestInv, Attempting, Serving
      <4> QED BY <4>2, <4>3 DEF phaseOf, Abstract!ANext, Abstract!AStart
    <3>2. CASE OnBtnMinimize(p) \/ OnBtnClose(p)
          BY <2>1, <3>2 DEF OnBtnMinimize, OnBtnClose, mailVars
    <3> QED BY <1>2, <2>5, <3>1, <3>2, EndRefines DEF User
  <2> QED BY <1>2, <2>1, <2>2, <2>3, <2>4, <2>5 DEF Next, vars, mailVars
<1>3. Spec => []TypeOK /\ []RequestInv
      BY TypeCorrect, RequestInvHolds
<1> QED BY <1>1, <1>2, <1>3, PTL DEF Spec, LaunchPromise, Abstract!ASpec, Abstract!aVars
===============================================================================

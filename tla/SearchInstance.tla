---------------------------- MODULE SearchInstance ----------------------------
(***************************************************************************)
(* The life of the search program as a set of operating-system processes:  *)
(* _tWinMain and AttemptFastNotify (main.cpp), the message-only window     *)
(* that marks a running instance (message_window.cpp), and the frame that  *)
(* owns it and answers WM_COPYDATA (search_frame.cpp).                     *)
(*                                                                         *)
(* A process that starts looks for a message-only window; if there is one  *)
(* it sends its command line there and ends when the answer is TRUE, and   *)
(* in every other case it shows its own frame.  Nothing makes "look" and   *)
(* "create" one step, so the model lets every process move between them.   *)
(*                                                                         *)
(* Windows itself is external: sent messages reach a thread only while it  *)
(* runs its message loop, a send fails when the window is destroyed, and   *)
(* a send that times out may or may not have left the receiver's queue.    *)
(***************************************************************************)
CONSTANTS Proc,      \* processes, each one launch of the program
          NoProc     \* no process

ASSUME NoProcAssumption == NoProc \notin Proc

VARIABLES
  pc,        \* where the main thread of each process is
  named,     \* the command line has the switch --name
  target,    \* owner of the window that FindMessageOnlyWindow returned
  msgWnd,    \* the process has its message-only window
  frame,     \* the frame window: "none", "open" or "gone"
  iconic,    \* the frame is minimised
  closing,   \* WM_CLOSE is posted to the frame and not yet dispatched
  inbox,     \* senders whose WM_COPYDATA waits in the process's queue
  reply,     \* TRUE once the process's send was answered with TRUE
  allowed,   \* the process last given the right to take the foreground
  served,    \* history: what became of the request of each launch
  excuse     \* history: the unusual events that have happened so far

wndVars   == <<msgWnd, frame, iconic, closing>>
mailVars  == <<inbox, reply, allowed, served>>
vars      == <<pc, named, target, wndVars, mailVars, excuse>>

Attempting == {"find", "owner", "send", "wait"}      \* in AttemptFastNotify
Asking     == {"owner", "send", "wait"}              \* with the window found
Opening    == {"show", "refind", "create"}           \* in ShowFrame, no window yet
Serving    == {"fill", "run"}                        \* in ShowFrame, window settled
Final      == {"joined", "exited"}
PCs        == {"idle", "term"} \cup Attempting \cup Opening \cup Serving \cup Final

Starting(p) == pc[p] \in Attempting \cup Opening
Live(p)     == pc[p] \notin Final \cup {"idle"}
Windows     == {q \in Proc : msgWnd[q]}

TypeOK ==
  /\ pc \in [Proc -> PCs]
  /\ named \in [Proc -> BOOLEAN]
  /\ target \in [Proc -> Proc \cup {NoProc}]
  /\ \A p \in Proc : pc[p] \in Asking => target[p] # NoProc
  /\ msgWnd \in [Proc -> BOOLEAN]
  /\ frame \in [Proc -> {"none", "open", "gone"}]
  /\ iconic \in [Proc -> BOOLEAN]
  /\ closing \in [Proc -> BOOLEAN]
  /\ inbox \in [Proc -> SUBSET Proc]
  /\ reply \in [Proc -> BOOLEAN]
  /\ allowed \in Proc \cup {NoProc}
  /\ served \in [Proc -> {"none", "searched", "raised", "flashed", "missed"}]
  /\ excuse \subseteq {"overlap", "timeout", "nocreate", "twins"}

Init ==
  /\ pc = [p \in Proc |-> "idle"]
  /\ named = [p \in Proc |-> FALSE]
  /\ target = [p \in Proc |-> NoProc]
  /\ msgWnd = [p \in Proc |-> FALSE]
  /\ frame = [p \in Proc |-> "none"]
  /\ iconic = [p \in Proc |-> FALSE]
  /\ closing = [p \in Proc |-> FALSE]
  /\ inbox = [p \in Proc |-> {}]
  /\ reply = [p \in Proc |-> FALSE]
  /\ allowed = NoProc
  /\ served = [p \in Proc |-> "none"]
  /\ excuse = {}

Goto(p, l) == pc' = [pc EXCEPT ![p] = l]
Excuse(e)  == excuse' = excuse \cup {e}

-------------------------------------------------------------------------------
(* The start of a process: _tWinMain parses its command line and calls     *)
(* AttemptFastNotify.                                                      *)

Launch(p) ==
  /\ pc[p] = "idle"
  /\ Goto(p, "find")
  /\ \E b \in BOOLEAN : named' = [named EXCEPT ![p] = b]
  /\ IF \E q \in Proc : q # p /\ Starting(q) THEN Excuse("overlap") ELSE UNCHANGED excuse
  /\ UNCHANGED <<target, wndVars, mailVars>>

(* MessageWindow::FindMessageOnlyWindow: any window of the class and title. *)
Find(p) ==
  /\ pc[p] = "find"
  /\ IF Windows = {}
     THEN Goto(p, "show") /\ UNCHANGED target
     ELSE Goto(p, "owner") /\ \E q \in Windows : target' = [target EXCEPT ![p] = q]
  /\ UNCHANGED <<named, wndVars, mailVars, excuse>>

(* Mutant: the request goes out without AllowSetForegroundWindow. *)
GetOwnerNoGrant(p) ==
  /\ pc[p] = "owner"
  /\ Goto(p, IF msgWnd[target[p]] THEN "send" ELSE "show")
  /\ UNCHANGED <<named, target, wndVars, mailVars, excuse>>

(* GetWindowThreadProcessId gives 0 for a window that has gone meanwhile;  *)
(* otherwise the owner is allowed to take the foreground.                  *)
GetOwner(p) ==
  /\ pc[p] = "owner"
  /\ IF msgWnd[target[p]]
     THEN Goto(p, "send") /\ allowed' = target[p]
     ELSE Goto(p, "show") /\ UNCHANGED allowed
  /\ UNCHANGED <<named, target, wndVars, inbox, reply, served, excuse>>

(* SendMessageTimeoutW, the part that queues the message. *)
Send(p) ==
  /\ pc[p] = "send"
  /\ IF msgWnd[target[p]]
     THEN Goto(p, "wait") /\ inbox' = [inbox EXCEPT ![target[p]] = @ \cup {p}]
     ELSE Goto(p, "show") /\ UNCHANGED inbox
  /\ UNCHANGED <<named, target, wndVars, reply, allowed, served, excuse>>

(* The receiver answered TRUE: AttemptFastNotify returns true, the process ends. *)
Answered(p) ==
  /\ pc[p] = "wait" /\ reply[p]
  /\ Goto(p, "joined")
  /\ UNCHANGED <<named, target, wndVars, mailVars, excuse>>

(* Mutant: a send that failed counts as a request that was taken over. *)
SendFailsAsSuccess(p) ==
  /\ pc[p] = "wait" /\ ~reply[p] /\ ~msgWnd[target[p]]
  /\ Goto(p, "joined")
  /\ UNCHANGED <<named, target, wndVars, mailVars, excuse>>

(* The window was destroyed before it answered: the send returns 0. *)
SendFails(p) ==
  /\ pc[p] = "wait" /\ ~reply[p] /\ ~msgWnd[target[p]]
  /\ Goto(p, "show")
  /\ UNCHANGED <<named, target, wndVars, mailVars, excuse>>

(* Mutant: SendMessageW in the place of SendMessageTimeoutW. *)
SendNeverTimesOut(p) == FALSE

(* Mutant: a request that timed out is sent once more. *)
SendRetries(p) ==
  /\ pc[p] = "wait" /\ ~reply[p] /\ msgWnd[target[p]]
  /\ Goto(p, "send")
  /\ Excuse("timeout")
  /\ UNCHANGED <<named, target, wndVars, mailVars>>

(* The receiver hangs (SMTO_ABORTIFHUNG) or does not answer in time: the   *)
(* send returns 0.  The message may stay queued and be handled late.       *)
SendTimesOut(p) ==
  /\ pc[p] = "wait" /\ ~reply[p] /\ msgWnd[target[p]]
  /\ Goto(p, "show")
  /\ inbox' \in {inbox, [inbox EXCEPT ![target[p]] = @ \ {p}]}
  /\ Excuse("timeout")
  /\ UNCHANGED <<named, target, wndVars, reply, allowed, served>>

-------------------------------------------------------------------------------
(* SearchFrame::ShowFrame up to the message loop.  Create() puts the frame *)
(* up and InitWidgetDialog then looks for the message-only window again.   *)

CreateFrame(p) ==
  /\ pc[p] = "show"
  /\ Goto(p, "refind")
  /\ frame' = [frame EXCEPT ![p] = "open"]
  /\ UNCHANGED <<named, target, msgWnd, iconic, closing, mailVars, excuse>>

(* Mutant: the frame takes its window for granted and never creates it. *)
RefindNeverCreates(p) ==
  /\ pc[p] = "refind"
  /\ Goto(p, "fill")
  /\ UNCHANGED <<named, target, wndVars, mailVars, excuse>>

Refind(p) ==
  /\ pc[p] = "refind"
  /\ Goto(p, IF Windows = {} THEN "create" ELSE "fill")
  /\ UNCHANGED <<named, target, wndVars, mailVars, excuse>>

(* CreateMessageOnlyWindow; InitWidgetDialog ignores that it failed. *)
CreateMessageOnlyWindow(p) ==
  /\ pc[p] = "create"
  /\ Goto(p, "fill")
  /\ \/ /\ msgWnd' = [msgWnd EXCEPT ![p] = TRUE]
        /\ IF Windows = {} THEN UNCHANGED excuse ELSE Excuse("twins")
     \/ UNCHANGED msgWnd /\ Excuse("nocreate")
  /\ UNCHANGED <<named, target, frame, iconic, closing, mailVars>>

(* GetStartMenuProgram fills the list box, then RunFrameWindow pumps messages. *)
FillList(p) ==
  /\ pc[p] = "fill"
  /\ Goto(p, "run")
  /\ UNCHANGED <<named, target, wndVars, mailVars, excuse>>

-------------------------------------------------------------------------------
(* The message loop of a running instance. *)

(* MessageOnlyWindowCallback for the WM_COPYDATA of process p, and          *)
(* ProcessCopyDataCommand: a command line with --name changes nothing, any  *)
(* other one restores the frame and takes the foreground.  The answer is    *)
(* TRUE either way, and is lost on a sender that no longer waits.  Once the *)
(* frame is destroyed, and until WM_QUIT is retrieved, m_hWnd is NULL.  The *)
(* shell's COM calls may pump sent messages while the list box is filled.   *)
Deliver(q, p) ==
  /\ pc[q] \in Serving /\ p \in inbox[q]
  /\ inbox' = [inbox EXCEPT ![q] = @ \ {p}]
  /\ reply' = [reply EXCEPT ![p] = (pc[p] = "wait")]
  /\ served' = [served EXCEPT ![p] =
       IF named[p] THEN "searched"
       ELSE IF frame[q] # "open" THEN "missed"
       ELSE IF allowed = q THEN "raised" ELSE "flashed"]
  /\ iconic' = [iconic EXCEPT ![q] = @ /\ named[p]]
  /\ UNCHANGED <<pc, named, target, msgWnd, frame, closing, allowed, excuse>>

OnBtnMinimize(p) ==
  /\ pc[p] = "run" /\ frame[p] = "open" /\ ~iconic[p]
  /\ iconic' = [iconic EXCEPT ![p] = TRUE]
  /\ UNCHANGED <<pc, named, target, msgWnd, frame, closing, mailVars, excuse>>

OnBtnClose(p) ==                     \* PostMessage(WM_CLOSE)
  /\ pc[p] = "run" /\ frame[p] = "open" /\ ~closing[p]
  /\ closing' = [closing EXCEPT ![p] = TRUE]
  /\ UNCHANGED <<pc, named, target, msgWnd, frame, iconic, mailVars, excuse>>

(* The loop dispatches WM_CLOSE: the frame window is destroyed. *)
DestroyFrame(p) ==
  /\ pc[p] = "run" /\ closing[p]
  /\ frame' = [frame EXCEPT ![p] = "gone"]
  /\ iconic' = [iconic EXCEPT ![p] = FALSE]
  /\ closing' = [closing EXCEPT ![p] = FALSE]
  /\ UNCHANGED <<pc, named, target, msgWnd, mailVars, excuse>>

(* WM_QUIT ends RunFrameWindow; Term() follows and search_frame is destroyed. *)
EndLoop(p) ==
  /\ pc[p] = "run" /\ frame[p] = "gone"
  /\ Goto(p, "term")
  /\ UNCHANGED <<named, target, wndVars, mailVars, excuse>>

(* Mutant: a process in Term() waits for the requests it did not handle. *)
ExitWhenDrained(p) ==
  /\ pc[p] = "term" /\ inbox[p] = {}
  /\ Goto(p, "exited")
  /\ msgWnd' = [msgWnd EXCEPT ![p] = FALSE]
  /\ UNCHANGED <<named, target, frame, iconic, closing, mailVars, excuse>>

(* The static MessageWindow is destroyed when the process ends, which       *)
(* destroys its window and fails every send that still waits for it.        *)
Exit(p) ==
  /\ pc[p] = "term"
  /\ Goto(p, "exited")
  /\ msgWnd' = [msgWnd EXCEPT ![p] = FALSE]
  /\ inbox' = [inbox EXCEPT ![p] = {}]
  /\ UNCHANGED <<named, target, frame, iconic, closing, reply, allowed, served, excuse>>

(* The process is killed at any point: its windows go, its request stays queued. *)
Crash(p) ==
  /\ Live(p)
  /\ Goto(p, "exited")
  /\ msgWnd' = [msgWnd EXCEPT ![p] = FALSE]
  /\ frame' = [frame EXCEPT ![p] = IF @ = "open" THEN "gone" ELSE @]
  /\ iconic' = [iconic EXCEPT ![p] = FALSE]
  /\ closing' = [closing EXCEPT ![p] = FALSE]
  /\ inbox' = [inbox EXCEPT ![p] = {}]
  /\ UNCHANGED <<named, target, reply, allowed, served, excuse>>

-------------------------------------------------------------------------------
Notify(p) == \/ Find(p) \/ GetOwner(p) \/ Send(p)
             \/ Answered(p) \/ SendFails(p) \/ SendTimesOut(p)
Show(p)   == CreateFrame(p) \/ Refind(p) \/ CreateMessageOnlyWindow(p) \/ FillList(p)
Loop(p)   == (\E s \in Proc : Deliver(p, s)) \/ DestroyFrame(p) \/ EndLoop(p) \/ Exit(p)
User(p)   == Launch(p) \/ OnBtnMinimize(p) \/ OnBtnClose(p) \/ Crash(p)

Next == \E p \in Proc : Notify(p) \/ Show(p) \/ Loop(p) \/ User(p)

Spec == Init /\ [][Next]_vars

(* Whoever starts keeps running: the steps of _tWinMain before the loop,    *)
(* and the answer or failure of its send, but not the 15 second timer.      *)
StarterRuns(p) == /\ WF_vars(Show(p)) /\ WF_vars(Find(p)) /\ WF_vars(GetOwner(p))
                  /\ WF_vars(Send(p)) /\ WF_vars(Answered(p)) /\ WF_vars(SendFails(p))

(* Every message loop keeps pumping, so no sender depends on its timer. *)
LoopPumps(p) == /\ WF_vars(DestroyFrame(p)) /\ WF_vars(EndLoop(p)) /\ WF_vars(Exit(p))
                /\ \A s \in Proc : WF_vars(Deliver(p, s))

(* The two kinds of fairness are the premises of two liveness properties. *)
StartSpec == Spec /\ \A p \in Proc : StarterRuns(p)

-------------------------------------------------------------------------------
(* AttemptFastNotify is there so that one frame serves all launches.  Two   *)
(* frames are open at once only after launches overlapped, a request timed  *)
(* out, or a message-only window could not be created.                      *)
OneFrame ==
  excuse = {} => \A p, q \in Proc : frame[p] = "open" /\ frame[q] = "open" => p = q

(* With the same excuses, a program in its message loop can be found: its   *)
(* frame is never up without the window that AttemptFastNotify looks for.   *)
FrameIsReachable ==
  excuse = {} => \A p \in Proc : pc[p] \in Serving /\ frame[p] = "open" => msgWnd[p]

(* The right to the foreground that AttemptFastNotify hands over arrives    *)
(* before the request and is still valid when the request is handled, also  *)
(* when launches overlap and when it is handled after its sender gave up.   *)
(* Another launch can have granted it elsewhere only if two programs had    *)
(* their message-only windows at once.                                      *)
GrantReachesReceiver ==
  "twins" \notin excuse => \A p \in Proc : served[p] # "flashed"

(* The title of the message-only window is "com2345.search.unique.running   *)
(* .title": while one instance runs there is no second one.                 *)
UniqueRunning == \A p, q \in Windows : p = q

-------------------------------------------------------------------------------
(* Why the three properties hold: a frame and a window are there in the     *)
(* steps between Create and the end.  As long as there was one window at a  *)
(* time, a request waits only where it and the right to the foreground are. *)
(* As long as no launches overlapped there was: one launch at a time gets   *)
(* past FindMessageOnlyWindow, and what it finds is the only window.  And   *)
(* if nothing else unusual happened, it opens its frame only when there is  *)
(* no window.                                                               *)
FramesAndWindows ==
  \A p \in Proc :
    /\ frame[p] = "open" => pc[p] \in {"refind", "create"} \cup Serving
    /\ msgWnd[p] => pc[p] \in Serving \cup {"term"}

GrantInPlace ==
  /\ \A p, q \in Proc : msgWnd[p] /\ msgWnd[q] => p = q
  /\ \A p \in Proc : pc[p] = "send" /\ msgWnd[target[p]] => allowed = target[p]
  /\ \A p, q \in Proc : p \in inbox[q] => allowed = q
  /\ \A p \in Proc : served[p] # "flashed"

OneAtATime ==
  /\ \A p, q \in Proc : Starting(p) /\ Starting(q) => p = q
  /\ \A p, q \in Proc : pc[p] = "create" => ~msgWnd[q]
  /\ \A p, q \in Proc : pc[p] \in Asking /\ msgWnd[q] => q = target[p]
  /\ "twins" \notin excuse

Undisturbed ==
  /\ \A p, q \in Proc : pc[p] \in Opening => ~msgWnd[q]
  /\ \A p \in Proc : pc[p] \in Serving /\ frame[p] = "open" => msgWnd[p]

(* A request is queued once, where it was sent, until it is handled, and    *)
(* only a handled request is answered.                                      *)
RequestInv ==
  /\ \A p, q \in Proc : p \in inbox[q] =>
       p # q /\ served[p] = "none" /\ pc[p] \notin {"idle", "find", "owner", "send"}
             /\ msgWnd[q]
  /\ \A p, q, r \in Proc : p \in inbox[q] /\ p \in inbox[r] => q = r
  /\ \A p \in Proc : reply[p] => served[p] # "none"
  /\ \A p \in Proc : pc[p] \in {"idle", "find", "owner", "send"} => served[p] = "none"
  /\ \A p \in Proc : pc[p] \in Asking => target[p] # p /\ pc[target[p]] \in Serving \cup {"term", "exited"}

InstanceInv == /\ TypeOK /\ FramesAndWindows /\ RequestInv
               /\ "twins" \notin excuse => GrantInPlace
               /\ "overlap" \notin excuse => OneAtATime
               /\ excuse = {} => Undisturbed

-------------------------------------------------------------------------------
(* A launch ends by itself only when its request was handled, and only a    *)
(* program whose message loop runs behind a frame of its own handles one.   *)
PhaseOf(p) ==
  CASE pc[p] = "idle"                     -> "idle"
    [] pc[p] = "joined"                   -> "joined"
    [] pc[p] \in {"term", "exited"}       -> "down"
    [] pc[p] \in Attempting \cup {"show"} -> IF served[p] = "none" THEN "pending" ELSE "served"
    [] pc[p] \in Serving \cup {"refind", "create"} ->
         IF served[p] = "none" THEN "up" ELSE "servedUp"

phaseOf == [p \in Proc |-> PhaseOf(p)]

Abstract == INSTANCE LaunchProtocol WITH phase <- phaseOf
LaunchPromise == Abstract!ASpec

(* Every launch gets somewhere: it hands its request over, or its own       *)
(* message loop runs, or it is killed.                                      *)
LaunchSettles ==
  \A p \in Proc : pc[p] = "find" ~> pc[p] \in {"joined", "run", "exited"}

(* It does so without the timer of SendMessageTimeoutW as long as every      *)
(* message loop keeps dispatching: a program that is shut down while a       *)
(* request waits for it fails the send when its window is destroyed.         *)
HostSettles == (\A p \in Proc : LoopPumps(p)) => LaunchSettles

(* And it does so whatever becomes of the program that is asked, because     *)
(* SendMessageTimeoutW comes back after kSendCopyDataMessageTimeoutInMS.     *)
TimerSettles == (\A p \in Proc : WF_vars(SendTimesOut(p))) => LaunchSettles
===============================================================================

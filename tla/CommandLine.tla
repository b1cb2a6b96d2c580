------------------------------ MODULE CommandLine ------------------------------
(***************************************************************************)
(* How the command line of a second launch reaches the running program:    *)
(* CommandLine parses it (command_line.cpp), AttemptFastNotify writes it   *)
(* out again and frames it (main.cpp), and the receiver undoes both        *)
(* (search_frame.cpp).  ToString puts no quotes round an argument with a   *)
(* blank in it, so the receiver may see other arguments than the sender.   *)
(*                                                                         *)
(* Characters are abstracted to tokens: switches such as --name, other     *)
(* words, "=", and the blank.  CommandLineToArgvW is external: it hands    *)
(* out the arguments, in which quotes may have kept blanks; a text without *)
(* quotes is cut at its blanks.  Quotes inside an argument are left out.   *)
(***************************************************************************)
EXTENDS Naturals, SequencesExt

CONSTANTS Switch,        \* tokens that begin with "--"
          kSearchName,   \* the switch --name
          Word,          \* other tokens
          MaxArgs, MaxLength

ASSUME SearchNameAssumption == kSearchName \in Switch

Eq    == "="
Blank == " "
Nul   == "NUL"
Start == "START"

Token    == Switch \cup Word \cup {Eq, Blank}
Argument == BoundedSeq(Token, MaxLength)

VARIABLES
  at,         \* "typed", "parsed", "sent", "received"
  args,       \* what CommandLineToArgvW made of the command line
  argv,       \* argv_ of the sender: key -> value
  msg,        \* the WM_COPYDATA buffer
  got,        \* argv_ of the receiver
  answer      \* what ProcessCopyDataCommand did

vars == <<at, args, argv, msg, got, answer>>

-------------------------------------------------------------------------------
(* ParseFromString: a switch is cut at its first "="; anything else, and a   *)
(* switch without "=", is a key with an empty value.                         *)

EqAt(arg) == {i \in DOMAIN arg : arg[i] = Eq}
HasValue(arg) == arg # <<>> /\ arg[1] \in Switch /\ EqAt(arg) # {}

KeyOf(arg) == IF HasValue(arg) THEN SubSeq(arg, 1, Min(EqAt(arg)) - 1) ELSE arg

ValueOf(arg) == IF HasValue(arg) THEN SubSeq(arg, Min(EqAt(arg)) + 1, Len(arg)) ELSE <<>>

(* insert() leaves the value of a key that is there already. *)
Parse(as) ==
  [k \in {KeyOf(as[i]) : i \in DOMAIN as} |->
     ValueOf(as[Min({i \in DOMAIN as : KeyOf(as[i]) = k})])]

HasSwitch(map, switch) == <<switch>> \in DOMAIN map

(* ToString.  The order of std::map depends on the characters: any order.    *)
Unit(map, k) == IF map[k] = <<>> THEN k ELSE k \o <<Eq>> \o map[k]

Texts(map) ==
  {FlattenSeq([i \in DOMAIN order |-> Append(Unit(map, order[i]), Blank)]) :
     order \in SetToSeqs(DOMAIN map)}

(* CommandLineToArgvW on a text without quotes, after Trim. *)
Words(text) ==
  SelectSeq(FoldLeft(LAMBDA ws, c : IF c = Blank THEN Append(ws, <<>>)
                                    ELSE [ws EXCEPT ![Len(ws)] = Append(@, c)],
                     << <<>> >>, text),
            LAMBDA w : w # <<>>)

(* The buffer: "START", the text, a terminator, and the one of c_str(), which *)
(* cbData counts too: 8 characters at least, of which the receiver wants 7.   *)
Framed(text) == <<Start, Nul>> \o text \o <<Nul, Nul>>

(* Mutant: the text is taken to begin at the first terminator. *)
UnframedFromNul(m) == IF m[1] = Start THEN <<>> ELSE m

(* ProcessCopyDataMessage: what is between the first two terminators; the    *)
(* second one is copied too and ends the text in c_str().                    *)
Unframed(m) ==
  LET nuls   == {i \in DOMAIN m : m[i] = Nul}
      first  == Min(nuls)
      second == Min(nuls \ {first})
  IN  IF SubSeq(m, 1, first - 1) = <<Start>> THEN SubSeq(m, first + 1, second - 1) ELSE <<>>

-------------------------------------------------------------------------------
Init ==
  /\ at = "typed"
  /\ args \in BoundedSeq(Argument, MaxArgs)
  /\ argv = <<>> /\ got = <<>>
  /\ msg = <<>>
  /\ answer = "none"

ParseCommandLine ==            \* _tWinMain
  /\ at = "typed" /\ at' = "parsed"
  /\ argv' = Parse(args)
  /\ UNCHANGED <<args, msg, got, answer>>

SendCopyData ==                \* AttemptFastNotify
  /\ at = "parsed" /\ at' = "sent"
  /\ \E text \in Texts(argv) : msg' = Framed(text)
  /\ UNCHANGED <<args, argv, got, answer>>

ReceiveCopyData ==             \* MessageOnlyWindowCallback, ProcessCopyDataCommand
  /\ at = "sent" /\ at' = "received"
  /\ got' = Parse(Words(Unframed(msg)))
  /\ answer' = IF HasSwitch(got', kSearchName) THEN "nothing" ELSE "raise"
  /\ UNCHANGED <<args, argv, msg>>

Next == ParseCommandLine \/ SendCopyData \/ ReceiveCopyData

Spec == Init /\ [][Next]_vars

-------------------------------------------------------------------------------
(* Keys that are switches hold no "=", on either side. *)
TypeOK ==
  /\ at \in {"typed", "parsed", "sent", "received"}
  /\ args \in Seq(Seq(Token))
  /\ msg \in Seq(Token \cup {Nul, Start})
  /\ answer \in {"none", "nothing", "raise"}
  /\ \A map \in {argv, got} : \A k \in DOMAIN map :
       /\ k \in Seq(Token) /\ map[k] \in Seq(Token)
       /\ k # <<>> /\ k[1] \in Switch => EqAt(k) = {}

Plain(arg) == arg # <<>> /\ ~Contains(arg, Blank)

(* The map that ToString writes out is the map the receiver reads, whatever  *)
(* its order, if no argument is empty or has a blank in it: duplicates,      *)
(* "=" inside values and empty values included.                              *)
PlainArrives ==
  at = "received" /\ (\A i \in DOMAIN args : Plain(args[i])) => got = argv

(* --name is never lost on the way: no other argument can hide it.           *)
SwitchSurvives ==
  at = "received" /\ HasSwitch(argv, kSearchName) => answer = "nothing"

(* What makes the running program stay in the background: --name as a word   *)
(* of its own somewhere in an argument, where the launch itself may have     *)
(* had it inside quotes.                                                     *)
OwnWord(u, t) == \E i \in DOMAIN u :
  /\ u[i] = t
  /\ i = 1 \/ u[i - 1] = Blank
  /\ i = Len(u) \/ u[i + 1] \in {Blank, Eq}

AnswerByWords ==
  at = "received" =>
    (answer = "nothing" <=> \E k \in DOMAIN argv : OwnWord(Unit(argv, k), kSearchName))

(* What was typed arrives, as it was meant. *)
WordsArrive == TypeOK /\ PlainArrives /\ SwitchSurvives /\ AnswerByWords
===============================================================================

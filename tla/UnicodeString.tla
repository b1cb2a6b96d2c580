------------------------------ MODULE UnicodeString ------------------------------
(***************************************************************************)
(* The strings of ICU (unistr.cpp, unistr.h): short ones keep their text in *)
(* the object, long ones in a counted array that copies share until one of *)
(* them is changed.  Each thread has strings of its own; it changes and     *)
(* moves those, and copies from anybody's while its owner leaves it alone   *)
(* ("non-const methods must not be called concurrently").  A step has at    *)
(* most one access to a counter.  Aliases of other memory are left out, and *)
(* so is a source text that lies in the string that is changed.             *)
(***************************************************************************)
EXTENDS Integers, FiniteSets, SequencesExt

CONSTANTS Thread, Array,
          Text,             \* texts that are appended or put in
          US_STACKBUF_SIZE, kGrowSize,
          MaxLength, MaxCalls  \* bounds

VARIABLES str, heap,  \* the strings; the counted arrays
          task,       \* what each thread does
          value,      \* history: the text each string was given
          torn,       \* history: a string was filled from an array changed or freed meanwhile
          calls       \* number of calls so far

strVars == <<str, heap, task, value, torn, calls>>

Str    == Thread \X {1, 2}
None   == 0
Bogus  == <<"bogus">>
Junk   == "?"
NUL    == "0"
Freed  == [refs |-> 0, units |-> <<>>]
Idle   == [pc |-> "idle"]
Stored(kind, array, units, length) == [kind |-> kind, array |-> array, units |-> units,
                                       length |-> length, open |-> FALSE]
Empty  == Stored("short", None, [i \in 1..US_STACKBUF_SIZE |-> Junk], 0)
BogusString == Stored("bogus", None, <<>>, 0)

Live(a)  == heap[a] # Freed
Long(s)  == str[s].kind = "long"
Units(s) == IF Long(s) THEN heap[str[s].array].units ELSE str[s].units
Shown(s) == IF str[s].kind = "bogus" THEN Bogus ELSE SubSeq(Units(s), 1, str[s].length)
Capacity(s)   == Len(Units(s))
IsWritable(s) == str[s].kind # "bogus" /\ ~str[s].open
Shared(s)     == Long(s) /\ heap[str[s].array].refs > 1

At(t, l)      == task[t].pc = l
Become(t, r)  == task' = [task EXCEPT ![t] = r]
Changing(s)   == LET own == task[s[1]] IN own # Idle /\ s \in {own.s, own.from}
BeingRead(s)  == \E t \in Thread : task[t].pc \in {"release", "assign"} /\ task[t].from = s
Mine(t, s)    == At(t, "idle") /\ s[1] = t /\ calls < MaxCalls /\ ~BeingRead(s)
Counted       == calls' = calls + 1

(* One string is there with a text, the others are empty. *)
Init ==
  /\ \E t \in Thread, text \in Text, a \in Array :
       /\ Len(text) > US_STACKBUF_SIZE
       /\ heap = [b \in Array |-> IF b = a THEN [refs |-> 1, units |-> Append(text, Junk)] ELSE Freed]
       /\ str = [s \in Str |-> IF s = <<t, 1>> THEN Stored("long", a, <<>>, Len(text)) ELSE Empty]
       /\ value = [s \in Str |-> IF s = <<t, 1>> THEN text ELSE <<>>]
  /\ task = [t \in Thread |-> Idle]
  /\ torn = FALSE /\ calls = 0

(* Finitely many threads; texts, and arrays that are not null; natural sizes. *)
CodeUnit == (UNION {ToSet(x) : x \in Text}) \cup {"x", "bogus", Junk, NUL}
ConstantsRight == /\ IsFiniteSet(Thread) /\ Text \subseteq Seq(CodeUnit) /\ None \notin Array
                  /\ {US_STACKBUF_SIZE, kGrowSize, MaxLength} \subseteq Nat
ASSUME StringAssumption == ConstantsRight

-------------------------------------------------------------------------------
(* What a call does to the text of n units it starts from, and the memory it *)
(* asks for.                                                                 *)
Edited(op, old) ==
  CASE op.f = "setCharAt" -> IF old = <<>> THEN old ELSE [old EXCEPT ![1] = op.c]
    [] op.f = "doReverse" -> Reverse(old)
    [] op.f = "doAppend"  -> old \o op.text
    [] op.f = "doReplace" -> op.text \o SubSeq(old, op.n + 1, Len(old))
    [] op.f = "getBuffer" -> <<>>
    [] op.f = "getTerminatedBuffer" -> old

NewCapacity(op, s) ==
  CASE op.f \in {"setCharAt", "doReverse"} -> Capacity(s)
    [] op.f = "getBuffer"                  -> op.n
    [] op.f = "getTerminatedBuffer"        -> str[s].length + 1
    [] OTHER                               -> Len(Edited(op, Shown(s)))

(* cloneArrayIfNeeded tries growCapacity, then newCapacity. *)
Capacities(op, s) ==
  LET new  == NewCapacity(op, s)
      grow == IF op.f \in {"doAppend", "doReplace"} THEN new + kGrowSize ELSE new
  IN  {new, IF new <= US_STACKBUF_SIZE /\ grow > US_STACKBUF_SIZE THEN US_STACKBUF_SIZE ELSE grow}

Ops == [f : {"setCharAt"}, c : {"x"}] \cup [f : {"doReverse", "getTerminatedBuffer"}]
        \cup [f : {"doAppend"}, text : Text]
        \cup [f : {"doReplace"}, text : Text \cup {<<>>}, n : 0..1]
        \cup [f : {"getBuffer"}, n : 0..MaxLength]

(* doReplace at the end appends; setCharAt and doReverse of too short a text *)
(* come to nothing (doReverse before it looks for an array of its own).      *)
Allowed(op, s) ==
  /\ IsWritable(s)
  /\ op.f \in {"doAppend", "doReplace"} => Len(Edited(op, Shown(s))) <= MaxLength
  /\ op.f = "doReplace" => op.n <= str[s].length /\ str[s].length > 0
  /\ op.f = "doReverse" => str[s].length > 1

(* doAppend and getTerminatedBuffer look first whether the array will do.    *)
Change(t, s, op) ==
  /\ Mine(t, s) /\ Allowed(op, s)
  /\ Become(t, [pc |-> IF \/ op.f = "doAppend" /\ NewCapacity(op, s) <= Capacity(s)
                          \/ op.f = "getTerminatedBuffer" /\ str[s].length < Capacity(s)
                       THEN "isBufferWritable" ELSE "clone?",
                s |-> s, from |-> s, op |-> op, old |-> None, delete |-> FALSE, shown |-> <<>>])
  /\ Counted /\ UNCHANGED <<str, heap, value, torn>>

(* refCount() == 1; once it is, nobody else can make it more. *)
IsBufferWritable(t) ==
  /\ At(t, "isBufferWritable")
  /\ Become(t, [task[t] EXCEPT !.pc = IF Shared(task[t].s) THEN "clone?" ELSE "write"])
  /\ UNCHANGED <<str, heap, value, torn, calls>>

(* Mutant: an array of one's own is one that is large enough. *)
MustCloneSmall(s, op) == NewCapacity(op, s) > Capacity(s)

(* The condition of cloneArrayIfNeeded. *)
MustClone(s, op) == Shared(s) \/ NewCapacity(op, s) > Capacity(s)

CloneArrayIfNeeded(t) ==
  /\ At(t, "clone?")
  /\ Become(t, [task[t] EXCEPT !.pc = IF MustClone(task[t].s, task[t].op) THEN "allocate" ELSE "write"])
  /\ UNCHANGED <<str, heap, value, torn, calls>>

(* A new array of n units, with what the first are, in place of s's. *)
Filled(n, first) == [i \in 1..n |-> IF i <= Len(first) THEN first[i] ELSE Junk]
FreeArrays == {a \in Array : ~Live(a)}

(* allocate, the copy of the text unless doCopyArray is FALSE (doReplace     *)
(* does that later), and if there is no memory, the way to setToBogus.       *)
Allocate(t) ==
  LET s == task[t].s   op == task[t].op
      kept(n) == IF op.f = "doReplace" THEN <<>> ELSE SubSeq(Shown(s), 1, Min({n, str[s].length}))
      moved == [task[t] EXCEPT !.pc = IF Long(s) THEN "drop" ELSE "write",
                               !.old = str[s].array, !.shown = Shown(s)]
  IN  /\ At(t, "allocate")
      /\ \/ /\ \E n \in Capacities(op, s) : n <= US_STACKBUF_SIZE
            /\ str' = [str EXCEPT ![s] = Stored("short", None, Filled(US_STACKBUF_SIZE, kept(US_STACKBUF_SIZE)),
                                                Len(kept(US_STACKBUF_SIZE)))]
            /\ Become(t, moved) /\ UNCHANGED heap
         \/ \E n \in Capacities(op, s), a \in FreeArrays :
              /\ n > US_STACKBUF_SIZE
              /\ heap' = [heap EXCEPT ![a] = [refs |-> 1, units |-> Filled(n + 1, kept(n + 1))]]
              /\ str' = [str EXCEPT ![s] = Stored("long", a, <<>>, Len(kept(n + 1)))]
              /\ Become(t, moved)
         \/ /\ \A n \in Capacities(op, s) : n > US_STACKBUF_SIZE
            /\ Become(t, [pc |-> "release", s |-> s, how |-> "bogus", from |-> s])
            /\ UNCHANGED <<str, heap>>
      /\ UNCHANGED <<value, torn, calls>>

(* The old array is given up; doReplace deletes it later if nobody else has  *)
(* it ("delayed delete ... to keep oldArray alive").                         *)
DropOldArray(t) ==
  LET a == task[t].old   last == heap[a].refs = 1   delay == task[t].op.f = "doReplace"
  IN  /\ At(t, "drop")
      /\ heap' = IF last /\ ~delay THEN [heap EXCEPT ![a] = Freed] ELSE [heap EXCEPT ![a].refs = @ - 1]
      /\ Become(t, [task[t] EXCEPT !.pc = "write", !.delete = last /\ delay])
      /\ UNCHANGED <<str, value, torn, calls>>

(* What doReplace finds in the old array, and everybody else in the string.  *)
Found(t) ==
  LET k == task[t]
  IN  IF k.op.f # "doReplace" \/ k.shown = <<>> THEN Shown(k.s)
      ELSE IF k.old = None THEN k.shown
      ELSE SubSeq(Filled(Len(k.shown), heap[k.old].units), 1, Len(k.shown))

Overwritten(units, first) == [i \in DOMAIN units |-> IF i <= Len(first) THEN first[i] ELSE units[i]]
NewUnits(s, op, text) ==
  CASE op.f = "getBuffer" -> Units(s)
    [] op.f = "getTerminatedBuffer" -> Overwritten(Units(s), Append(text, NUL))
    [] OTHER -> Overwritten(Units(s), text)

(* The same storage with other units in it. *)
Refilled(s, units, length, open) ==
  [kind |-> str[s].kind, array |-> str[s].array, units |-> IF Long(s) THEN <<>> ELSE units,
   length |-> length, open |-> open]
HeapWith(s, units) == IF Long(s) THEN [heap EXCEPT ![str[s].array].units = units] ELSE heap

Write(t) ==
  LET k == task[t]   s == k.s
      text  == Edited(k.op, Found(t))
      units == NewUnits(s, k.op, text)
      stale == k.old # None /\ k.op.f = "doReplace" /\ Found(t) # k.shown
      written == HeapWith(s, units)
  IN  /\ At(t, "write")
      /\ heap' = IF k.delete THEN [written EXCEPT ![k.old] = Freed] ELSE written
      /\ str' = [str EXCEPT ![s] = Refilled(s, units, Len(text), k.op.f = "getBuffer")]
      /\ torn' = (torn \/ stale)
      /\ value' = [value EXCEPT ![s] = IF stale THEN text ELSE Edited(k.op, @)]
      /\ Become(t, Idle) /\ UNCHANGED calls

-------------------------------------------------------------------------------
(* copyFrom, moveFrom, setToBogus and the destructor (with a new string in   *)
(* its place) begin with releaseArray.                                       *)
Assign(t, s, how, from) ==
  /\ Mine(t, s)
  /\ CASE how = "copy" -> from # s /\ ~Changing(from)
       [] how = "move" -> from # s /\ from[1] = t /\ ~BeingRead(from)
       [] OTHER        -> from = s
  /\ Become(t, [pc |-> "release", s |-> s, from |-> from,
                how |-> IF how = "copy" /\ str[from].kind = "bogus" THEN "bogus" ELSE how])
  /\ Counted /\ UNCHANGED <<str, heap, value, torn>>

ReleaseArray(t) ==
  LET s == task[t].s   a == str[s].array
  IN  /\ At(t, "release")
      /\ heap' = IF ~Long(s) THEN heap
                 ELSE IF heap[a].refs = 1 THEN [heap EXCEPT ![a] = Freed] ELSE [heap EXCEPT ![a].refs = @ - 1]
      /\ str' = [str EXCEPT ![s] = Empty]
      /\ Become(t, [task[t] EXCEPT !.pc = "assign"])
      /\ UNCHANGED <<value, torn, calls>>

AddRef(s) == IF Long(s) THEN [heap EXCEPT ![str[s].array].refs = @ + 1] ELSE heap

(* An empty string, also one with an open buffer, makes an empty copy. *)
CopyFrom(s, from) ==
  IF str[from].length = 0
  THEN /\ str' = [str EXCEPT ![s] = Empty] /\ value' = [value EXCEPT ![s] = <<>>] /\ UNCHANGED heap
  ELSE /\ str' = [str EXCEPT ![s] = str[from]] /\ value' = [value EXCEPT ![s] = value[from]]
       /\ heap' = AddRef(from)

(* A text in the object is copied, all else is taken from src.               *)
MoveFrom(s, from) ==
  LET taken == str[from].kind # "short"
  IN  /\ str' = [str EXCEPT ![s] = str[from], ![from] = IF taken THEN BogusString ELSE @]
      /\ value' = [value EXCEPT ![s] = value[from], ![from] = IF taken THEN Bogus ELSE @]
      /\ UNCHANGED heap

SetTo(s, string, text) ==
  str' = [str EXCEPT ![s] = string] /\ value' = [value EXCEPT ![s] = text] /\ UNCHANGED heap

Assigned(t) ==
  LET s == task[t].s   from == task[t].from
  IN  /\ At(t, "assign")
      /\ CASE task[t].how = "copy"  -> CopyFrom(s, from)
           [] task[t].how = "move"  -> MoveFrom(s, from)
           [] task[t].how = "bogus" -> SetTo(s, BogusString, Bogus)
           [] task[t].how = "empty" -> SetTo(s, Empty, <<>>)
      /\ Become(t, Idle) /\ UNCHANGED <<torn, calls>>

-------------------------------------------------------------------------------
(* Calls that look at no counter.  truncate and remove change only the       *)
(* length, also of a string that shares its array.                           *)
Truncate(t, s, n) ==
  /\ Mine(t, s)
  /\ \/ str[s].kind = "bogus" /\ n = 0 /\ SetTo(s, Empty, <<>>)
     \/ /\ n < str[s].length
        /\ SetTo(s, [str[s] EXCEPT !.length = n], SubSeq(value[s], 1, n))
  /\ Counted /\ UNCHANGED <<task, torn>>

RemoveText(t, s) ==
  /\ Mine(t, s)
  /\ SetTo(s, IF str[s].kind = "bogus" THEN Empty ELSE [str[s] EXCEPT !.length = 0], <<>>)
  /\ Counted /\ UNCHANGED <<task, torn>>

Swap(t, s, other) ==
  /\ Mine(t, s) /\ Mine(t, other)
  /\ str' = [str EXCEPT ![s] = str[other], ![other] = str[s]]
  /\ value' = [value EXCEPT ![s] = value[other], ![other] = value[s]]
  /\ Counted /\ UNCHANGED <<heap, task, torn>>

(* The caller has filled the buffer that getBuffer opened. *)
ReleaseBuffer(t, s, text) ==
  LET first == SubSeq(text, 1, Min({Len(text), Capacity(s)}))
      units == Overwritten(Units(s), first)
  IN  /\ Mine(t, s) /\ str[s].open
      /\ str' = [str EXCEPT ![s] = Refilled(s, units, Len(first), FALSE)]
      /\ heap' = HeapWith(s, units)
      /\ value' = [value EXCEPT ![s] = first]
      /\ Counted /\ UNCHANGED <<task, torn>>

Step(t) == \/ IsBufferWritable(t) \/ CloneArrayIfNeeded(t) \/ Allocate(t) \/ DropOldArray(t)
           \/ Write(t) \/ ReleaseArray(t) \/ Assigned(t)

Call(t, s) == \/ \E op \in Ops : Change(t, s, op)
              \/ \E how \in {"copy", "move", "bogus", "empty"}, from \in Str : Assign(t, s, how, from)
              \/ \E n \in 0..MaxLength : Truncate(t, s, n)
              \/ RemoveText(t, s)
              \/ \E other \in Str \ {s} : Swap(t, s, other)
              \/ \E text \in Text : ReleaseBuffer(t, s, text)

Next == \E t \in Thread : Step(t) \/ \E s \in Str : Call(t, s)

Spec == Init /\ [][Next]_strVars

-------------------------------------------------------------------------------
(* The counter of an array is the number of strings that have it and of      *)
(* threads that are still to give it up; an array without is freed, or about *)
(* to be, and nobody has a freed one.                                        *)
ArrayRefsExact ==
  /\ \A a \in Array : Live(a) =>
       /\ heap[a].refs = Cardinality({s \in Str : Long(s) /\ str[s].array = a})
                          + Cardinality({t \in Thread : At(t, "drop") /\ task[t].old = a})
       /\ heap[a].refs = 0 <=> \E t \in Thread : At(t, "write") /\ task[t].delete /\ task[t].old = a
  /\ \A s \in Str : Long(s) => Live(str[s].array)

(* "Clones can be used concurrently in multiple threads" (unistr.h): a       *)
(* string shows the text it was given, whatever is done to its copies, and   *)
(* nobody shares the buffer that getBuffer opened for writing.               *)
CopiesIndependent ==
  \A s \in Str : ~Changing(s) => /\ Shown(s) = value[s]
                                 /\ str[s].open => ~Shared(s)

StringInv == ArrayRefsExact /\ CopiesIndependent

(* "to keep oldArray alive for the above operations" (doReplace).            *)
OldArrayAlive == ~torn
===============================================================================

-------------------------- MODULE UnicodeStringProofs --------------------------
(***************************************************************************)
(* The reference counts of string arrays are exact, and copies of a string  *)
(* are independent.  Every count is the number of strings that have the     *)
(* array and of threads that have taken it from a string and not yet given  *)
(* it up.  For Inv to be inductive an operation has to know, from the test  *)
(* of the counter to its write, that the array is its string's alone        *)
(* (Writing): nobody can make a count of one larger but the string's owner. *)
(* A copy may add a reference because nobody changes its source meanwhile   *)
(* (ReadOnly), and the array that doReplace has kept for later is deleted   *)
(* by one thread (DeletedOnce).                                             *)
(***************************************************************************)
EXTENDS UnicodeString, FiniteSetTheorems, SequenceTheorems, TLAPS

-------------------------------------------------------------------------------
(* Texts. *)

Chars == Seq(CodeUnit)

(* The code units the model writes itself. *)
LEMMA OwnUnits == {"x", "bogus", Junk, NUL} \subseteq CodeUnit
  BY DEF CodeUnit

(* The smaller of two numbers. *)
LEMMA MinOfTwo ==
  ASSUME NEW m \in Int, NEW n \in Int
  PROVE  Min({m, n}) = IF m <= n THEN m ELSE n
  <1>1. CASE m <= n
     BY <1>1 DEF Min
  <1>2. CASE n < m
     BY <1>2 DEF Min
  <1> QED BY <1>1, <1>2

(* A new array of n units that holds a text, with junk behind it. *)
LEMMA FilledText ==
  ASSUME NEW n \in Nat, NEW x \in Chars
  PROVE  /\ Filled(n, x) \in Chars /\ Len(Filled(n, x)) = n
         /\ Len(x) <= n => SubSeq(Filled(n, x), 1, Len(x)) = x
  <1>1. Filled(n, x) \in Chars /\ Len(Filled(n, x)) = n
     <2>1. \A i \in 1..n : (IF i <= Len(x) THEN x[i] ELSE Junk) \in CodeUnit
        <3>1. Junk \in CodeUnit
           BY OwnUnits
        <3>2. \A i \in 1..Len(x) : x[i] \in CodeUnit
           BY ElementOfSeq DEF Chars
        <3>3. Len(x) \in Nat
           BY LenProperties DEF Chars
        <3> QED BY <3>1, <3>2, <3>3
     <2>2. Filled(n, x) \in [1..n -> CodeUnit]
        BY <2>1 DEF Filled
     <2>3. Filled(n, x) \in Chars
        BY <2>2, SeqDef DEF Chars
     <2>4. Len(Filled(n, x)) = n
        BY <2>2, <2>3 DEF Chars
     <2> QED BY <2>3, <2>4
  <1>2. ASSUME Len(x) <= n PROVE SubSeq(Filled(n, x), 1, Len(x)) = x
     <2>1. \A i \in 1..Len(x) : Filled(n, x)[i] = x[i]
        BY <1>2 DEF Filled, Chars
     <2> HIDE DEF Filled
     <2>2. SubSeq(Filled(n, x), 1, Len(x)) \in Chars /\ Len(SubSeq(Filled(n, x), 1, Len(x))) = Len(x)
        BY <1>1, <1>2 DEF Chars
     <2>3. \A i \in 1..Len(x) : SubSeq(Filled(n, x), 1, Len(x))[i] = x[i]
        BY <1>1, <1>2, <2>1 DEF Chars
     <2> QED BY <2>2, <2>3, SeqEqual DEF Chars
  <1> QED BY <1>1, <1>2

(* Copying a text over an array (us_arrayCopy): the array is as long as it  *)
(* was and begins with the text.                                            *)
LEMMA OverwrittenText ==
  ASSUME NEW u \in Chars, NEW x \in Chars
  PROVE  /\ Overwritten(u, x) \in Chars /\ Len(Overwritten(u, x)) = Len(u)
         /\ \A n \in 0..Len(x) : n <= Len(u) => SubSeq(Overwritten(u, x), 1, n) = SubSeq(x, 1, n)
  <1>1. Overwritten(u, x) \in Chars /\ Len(Overwritten(u, x)) = Len(u)
     BY DEF Overwritten, Chars
  <1>2. ASSUME NEW n \in 0..Len(x), n <= Len(u) PROVE SubSeq(Overwritten(u, x), 1, n) = SubSeq(x, 1, n)
     <2>1. \A i \in 1..n : Overwritten(u, x)[i] = x[i]
        BY <1>2 DEF Overwritten, Chars
     <2>2. /\ SubSeq(Overwritten(u, x), 1, n) \in Chars /\ Len(SubSeq(Overwritten(u, x), 1, n)) = n
           /\ SubSeq(x, 1, n) \in Chars /\ Len(SubSeq(x, 1, n)) = n
        BY <1>1, <1>2 DEF Chars
     <2>3. \A i \in 1..n : SubSeq(Overwritten(u, x), 1, n)[i] = SubSeq(x, 1, n)[i]
        BY <1>1, <1>2, <2>1 DEF Chars
     <2> QED BY <2>2, <2>3, SeqEqual DEF Chars
  <1> QED BY <1>1, <1>2

(* The first units of a text, and the first of those. *)
LEMMA SubText ==
  ASSUME NEW u \in Chars, NEW m \in 0..Len(u), NEW n \in 0..m
  PROVE  /\ SubSeq(u, 1, m) \in Chars /\ Len(SubSeq(u, 1, m)) = m
         /\ SubSeq(SubSeq(u, 1, m), 1, n) = SubSeq(u, 1, n)
  <1>1. /\ SubSeq(u, 1, m) \in Chars /\ Len(SubSeq(u, 1, m)) = m
        /\ SubSeq(u, 1, n) \in Chars /\ Len(SubSeq(u, 1, n)) = n
     BY DEF Chars
  <1>2. /\ SubSeq(SubSeq(u, 1, m), 1, n) \in Chars /\ Len(SubSeq(SubSeq(u, 1, m), 1, n)) = n
     BY <1>1 DEF Chars
  <1>3. \A i \in 1..n : SubSeq(SubSeq(u, 1, m), 1, n)[i] = SubSeq(u, 1, n)[i]
     BY <1>1 DEF Chars
  <1>4. SubSeq(SubSeq(u, 1, m), 1, n) = SubSeq(u, 1, n)
     BY <1>1, <1>2, <1>3, SeqEqual DEF Chars
  <1> QED BY <1>1, <1>4

(* A text is the whole of itself. *)
LEMMA WholeText ==
  ASSUME NEW u \in Chars
  PROVE  SubSeq(u, 1, Len(u)) = u
  <1>1. SubSeq(u, 1, Len(u)) \in Chars /\ Len(SubSeq(u, 1, Len(u))) = Len(u)
     BY DEF Chars
  <1>2. \A i \in 1..Len(u) : SubSeq(u, 1, Len(u))[i] = u[i]
     BY DEF Chars
  <1> QED BY <1>1, <1>2, SeqEqual DEF Chars

(* What an operation is. *)
OpCases(op) ==
  \/ op.f = "setCharAt" /\ op.c = "x"
  \/ op.f \in {"doReverse", "getTerminatedBuffer"}
  \/ op.f = "doAppend" /\ op.text \in Chars
  \/ op.f = "doReplace" /\ op.text \in Chars /\ op.n \in 0..1
  \/ op.f = "getBuffer" /\ op.n \in Nat

(* The operations have the fields that their functions take. *)
LEMMA OpsAre == ASSUME ConstantsRight, NEW op \in Ops PROVE OpCases(op)
  <1>1. Text \subseteq Chars /\ <<>> \in Chars /\ MaxLength \in Nat
     BY EmptySeq DEF ConstantsRight, Chars
  <1>2. CASE op \in [f : {"setCharAt"}, c : {"x"}]
     BY <1>2 DEF OpCases
  <1>3. CASE op \in [f : {"doReverse", "getTerminatedBuffer"}]
     BY <1>3 DEF OpCases
  <1>4. CASE op \in [f : {"doAppend"}, text : Text]
     BY <1>1, <1>4 DEF OpCases
  <1>5. CASE op \in [f : {"doReplace"}, text : Text \cup {<<>>}, n : 0..1]
     BY <1>1, <1>5 DEF OpCases
  <1>6. CASE op \in [f : {"getBuffer"}, n : 0..MaxLength]
     BY <1>1, <1>6 DEF OpCases
  <1> QED BY <1>2, <1>3, <1>4, <1>5, <1>6 DEF Ops

(* An operation makes a text of a text; how long it gets depends on how      *)
(* long the text was.                                                        *)
LEMMA EditedText ==
  ASSUME ConstantsRight, NEW op \in Ops, NEW x \in Chars
  PROVE  /\ Edited(op, x) \in Chars
         /\ op.f \in {"setCharAt", "doReverse", "getTerminatedBuffer"} => Len(Edited(op, x)) = Len(x)
         /\ op.f = "getBuffer" => Edited(op, x) = <<>> /\ Len(Edited(op, x)) = 0
         /\ op.f = "doAppend"  => op.text \in Chars /\ Len(Edited(op, x)) = Len(x) + Len(op.text)
         /\ op.f = "doReplace" => /\ op.text \in Chars /\ op.n \in 0..1
                                  /\ Len(Edited(op, x)) =
                                       Len(op.text) + IF Len(x) >= op.n THEN Len(x) - op.n ELSE 0
  <1>1. OpCases(op)
     BY OpsAre
  <1>2. "x" \in CodeUnit /\ Len(x) \in Nat
     BY OwnUnits, LenProperties DEF Chars
  <1>3. CASE op.f = "setCharAt" /\ op.c = "x"
     <2>1. CASE x = <<>>
        BY <1>3, <2>1 DEF Edited
     <2>2. CASE x # <<>>
        <3>1. 1 \in 1..Len(x)
           BY <1>2, <2>2, EmptySeq DEF Chars
        <3>2. Edited(op, x) = [x EXCEPT ![1] = "x"]
           BY <1>3, <2>2 DEF Edited
        <3> QED BY <1>2, <1>3, <3>1, <3>2, ExceptSeq DEF Chars
     <2> QED BY <2>1, <2>2
  <1>4. CASE op.f = "doReverse"
     <2>1. Edited(op, x) = [i \in 1..Len(x) |-> x[(Len(x) - i) + 1]]
        BY <1>4 DEF Edited, Reverse
     <2>2. \A i \in 1..Len(x) : (Len(x) - i) + 1 \in 1..Len(x)
        BY <1>2
     <2>3. \A i \in 1..Len(x) : x[(Len(x) - i) + 1] \in CodeUnit
        BY <2>2, ElementOfSeq DEF Chars
     <2>4. Edited(op, x) \in [1..Len(x) -> CodeUnit]
        BY <2>1, <2>3
     <2>5. Edited(op, x) \in Chars
        BY <1>2, <2>4, SeqDef DEF Chars
     <2>6. Len(Edited(op, x)) = Len(x)
        BY <1>2, <2>4, <2>5, LenProperties DEF Chars
     <2> QED BY <1>4, <2>5, <2>6
  <1>5. CASE op.f = "getTerminatedBuffer"
     BY <1>5 DEF Edited
  <1>6. CASE op.f = "doAppend" /\ op.text \in Chars
     <2>1. Edited(op, x) = x \o op.text
        BY <1>6 DEF Edited
     <2> QED BY <1>6, <2>1, ConcatProperties DEF Chars
  <1>7. CASE op.f = "doReplace" /\ op.text \in Chars /\ op.n \in 0..1
     <2>1. Edited(op, x) = op.text \o SubSeq(x, op.n + 1, Len(x))
        BY <1>7 DEF Edited
     <2>2. /\ SubSeq(x, op.n + 1, Len(x)) \in Chars
           /\ Len(SubSeq(x, op.n + 1, Len(x))) = IF Len(x) >= op.n THEN Len(x) - op.n ELSE 0
        BY <1>2, <1>7 DEF Chars
     <2> HIDE DEF Edited
     <2> QED BY <1>7, <2>1, <2>2, ConcatProperties DEF Chars
  <1>8. CASE op.f = "getBuffer"
     <2>1. Edited(op, x) = <<>>
        BY <1>8 DEF Edited
     <2> QED BY <1>8, <2>1, EmptySeq DEF Chars
  <1> QED BY <1>1, <1>3, <1>4, <1>5, <1>6, <1>7, <1>8 DEF OpCases

-------------------------------------------------------------------------------
(* The invariant. *)

(* The types, with counts that might be negative. *)
Allocating == {"isBufferWritable", "clone?", "allocate"}
Rewriting  == {"drop", "write"}
Replacing  == {"release", "assign"}
ChangeTask == [pc : Allocating \cup Rewriting, s : Str, from : Str, op : Ops,
               old : Array \cup {None}, delete : BOOLEAN, shown : Chars]
AssignTask == [pc : Replacing, s : Str, from : Str, how : {"copy", "move", "bogus", "empty"}]
String     == [kind : {"short", "long", "bogus"}, array : Array \cup {None}, units : Chars,
               length : Nat, open : BOOLEAN]
Types == /\ str \in [Str -> String]
         /\ heap \in [Array -> [refs : Int, units : Chars]]
         /\ task \in [Thread -> {Idle} \cup ChangeTask \cup AssignTask]
         /\ value \in [Str -> Chars]

(* The storage of one string. *)
Shape(s) ==
  /\ str[s].kind = "short" => str[s].array = None /\ Len(str[s].units) = US_STACKBUF_SIZE
  /\ str[s].kind = "long"  => str[s].array \in Array /\ str[s].units = <<>>
  /\ str[s].kind = "bogus" => str[s] = BogusString
  /\ str[s].length <= Capacity(s)
  /\ str[s].open => str[s].length = 0 /\ ~Shared(s)

(* What the thread t knows at each step of its call. *)
TaskShape(t) ==
  /\ task[t].pc \in Allocating \cup Rewriting => task[t].s[1] = t /\ task[t].from = task[t].s
  /\ task[t].pc \in Allocating =>
       /\ task[t].old = None /\ ~task[t].delete /\ task[t].shown = <<>>
       /\ Allowed(task[t].op, task[t].s)
  /\ task[t].pc = "isBufferWritable" => Len(Edited(task[t].op, Shown(task[t].s))) <= Capacity(task[t].s)
  /\ task[t].pc = "drop" => task[t].old \in Array /\ ~task[t].delete
  /\ task[t].pc \in Replacing =>
       /\ task[t].s[1] = t
       /\ task[t].how \in {"copy", "move"} => task[t].from # task[t].s
       /\ task[t].how = "move" => task[t].from[1] = t
       /\ task[t].pc = "assign" => str[task[t].s] = Empty

(* A string with storage of its own that the edited text will fit in. *)
Writing(t) ==
  task[t].pc \in Rewriting =>
    /\ str[task[t].s].kind # "bogus" /\ ~str[task[t].s].open /\ ~Shared(task[t].s)
    /\ Len(Edited(task[t].op, value[task[t].s])) <= Capacity(task[t].s)
    /\ \/ task[t].op.f = "getBuffer"
       \/ task[t].op.f = "doReplace" /\ task[t].shown # <<>>
       \/ Shown(task[t].s) = value[task[t].s]
    /\ task[t].op.f = "doReplace" /\ task[t].shown # <<>> => task[t].shown = value[task[t].s]

(* Nobody changes a string that another thread is copying from. *)
NoClash(t, u) ==
  task[u].pc \in Replacing /\ task[t] # Idle =>
    /\ task[u].from # task[t].s
    /\ task[t].pc \in Replacing /\ task[t].how = "move" => task[u].from # task[t].from
ReadOnly == \A t, u \in Thread : t # u => NoClash(t, u)

(* References to an array, and who is to delete it. *)
Has(s, a)     == Long(s) /\ str[s].array = a
GivesUp(t, a) == At(t, "drop") /\ task[t].old = a
Deletes(t, a) == At(t, "write") /\ task[t].delete /\ task[t].old = a
Owners(a)     == {s \in Str : Has(s, a)}
Givers(a)     == {t \in Thread : GivesUp(t, a)}
OwnerCount(a) == Cardinality(Owners(a))
GiverCount(a) == Cardinality(Givers(a))
RefsCounted   == \A a \in Array : heap[a].refs = OwnerCount(a) + GiverCount(a)
DeletedOnce   ==
  \A a \in Array :
    /\ heap[a].units = <<>> => heap[a] = Freed
    /\ Live(a) /\ heap[a].refs = 0 => \E t \in Thread : Deletes(t, a)
    /\ \A t \in Thread : Deletes(t, a) => /\ Live(a) /\ heap[a].refs = 0
                                          /\ \A u \in Thread : Deletes(u, a) => u = t

(* A string shows its text except while it is given another. *)
Unsettled(s) == task[s[1]].pc \in Rewriting \cup Replacing /\ task[s[1]].s = s
StringOK(s)  == Shape(s) /\ (~Unsettled(s) => Shown(s) = value[s])
ThreadOK(t)  == TaskShape(t) /\ Writing(t)
Inv == /\ Types /\ RefsCounted /\ DeletedOnce /\ ReadOnly
       /\ \A s \in Str : StringOK(s)
       /\ \A t \in Thread : ThreadOK(t)

(* There are finitely many strings. *)
LEMMA StrFinite == ASSUME ConstantsRight PROVE IsFiniteSet(Str)
  <1>1. IsFiniteSet({1, 2})
     <2>1. IsFiniteSet({1})
        BY FS_Singleton
     <2>2. {1, 2} = {1} \cup {2}
        OBVIOUS
     <2> QED BY <2>1, <2>2, FS_AddElement
  <1> QED BY <1>1, FS_Product DEF ConstantsRight, Str

(* The counts of the strings that have an array and of the threads that are *)
(* still to give it up are natural numbers.                                 *)
LEMMA CountsFinite ==
  ASSUME ConstantsRight, NEW a
  PROVE  /\ IsFiniteSet(Owners(a)) /\ IsFiniteSet(Givers(a))
         /\ OwnerCount(a) \in Nat /\ GiverCount(a) \in Nat
  <1>1. Owners(a) \subseteq Str /\ Givers(a) \subseteq Thread
     BY DEF Owners, Givers
  <1> QED BY <1>1, StrFinite, FS_Subset, FS_CardinalityType DEF ConstantsRight, OwnerCount, GiverCount

(* The same in the next state. *)
LEMMA CountsFiniteNext ==
  ASSUME ConstantsRight, NEW a
  PROVE  /\ IsFiniteSet(Owners(a)') /\ IsFiniteSet(Givers(a)')
         /\ OwnerCount(a)' \in Nat /\ GiverCount(a)' \in Nat
  <1>1. Owners(a)' \subseteq Str /\ Givers(a)' \subseteq Thread
     BY DEF Owners, Givers
  <1> QED BY <1>1, StrFinite, FS_Subset, FS_CardinalityType DEF ConstantsRight, OwnerCount, GiverCount

(* What a small count says. *)
LEMMA FewReferences ==
  ASSUME ConstantsRight, Types, RefsCounted, NEW a \in Array
  PROVE  /\ heap[a].refs \in Nat
         /\ heap[a].refs = 0 => /\ \A s \in Str : ~Has(s, a)
                                /\ \A t \in Thread : ~GivesUp(t, a)
         /\ \A s \in Str : Has(s, a) /\ heap[a].refs <= 1 =>
              /\ heap[a].refs = 1
              /\ \A u \in Str : Has(u, a) => u = s
              /\ \A t \in Thread : ~GivesUp(t, a)
         /\ \A t \in Thread : GivesUp(t, a) /\ heap[a].refs <= 1 =>
              /\ heap[a].refs = 1
              /\ \A s \in Str : ~Has(s, a)
              /\ \A u \in Thread : GivesUp(u, a) => u = t
  <1> DEFINE n == OwnerCount(a)
  <1> DEFINE m == GiverCount(a)
  <1>1. heap[a].refs = n + m /\ n \in Nat /\ m \in Nat
     BY CountsFinite DEF RefsCounted
  <1>2. IsFiniteSet(Owners(a)) /\ IsFiniteSet(Givers(a)) /\ Cardinality(Owners(a)) = n /\ Cardinality(Givers(a)) = m
     BY CountsFinite DEF OwnerCount, GiverCount
  <1>3. /\ \A s : s \in Owners(a) <=> s \in Str /\ Has(s, a)
        /\ \A t : t \in Givers(a) <=> t \in Thread /\ GivesUp(t, a)
     BY DEF Owners, Givers
  <1> HIDE DEF n, m
  <1>4. (n = 0 <=> Owners(a) = {}) /\ (m = 0 <=> Givers(a) = {})
     BY <1>2, FS_EmptySet
  <1>5. /\ n = 1 => \E s : Owners(a) = {s}
        /\ m = 1 => \E t : Givers(a) = {t}
     BY <1>2, FS_Singleton
  <1>6. heap[a].refs \in Nat
     BY <1>1
  <1>7. ASSUME heap[a].refs = 0
        PROVE  (\A s \in Str : ~Has(s, a)) /\ \A t \in Thread : ~GivesUp(t, a)
     BY <1>1, <1>3, <1>4, <1>7
  <1>8. ASSUME NEW s \in Str, Has(s, a), heap[a].refs <= 1
        PROVE  /\ heap[a].refs = 1
               /\ \A u \in Str : Has(u, a) => u = s
               /\ \A t \in Thread : ~GivesUp(t, a)
     <2>1. n = 1 /\ m = 0
        BY <1>1, <1>3, <1>4, <1>8
     <2> QED BY <1>1, <1>3, <1>4, <1>5, <1>8, <2>1
  <1>9. ASSUME NEW t \in Thread, GivesUp(t, a), heap[a].refs <= 1
        PROVE  /\ heap[a].refs = 1
               /\ \A s \in Str : ~Has(s, a)
               /\ \A u \in Thread : GivesUp(u, a) => u = t
     <2>1. n = 0 /\ m = 1
        BY <1>1, <1>3, <1>4, <1>9
     <2> QED BY <1>1, <1>3, <1>4, <1>5, <1>9, <2>1
  <1> QED BY <1>6, <1>7, <1>8, <1>9

(* How a step changes the counts: who comes and who goes. *)
OtherOwners(s, v, a) == \A u \in Str \ {s, v} : Has(u, a)' <=> Has(u, a)

(* How the number of strings that have an array changes when only s and v   *)
(* may come or go.                                                          *)
LEMMA OwnersChange ==
  ASSUME ConstantsRight, NEW a, NEW s \in Str, NEW v \in Str, OtherOwners(s, v, a)
  PROVE  /\ OwnerCount(a) \in Nat
         /\ (Has(s, a)' <=> Has(s, a)) /\ (Has(v, a)' <=> Has(v, a)) => OwnerCount(a)' = OwnerCount(a)
         /\ ~Has(s, a) /\ Has(s, a)' /\ (Has(v, a)' <=> Has(v, a) \/ v = s)
              => OwnerCount(a)' = OwnerCount(a) + 1
         /\ Has(s, a) /\ ~Has(s, a)' /\ (Has(v, a)' <=> Has(v, a) /\ v # s)
              => OwnerCount(a)' = OwnerCount(a) - 1
         /\ Has(v, a) /\ ~Has(s, a) /\ ~Has(v, a)' /\ Has(s, a)'
              => OwnerCount(a)' = OwnerCount(a)
  <1>1. /\ IsFiniteSet(Owners(a)) /\ OwnerCount(a) \in Nat /\ OwnerCount(a) = Cardinality(Owners(a))
        /\ OwnerCount(a)' = Cardinality(Owners(a)')
     BY CountsFinite DEF OwnerCount
  <1>2. /\ \A u : u \in Owners(a) <=> u \in Str /\ Has(u, a)
        /\ \A u : u \in Owners(a)' <=> u \in Str /\ Has(u, a)'
     BY DEF Owners
  <1>3. \A u \in Str \ {s, v} : Has(u, a)' <=> Has(u, a)
     BY DEF OtherOwners
  <1>4. ASSUME Has(s, a)' <=> Has(s, a), Has(v, a)' <=> Has(v, a) PROVE OwnerCount(a)' = OwnerCount(a)
     <2>1. Owners(a)' = Owners(a)
        BY <1>2, <1>3, <1>4
     <2> QED BY <1>1, <2>1
  <1>5. ASSUME ~Has(s, a), Has(s, a)', Has(v, a)' <=> Has(v, a) \/ v = s PROVE OwnerCount(a)' = OwnerCount(a) + 1
     <2>1. Owners(a)' = Owners(a) \cup {s} /\ s \notin Owners(a)
        BY <1>2, <1>3, <1>5
     <2> QED BY <1>1, <2>1, FS_AddElement
  <1>6. ASSUME Has(s, a), ~Has(s, a)', Has(v, a)' <=> Has(v, a) /\ v # s PROVE OwnerCount(a)' = OwnerCount(a) - 1
     <2>1. Owners(a)' = Owners(a) \ {s} /\ s \in Owners(a)
        BY <1>2, <1>3, <1>6
     <2> QED BY <1>1, <2>1, FS_RemoveElement
  <1>7. ASSUME Has(v, a), ~Has(s, a), ~Has(v, a)', Has(s, a)' PROVE OwnerCount(a)' = OwnerCount(a)
     <2> DEFINE T == Owners(a) \ {v}
     <2>1. Owners(a)' = T \cup {s} /\ s \notin T /\ v \in Owners(a)
        BY <1>2, <1>3, <1>7
     <2>2. IsFiniteSet(T) /\ Cardinality(T) = OwnerCount(a) - 1
        BY <1>1, <2>1, FS_RemoveElement
     <2>3. Cardinality(T \cup {s}) = Cardinality(T) + 1
        <3> HIDE DEF T
        <3> QED BY <2>1, <2>2, FS_AddElement
     <2> HIDE DEF T
     <2> QED BY <1>1, <2>1, <2>2, <2>3
  <1> QED BY <1>1, <1>4, <1>5, <1>6, <1>7

(* How the number of threads that are still to give up an array changes     *)
(* when only t makes a step.                                                *)
LEMMA GiversChange ==
  ASSUME ConstantsRight, NEW a, NEW t \in Thread,
         \A u \in Thread : u # t => task'[u] = task[u]
  PROVE  /\ GiverCount(a) \in Nat
         /\ (GivesUp(t, a)' <=> GivesUp(t, a)) => GiverCount(a)' = GiverCount(a)
         /\ ~GivesUp(t, a) /\ GivesUp(t, a)' => GiverCount(a)' = GiverCount(a) + 1
         /\ GivesUp(t, a) /\ ~GivesUp(t, a)' => GiverCount(a)' = GiverCount(a) - 1
  <1>1. /\ IsFiniteSet(Givers(a)) /\ GiverCount(a) \in Nat /\ GiverCount(a) = Cardinality(Givers(a))
        /\ GiverCount(a)' = Cardinality(Givers(a)')
     BY CountsFinite DEF GiverCount
  <1>2. /\ \A u : u \in Givers(a) <=> u \in Thread /\ GivesUp(u, a)
        /\ \A u : u \in Givers(a)' <=> u \in Thread /\ GivesUp(u, a)'
     BY DEF Givers
  <1>3. \A u \in Thread : u # t => (GivesUp(u, a)' <=> GivesUp(u, a))
     BY DEF GivesUp, At
  <1>4. ASSUME GivesUp(t, a)' <=> GivesUp(t, a) PROVE GiverCount(a)' = GiverCount(a)
     <2>1. Givers(a)' = Givers(a)
        BY <1>2, <1>3, <1>4
     <2> QED BY <1>1, <2>1
  <1>5. ASSUME ~GivesUp(t, a), GivesUp(t, a)' PROVE GiverCount(a)' = GiverCount(a) + 1
     <2>1. Givers(a)' = Givers(a) \cup {t} /\ t \notin Givers(a)
        BY <1>2, <1>3, <1>5
     <2> QED BY <1>1, <2>1, FS_AddElement
  <1>6. ASSUME GivesUp(t, a), ~GivesUp(t, a)' PROVE GiverCount(a)' = GiverCount(a) - 1
     <2>1. Givers(a)' = Givers(a) \ {t} /\ t \in Givers(a)
        BY <1>2, <1>3, <1>6
     <2> QED BY <1>1, <2>1, FS_RemoveElement
  <1> QED BY <1>1, <1>4, <1>5, <1>6

-------------------------------------------------------------------------------
(* What a step of one thread leaves alone. *)

Others(t) == \A u \in Thread : u # t => task'[u] = task[u]

(* A step of t leaves the tasks of the others alone. *)
LEMMA BecomeIs ==
  ASSUME Types, NEW t \in Thread, NEW r, Become(t, r)
  PROVE  /\ Others(t) /\ task'[t] = r
         /\ r \in {Idle} \cup ChangeTask \cup AssignTask
               => task' \in [Thread -> {Idle} \cup ChangeTask \cup AssignTask]
  BY DEF Types, Become, Others

(* A thread's task has the fields of its kind of call. *)
LEMMA TaskIs ==
  ASSUME Types, NEW t \in Thread
  PROVE  /\ task[t] = Idle <=> At(t, "idle")
         /\ task[t].pc \in Allocating \cup Rewriting <=> task[t] \in ChangeTask
         /\ task[t].pc \in Replacing <=> task[t] \in AssignTask
         /\ task[t] \in ChangeTask \cup AssignTask => task[t].s \in Str /\ task[t].from \in Str
         /\ At(t, "idle") \/ task[t].pc \in Allocating \cup Rewriting \cup Replacing
  <1>1. task[t] \in {Idle} \cup ChangeTask \cup AssignTask
     BY DEF Types
  <1>2. CASE task[t] = Idle
     BY <1>2 DEF Idle, At, Allocating, Rewriting, Replacing, ChangeTask, AssignTask
  <1>3. CASE task[t] \in ChangeTask
     <2>1. task[t].pc \in Allocating \cup Rewriting /\ task[t].s \in Str /\ task[t].from \in Str
        BY <1>3 DEF ChangeTask
     <2> QED BY <1>3, <2>1 DEF Idle, At, Allocating, Rewriting, Replacing, AssignTask
  <1>4. CASE task[t] \in AssignTask
     <2>1. task[t].pc \in Replacing /\ task[t].s \in Str /\ task[t].from \in Str
        BY <1>4 DEF AssignTask
     <2> QED BY <1>4, <2>1 DEF Idle, At, Allocating, Rewriting, Replacing, ChangeTask
  <1> QED BY <1>1, <1>2, <1>3, <1>4

(* A string has its fields. *)
LEMMA StrIs ==
  ASSUME Types, NEW s \in Str
  PROVE  /\ str[s] \in String /\ str[s].kind \in {"short", "long", "bogus"}
         /\ str[s].array \in Array \cup {None} /\ str[s].units \in Chars
         /\ str[s].length \in Nat /\ str[s].open \in BOOLEAN
         /\ value[s] \in Chars
  BY DEF Types, String

(* Text and room of a string, for each kind of storage. *)
LEMMA Storage ==
  ASSUME ConstantsRight, Types, NEW s \in Str, Shape(s)
  PROVE  /\ Units(s) \in Chars /\ Capacity(s) = Len(Units(s)) /\ Capacity(s) \in Nat
         /\ Shown(s) \in Chars
         /\ str[s].kind # "bogus" => Shown(s) = SubSeq(Units(s), 1, str[s].length) /\ Len(Shown(s)) = str[s].length
         /\ str[s].length \in 0..Len(Units(s))
  <1>1. str[s] \in String /\ str[s].units \in Chars /\ str[s].length \in Nat
     BY StrIs
  <1>2. Units(s) \in Chars
     BY <1>1 DEF Types, Shape, Units, Long
  <1>3. Capacity(s) = Len(Units(s)) /\ Capacity(s) \in Nat /\ str[s].length \in 0..Len(Units(s))
     BY <1>1, <1>2, LenProperties DEF Capacity, Shape, Chars
  <1>4. CASE str[s].kind = "bogus"
     <2>1. Shown(s) = <<"bogus">>
        BY <1>4 DEF Shown, Bogus
     <2>2. <<"bogus">> \in Chars
        BY OwnUnits DEF Chars
     <2> QED BY <1>2, <1>3, <1>4, <2>1, <2>2
  <1>5. CASE str[s].kind # "bogus"
     <2>1. Shown(s) = SubSeq(Units(s), 1, str[s].length)
        BY <1>5 DEF Shown
     <2>2. SubSeq(Units(s), 1, str[s].length) \in Chars /\ Len(SubSeq(Units(s), 1, str[s].length)) = str[s].length
        BY <1>2, <1>3, SubText
     <2> QED BY <1>2, <1>3, <2>1, <2>2
  <1> QED BY <1>4, <1>5

(* Nothing about the storage of u changes that anybody may see. *)
Kept(u) == /\ str'[u] = str[u] /\ value'[u] = value[u]
           /\ Long(u) => heap'[str[u].array].units = heap[str[u].array].units
KeptAlone(u) == /\ Kept(u)
                /\ Long(u) /\ heap[str[u].array].refs <= 1 => heap'[str[u].array].refs <= 1

(* A string whose storage is kept shows what it showed. *)
LEMMA KeptStorage ==
  ASSUME NEW u \in Str, Kept(u)
  PROVE  /\ Long(u)' <=> Long(u)
         /\ Units(u)' = Units(u) /\ Shown(u)' = Shown(u) /\ Capacity(u)' = Capacity(u)
  <1>1. Long(u)' <=> Long(u)
     BY DEF Kept, Long
  <1>2. Units(u)' = Units(u)
     BY DEF Kept, Long, Units
  <1>3. Shown(u)' = Shown(u)
     BY <1>2 DEF Kept, Shown
  <1>4. Capacity(u)' = Capacity(u)
     BY <1>2 DEF Capacity
  <1> QED BY <1>1, <1>2, <1>3, <1>4

(* A string that shares its array with nobody goes on so, if its counter    *)
(* does not grow.                                                           *)
LEMMA KeptUnshared ==
  ASSUME Types, Types', NEW u \in Str, KeptAlone(u), Shape(u)
  PROVE  ~Shared(u) => ~Shared(u)'
  <1>1. CASE ~Long(u)
     BY <1>1, KeptStorage DEF KeptAlone, Shared
  <1>2. CASE Long(u)
     <2>1. PICK a \in Array : a = str[u].array
        BY <1>2 DEF Shape, Long
     <2>2. str'[u].array = a /\ str'[u] = str[u]
        BY <2>1 DEF KeptAlone, Kept
     <2>3. heap[a].refs \in Int /\ heap'[a].refs \in Int
        BY DEF Types
     <2>4. heap[a].refs <= 1 => heap'[a].refs <= 1
        BY <1>2, <2>1 DEF KeptAlone
     <2> QED BY <1>2, <2>1, <2>2, <2>3, <2>4 DEF Shared, Long
  <1> QED BY <1>1, <1>2

(* A string that others leave alone remains as it should be. *)
LEMMA KeptOK ==
  ASSUME ConstantsRight, Types, Types', NEW u \in Str, KeptAlone(u), StringOK(u), Unsettled(u) => Unsettled(u)'
  PROVE  StringOK(u)'
  <1>1. Kept(u) /\ Shape(u) /\ str'[u] = str[u] /\ value'[u] = value[u]
     BY DEF KeptAlone, Kept, StringOK
  <1>2. ~Shared(u) => ~Shared(u)'
     BY <1>1, KeptUnshared
  <1>3. Shown(u)' = Shown(u) /\ Capacity(u)' = Capacity(u)
     BY <1>1, KeptStorage
  <1>4. Shape(u)'
     BY <1>1, <1>2, <1>3 DEF Shape
  <1>5. ~Unsettled(u)' => Shown(u)' = value'[u]
     BY <1>1, <1>3 DEF StringOK
  <1> QED BY <1>4, <1>5 DEF StringOK

(* Another thread's call goes on where it was. *)
LEMMA KeptThread ==
  ASSUME ConstantsRight, Types, Types', NEW v \in Thread, task'[v] = task[v], ThreadOK(v),
         At(v, "idle") \/ (Shape(task[v].s) /\ KeptAlone(task[v].s))
  PROVE  ThreadOK(v)'
  <1>1. CASE At(v, "idle")
     BY <1>1 DEF At, ThreadOK, TaskShape, Writing, Allocating, Rewriting, Replacing
  <1>2. CASE ~At(v, "idle")
     <2>1. PICK s \in Str : s = task[v].s
        BY <1>2, TaskIs
     <2>2. Kept(s) /\ Shape(s) /\ str'[s] = str[s] /\ value'[s] = value[s] /\ task'[v].s = s
        BY <1>2, <2>1 DEF KeptAlone, Kept
     <2>3. ~Shared(s) => ~Shared(s)'
        BY <1>2, <2>1, <2>2, KeptUnshared
     <2>4. Shown(s)' = Shown(s) /\ Capacity(s)' = Capacity(s)
        BY <2>2, KeptStorage
     <2>5. \A op : Allowed(op, s)' <=> Allowed(op, s)
        BY <2>2, <2>4 DEF Allowed, IsWritable
     <2>6. TaskShape(v)'
        BY <2>1, <2>2, <2>4, <2>5 DEF ThreadOK, TaskShape, At
     <2>7. Writing(v)'
        BY <2>1, <2>2, <2>3, <2>4 DEF ThreadOK, Writing
     <2> QED BY <2>6, <2>7 DEF ThreadOK
  <1> QED BY <1>1, <1>2

(* What stays the same for everybody else; the strings in C are changed.     *)
LEMMA Combine ==
  ASSUME ConstantsRight, Inv, Types', NEW t \in Thread, Others(t), NEW C \in SUBSET Str,
         \A u \in Str \ C : KeptAlone(u) /\ (u[1] = t /\ Unsettled(u) => Unsettled(u)'),
         \A u \in C : StringOK(u)',
         \A v \in Thread : v # t /\ ~At(v, "idle") => task[v].s \notin C,
         ThreadOK(t)'
  PROVE  (\A s \in Str : StringOK(s)') /\ (\A v \in Thread : ThreadOK(v)')
  <1>1. ASSUME NEW u \in Str \ C PROVE StringOK(u)'
     <2>1. Unsettled(u) => Unsettled(u)'
        BY DEF Unsettled, Others, Str
     <2> QED BY <2>1, KeptOK DEF Inv
  <1>2. ASSUME NEW v \in Thread, v # t PROVE ThreadOK(v)'
     <2>1. task'[v] = task[v] /\ ThreadOK(v)
        BY <1>2 DEF Others, Inv
     <2>2. CASE At(v, "idle")
        <3>1. Types /\ (At(v, "idle") \/ (Shape(task[v].s) /\ KeptAlone(task[v].s)))
           BY <2>2 DEF Inv
        <3> QED BY <2>1, <3>1, KeptThread
     <2>3. CASE ~At(v, "idle")
        <3>1. task[v].s \in Str \ C
           BY <1>2, <2>3, TaskIs DEF Inv
        <3>2. Shape(task[v].s) /\ KeptAlone(task[v].s)
           BY <3>1 DEF Inv, StringOK
        <3> QED BY <2>1, <3>2, KeptThread DEF Inv
     <2> QED BY <2>2, <2>3
  <1> QED BY <1>1, <1>2

(* It is enough to look at the thread that makes the step. *)
LEMMA ReadOnlyKept ==
  ASSUME ReadOnly, NEW t \in Thread, Others(t),
         \A u \in Thread : u # t => NoClash(t, u)' /\ NoClash(u, t)'
  PROVE  ReadOnly'
  <1>1. \A u, v \in Thread : u # t /\ v # t /\ u # v => NoClash(u, v)'
     BY DEF ReadOnly, NoClash, Others
  <1> QED BY <1>1 DEF ReadOnly

(* A call that goes on with the same strings, or ends. *)
LEMMA ReadOnlySame ==
  ASSUME ReadOnly, NEW t \in Thread, Others(t),
         \/ task'[t] = Idle
         \/ /\ task[t] # Idle /\ task'[t].s = task[t].s
            /\ task'[t].pc \in Replacing => /\ task[t].pc \in Replacing
                                            /\ task'[t].from = task[t].from /\ task'[t].how = task[t].how
  PROVE  ReadOnly'
  <1>1. CASE task'[t] = Idle
     <2>1. task'[t].pc \notin Replacing
        BY <1>1 DEF Idle, Replacing
     <2> QED BY <1>1, <2>1, ReadOnlyKept DEF NoClash
  <1>2. CASE /\ task[t] # Idle /\ task'[t].s = task[t].s
             /\ task'[t].pc \in Replacing => /\ task[t].pc \in Replacing
                                             /\ task'[t].from = task[t].from /\ task'[t].how = task[t].how
     BY <1>2, ReadOnlyKept DEF NoClash, ReadOnly, Others
  <1> QED BY <1>1, <1>2

(* Steps that no count notices. *)
SameRefs(t) ==
  /\ \A s \in Str, a \in Array : Has(s, a)' <=> Has(s, a)
  /\ \A a \in Array : /\ heap'[a].refs = heap[a].refs
                      /\ heap'[a] = heap[a] \/ (heap[a].units # <<>> /\ heap'[a].units # <<>>)
                      /\ (GivesUp(t, a)' <=> GivesUp(t, a)) /\ (Deletes(t, a)' <=> Deletes(t, a))

(* Counts that no step of the thread touches remain exact. *)
LEMMA QuietRefs ==
  ASSUME ConstantsRight, Types, Types', RefsCounted, DeletedOnce, NEW t \in Thread, Others(t), SameRefs(t)
  PROVE  RefsCounted' /\ DeletedOnce'
  <1>1. ASSUME NEW a \in Array PROVE heap'[a].refs = OwnerCount(a)' + GiverCount(a)'
     <2>1. OwnerCount(a)' = OwnerCount(a)
        <3>1. PICK s \in Str : s = <<t, 1>>
           BY DEF Str
        <3>2. OtherOwners(s, s, a) /\ (Has(s, a)' <=> Has(s, a))
           BY DEF SameRefs, OtherOwners
        <3> QED BY <3>2, OwnersChange
     <2>2. GiverCount(a)' = GiverCount(a)
        BY GiversChange DEF SameRefs, Others
     <2>3. heap'[a].refs = heap[a].refs /\ heap[a].refs = OwnerCount(a) + GiverCount(a)
        BY DEF SameRefs, RefsCounted
     <2> QED BY <2>1, <2>2, <2>3
  <1>2. \A a \in Array : \A u \in Thread : Deletes(u, a)' <=> Deletes(u, a)
     BY DEF SameRefs, Deletes, Others, At
  <1>3. \A a \in Array : /\ Live(a)' <=> Live(a)
                         /\ heap'[a].refs = heap[a].refs
                         /\ (heap'[a].units = <<>> => heap[a].units = <<>> /\ heap'[a] = heap[a])
     BY DEF SameRefs, Live, Freed
  <1> QED BY <1>1, <1>2, <1>3 DEF RefsCounted, DeletedOnce

-------------------------------------------------------------------------------
(* Steps that change no string and no array. *)

(* Steps that change no string and no array. *)
LEMMA QuietStep ==
  ASSUME ConstantsRight, Inv, Types', NEW t \in Thread, Others(t), UNCHANGED <<str, heap, value>>,
         \A u \in Str : u[1] = t /\ Unsettled(u) => Unsettled(u)',
         \A a \in Array : (GivesUp(t, a)' <=> GivesUp(t, a)) /\ (Deletes(t, a)' <=> Deletes(t, a)),
         ReadOnly', ThreadOK(t)'
  PROVE  Inv'
  <1>1. \A u \in Str : KeptAlone(u)
     BY DEF KeptAlone, Kept
  <1>2. (\A s \in Str : StringOK(s)') /\ (\A v \in Thread : ThreadOK(v)')
     <2>1. {} \in SUBSET Str
        OBVIOUS
     <2>2. \A u \in Str \ {} : KeptAlone(u) /\ (u[1] = t /\ Unsettled(u) => Unsettled(u)')
        BY <1>1
     <2>3. /\ \A u \in {} : StringOK(u)'
           /\ \A v \in Thread : v # t /\ ~At(v, "idle") => task[v].s \notin {}
        OBVIOUS
     <2> QED BY <2>1, <2>2, <2>3, Combine
  <1>3. SameRefs(t)
     BY DEF SameRefs, Has, Long
  <1>4. RefsCounted' /\ DeletedOnce'
     BY <1>3, QuietRefs DEF Inv
  <1> QED BY <1>2, <1>4 DEF Inv

(* The call of an operation begins (setCharAt, doReverse, doAppend,         *)
(* doReplace, getBuffer, getTerminatedBuffer): nothing is changed yet.      *)
LEMMA ChangeStep ==
  ASSUME ConstantsRight, Inv, NEW t \in Thread, NEW s \in Str, NEW op \in Ops, Change(t, s, op)
  PROVE  Inv'
  <1>1. /\ UNCHANGED <<str, heap, value>> /\ s[1] = t /\ At(t, "idle") /\ Allowed(op, s) /\ ~BeingRead(s)
        /\ Types /\ StringOK(s)
     BY DEF Change, Mine, Inv
  <1>2. PICK p \in {"isBufferWritable", "clone?"} :
          /\ Become(t, [pc |-> p, s |-> s, from |-> s, op |-> op, old |-> None, delete |-> FALSE, shown |-> <<>>])
          /\ p = "isBufferWritable" => \/ op.f = "doAppend" /\ NewCapacity(op, s) <= Capacity(s)
                                       \/ op.f = "getTerminatedBuffer" /\ str[s].length < Capacity(s)
     BY DEF Change
  <1> DEFINE r == [pc |-> p, s |-> s, from |-> s, op |-> op, old |-> None, delete |-> FALSE, shown |-> <<>>]
  <1>3. r \in ChangeTask /\ r # Idle /\ p \in Allocating /\ p \notin Rewriting \cup Replacing
     BY EmptySeq DEF ChangeTask, Chars, Allocating, Rewriting, Replacing, Idle
  <1>4. Others(t) /\ task'[t] = r /\ Types'
     BY <1>1, <1>2, <1>3, BecomeIs DEF Types
  <1>5. task'[t].pc = p /\ task'[t].s = s /\ task'[t].op = op /\ task'[t].from = s
     BY <1>4
  <1>6. Shown(s)' = Shown(s) /\ Capacity(s)' = Capacity(s)
     BY <1>1, KeptStorage DEF Kept
  <1>7. p = "isBufferWritable" => Len(Edited(op, Shown(s))) <= Capacity(s)
     <2>1. CASE op.f = "doAppend" /\ NewCapacity(op, s) <= Capacity(s)
        BY <2>1 DEF NewCapacity
     <2>2. CASE op.f = "getTerminatedBuffer" /\ str[s].length < Capacity(s)
        <3>1. /\ str[s].kind # "bogus" /\ Shown(s) \in Chars /\ Len(Shown(s)) = str[s].length
              /\ str[s].length \in Nat /\ Capacity(s) \in Nat
           BY <1>1, Storage, StrIs DEF Allowed, IsWritable, StringOK
        <3>2. Len(Edited(op, Shown(s))) = Len(Shown(s))
           BY <2>2, <3>1, EditedText
        <3> QED BY <2>2, <3>1, <3>2
     <2> QED BY <1>2, <2>1, <2>2
  <1>8. ThreadOK(t)'
     <2>1. Allowed(op, s)'
        BY <1>1, <1>6 DEF Allowed, IsWritable
     <2>2. p \notin {"drop", "release", "assign"}
        OBVIOUS
     <2>3. task'[t].old = None /\ ~task'[t].delete /\ task'[t].shown = <<>>
        BY <1>4
     <2>4. TaskShape(t)'
        BY <1>1, <1>3, <1>5, <1>6, <1>7, <2>1, <2>2, <2>3 DEF TaskShape
     <2>5. Writing(t)'
        BY <1>3, <1>5 DEF Writing
     <2> QED BY <2>4, <2>5 DEF ThreadOK
  <1>9. ReadOnly'
     <2>1. ASSUME NEW u \in Thread, u # t PROVE NoClash(t, u)' /\ NoClash(u, t)'
        <3>1. task[u].pc \in Replacing => task[u].from # s
           BY <1>1 DEF BeingRead, Replacing
        <3> QED BY <1>3, <1>4, <1>5, <2>1, <3>1 DEF NoClash, Others
     <2> QED BY <1>4, <2>1, ReadOnlyKept DEF Inv
  <1>10. \A a \in Array : (GivesUp(t, a)' <=> GivesUp(t, a)) /\ (Deletes(t, a)' <=> Deletes(t, a))
     BY <1>1, <1>5 DEF GivesUp, Deletes, At
  <1>11. \A u \in Str : u[1] = t /\ Unsettled(u) => Unsettled(u)'
     BY <1>1 DEF Unsettled, At, Rewriting, Replacing
  <1> HIDE DEF r
  <1> QED BY <1>1, <1>4, <1>8, <1>9, <1>10, <1>11, QuietStep

(* Where a call with an operation is, and what it knows of its string. *)
LEMMA InChange ==
  ASSUME Inv, NEW t \in Thread, task[t].pc \in Allocating \cup Rewriting
  PROVE  /\ task[t] \in ChangeTask /\ task[t].s \in Str /\ task[t].op \in Ops
         /\ task[t].s[1] = t /\ task[t].from = task[t].s
         /\ StringOK(task[t].s) /\ TaskShape(t) /\ Writing(t)
  <1>1. task[t] \in ChangeTask /\ TaskShape(t) /\ Writing(t)
     BY TaskIs DEF Inv, ThreadOK
  <1>2. task[t].s \in Str /\ task[t].op \in Ops
     BY <1>1 DEF ChangeTask
  <1> QED BY <1>1, <1>2 DEF Inv, TaskShape

(* Before the array is looked at, a string shows its text. *)
LEMMA StillShown ==
  ASSUME Inv, NEW t \in Thread, task[t].pc \in Allocating
  PROVE  Shown(task[t].s) = value[task[t].s] /\ str[task[t].s].kind # "bogus" /\ ~str[task[t].s].open
  <1>1. StringOK(task[t].s) /\ task[t].s[1] = t /\ Allowed(task[t].op, task[t].s)
     BY InChange DEF TaskShape
  <1>2. ~Unsettled(task[t].s)
     BY <1>1 DEF Unsettled, Allocating, Rewriting, Replacing
  <1> QED BY <1>1, <1>2 DEF StringOK, Allowed, IsWritable

(* The call goes on to p with everything as it was. *)
LEMMA NextPlace ==
  ASSUME ConstantsRight, Inv, NEW t \in Thread, task[t].pc \in Allocating, NEW p \in {"clone?", "allocate", "write"},
         Become(t, [task[t] EXCEPT !.pc = p]), UNCHANGED <<str, heap, value>>,
         p = "write" => /\ ~Shared(task[t].s)
                        /\ Len(Edited(task[t].op, Shown(task[t].s))) <= Capacity(task[t].s)
  PROVE  Inv'
  <1>1. PICK s \in Str : s = task[t].s
     BY InChange
  <1>2. PICK op \in Ops : op = task[t].op
     BY InChange
  <1>3. /\ s[1] = t /\ task[t].from = s /\ StringOK(s) /\ TaskShape(t)
        /\ Shown(s) = value[s] /\ str[s].kind # "bogus" /\ ~str[s].open
        /\ task[t].old = None /\ ~task[t].delete /\ task[t].shown = <<>> /\ Allowed(op, s)
     BY <1>1, <1>2, InChange, StillShown DEF TaskShape
  <1> DEFINE r == [task[t] EXCEPT !.pc = p]
  <1>4. r \in ChangeTask /\ p \in Allocating \cup Rewriting /\ p \notin Replacing
     BY InChange DEF ChangeTask, Allocating, Rewriting, Replacing
  <1>5. Others(t) /\ task'[t] = r /\ Types'
     BY <1>4, BecomeIs DEF Types, Inv
  <1>6. /\ task'[t].pc = p /\ task'[t].s = s /\ task'[t].op = op /\ task'[t].from = s
        /\ task'[t].old = None /\ ~task'[t].delete /\ task'[t].shown = <<>>
     BY <1>1, <1>2, <1>3, <1>5, InChange DEF ChangeTask
  <1>7. Shown(s)' = Shown(s) /\ Capacity(s)' = Capacity(s) /\ (Shared(s)' <=> Shared(s)) /\ str'[s] = str[s]
     <2>1. Kept(s)
        BY DEF Kept
     <2> QED BY <2>1, KeptStorage DEF Shared, Long
  <1>8. TaskShape(t)'
     <2>1. Allowed(op, s)'
        BY <1>3, <1>7 DEF Allowed, IsWritable
     <2> QED BY <1>3, <1>4, <1>6, <2>1 DEF TaskShape
  <1>9. Writing(t)'
     <2>1. CASE p # "write"
        BY <1>6, <2>1 DEF Writing, Rewriting
     <2>2. CASE p = "write"
        BY <1>1, <1>2, <1>3, <1>6, <1>7, <2>2 DEF Writing
     <2> QED BY <2>1, <2>2
  <1>10. ReadOnly'
     <2>1. task[t] # Idle
        BY DEF Idle, Allocating
     <2> QED BY <1>1, <1>4, <1>5, <1>6, <2>1, ReadOnlySame DEF Inv
  <1>11. \A a \in Array : (GivesUp(t, a)' <=> GivesUp(t, a)) /\ (Deletes(t, a)' <=> Deletes(t, a))
     BY <1>6 DEF GivesUp, Deletes, At, Allocating
  <1>12. \A u \in Str : u[1] = t /\ Unsettled(u) => Unsettled(u)'
     BY DEF Unsettled, Allocating, Rewriting, Replacing
  <1> HIDE DEF r
  <1> QED BY <1>5, <1>8, <1>9, <1>10, <1>11, <1>12, QuietStep DEF ThreadOK

(* isBufferWritable: an array that is not shared and has room for the text  *)
(* is written to, every other is cloned.                                    *)
LEMMA IsBufferWritableStep ==
  ASSUME ConstantsRight, Inv, NEW t \in Thread, IsBufferWritable(t)
  PROVE  Inv'
  <1>1. PICK p \in {"clone?", "write"} : /\ Become(t, [task[t] EXCEPT !.pc = p])
                                         /\ p = "write" => ~Shared(task[t].s)
     BY DEF IsBufferWritable
  <1>2. task[t].pc = "isBufferWritable" /\ task[t].pc \in Allocating /\ UNCHANGED <<str, heap, value>>
     BY DEF IsBufferWritable, At, Allocating
  <1>3. Len(Edited(task[t].op, Shown(task[t].s))) <= Capacity(task[t].s)
     BY <1>2, InChange DEF TaskShape
  <1> QED BY <1>1, <1>2, <1>3, NextPlace

(* Memory for the text after the operation. *)
LEMMA EnoughAsked ==
  ASSUME ConstantsRight, Types, NEW s \in Str, NEW op \in Ops, StringOK(s), Allowed(op, s)
  PROVE  /\ NewCapacity(op, s) \in Nat
         /\ Len(Edited(op, Shown(s))) <= NewCapacity(op, s)
         /\ op.f \notin {"doReplace", "getBuffer"} => str[s].length <= NewCapacity(op, s)
         /\ \A n \in Capacities(op, s) : n \in Nat /\ n >= NewCapacity(op, s)
  <1>1. /\ Shown(s) \in Chars /\ Len(Shown(s)) = str[s].length /\ Capacity(s) \in Nat
        /\ str[s].length \in Nat /\ str[s].length <= Capacity(s)
     BY Storage, StrIs DEF StringOK, Shape, Allowed, IsWritable
  <1>2. OpCases(op) /\ Edited(op, Shown(s)) \in Chars
     BY <1>1, OpsAre, EditedText
  <1>3. /\ NewCapacity(op, s) \in Nat
        /\ Len(Edited(op, Shown(s))) <= NewCapacity(op, s)
        /\ op.f \notin {"doReplace", "getBuffer"} => str[s].length <= NewCapacity(op, s)
     <2>1. CASE op.f \in {"setCharAt", "doReverse"}
        <3>1. NewCapacity(op, s) = Capacity(s)
           BY <2>1 DEF NewCapacity
        <3>2. Len(Edited(op, Shown(s))) = str[s].length
           BY <1>1, <2>1, EditedText
        <3> QED BY <1>1, <2>1, <3>1, <3>2
     <2>2. CASE op.f = "getTerminatedBuffer"
        <3>1. NewCapacity(op, s) = str[s].length + 1
           BY <2>2 DEF NewCapacity
        <3>2. Len(Edited(op, Shown(s))) = str[s].length
           BY <1>1, <2>2, EditedText
        <3> QED BY <1>1, <2>2, <3>1, <3>2
     <2>3. CASE op.f = "doAppend"
        <3>1. NewCapacity(op, s) = Len(Edited(op, Shown(s)))
           BY <2>3 DEF NewCapacity
        <3>2. op.text \in Chars /\ Len(Edited(op, Shown(s))) = str[s].length + Len(op.text)
           BY <1>1, <2>3, EditedText, ZenonT(40)
        <3>3. Len(op.text) \in Nat
           BY <3>2, LenProperties DEF Chars
        <3> QED BY <1>1, <2>3, <3>1, <3>2, <3>3
     <2>4. CASE op.f = "doReplace"
        <3>1. NewCapacity(op, s) = Len(Edited(op, Shown(s)))
           BY <2>4 DEF NewCapacity
        <3>2. Len(Edited(op, Shown(s))) \in Nat
           BY <1>2, LenProperties DEF Chars
        <3> QED BY <2>4, <3>1, <3>2
     <2>5. CASE op.f = "getBuffer" /\ op.n \in Nat
        <3>1. NewCapacity(op, s) = op.n
           BY <2>5 DEF NewCapacity
        <3>2. Len(Edited(op, Shown(s))) = 0
           BY <1>1, <2>5, EditedText
        <3> QED BY <2>5, <3>1, <3>2
     <2> QED BY <1>2, <2>1, <2>2, <2>3, <2>4, <2>5 DEF OpCases
  <1>4. \A n \in Capacities(op, s) : n \in Nat /\ n >= NewCapacity(op, s)
     BY <1>3 DEF Capacities, ConstantsRight
  <1> QED BY <1>3, <1>4

(* The condition of cloneArrayIfNeeded: what is not cloned is not shared    *)
(* and has room for the text.                                               *)
LEMMA CloneStep ==
  ASSUME ConstantsRight, Inv, NEW t \in Thread, CloneArrayIfNeeded(t)
  PROVE  Inv'
  <1>1. PICK s \in Str, op \in Ops : s = task[t].s /\ op = task[t].op
     BY InChange DEF CloneArrayIfNeeded, At, Allocating
  <1>2. task[t].pc \in Allocating /\ UNCHANGED <<str, heap, value>>
     BY DEF CloneArrayIfNeeded, At, Allocating
  <1>3. PICK p \in {"allocate", "write"} : /\ Become(t, [task[t] EXCEPT !.pc = p])
                                           /\ p = "write" => ~MustClone(s, op)
     BY <1>1 DEF CloneArrayIfNeeded
  <1>4. StringOK(s) /\ Allowed(op, s) /\ Types
     BY <1>1, <1>2, InChange DEF TaskShape, Inv
  <1>5. /\ NewCapacity(op, s) \in Nat /\ Capacity(s) \in Nat /\ Len(Edited(op, Shown(s))) \in Nat
        /\ Len(Edited(op, Shown(s))) <= NewCapacity(op, s)
     <2>1. Shown(s) \in Chars /\ Capacity(s) \in Nat
        BY <1>4, Storage DEF StringOK
     <2>2. Edited(op, Shown(s)) \in Chars
        BY <2>1, EditedText
     <2> QED BY <1>4, <2>1, <2>2, EnoughAsked, LenProperties DEF Chars
  <1>6. p = "write" => ~Shared(s) /\ Len(Edited(op, Shown(s))) <= Capacity(s)
     BY <1>3, <1>5 DEF MustClone
  <1> QED BY <1>1, <1>2, <1>3, <1>6, NextPlace

(* A copy, move, setToBogus or destructor begins.  Its source is not being  *)
(* changed, and from now on nobody will.                                    *)
LEMMA AssignStep ==
  ASSUME ConstantsRight, Inv, NEW t \in Thread, NEW s \in Str, NEW from \in Str,
         NEW how \in {"copy", "move", "bogus", "empty"}, Assign(t, s, how, from)
  PROVE  Inv'
  <1>1. /\ UNCHANGED <<str, heap, value>> /\ s[1] = t /\ At(t, "idle") /\ ~BeingRead(s) /\ Types
     BY DEF Assign, Mine, Inv
  <1>2. PICK h \in {"copy", "move", "bogus", "empty"} :
          /\ Become(t, [pc |-> "release", s |-> s, from |-> from, how |-> h])
          /\ h \in {"copy", "move"} => from # s
          /\ h = "move" => from[1] = t /\ ~BeingRead(from)
          /\ from = s \/ (from[1] = t /\ ~BeingRead(from)) \/ ~Changing(from)
     <2>1. CASE how = "copy"
        BY <2>1 DEF Assign
     <2>2. CASE how = "move"
        BY <2>2 DEF Assign
     <2>3. CASE how \notin {"copy", "move"}
        BY <2>3 DEF Assign
     <2> QED BY <2>1, <2>2, <2>3
  <1> DEFINE r == [pc |-> "release", s |-> s, from |-> from, how |-> h]
  <1>3. r \in AssignTask /\ r # Idle
     BY DEF AssignTask, Replacing, Idle
  <1>4. Others(t) /\ task'[t] = r /\ Types'
     BY <1>1, <1>2, <1>3, BecomeIs DEF Types
  <1>5. task'[t].pc = "release" /\ task'[t].s = s /\ task'[t].from = from /\ task'[t].how = h
     BY <1>4
  <1>6. ThreadOK(t)'
     BY <1>1, <1>2, <1>5 DEF ThreadOK, TaskShape, Writing, Allocating, Rewriting, Replacing
  <1>7. ReadOnly'
     <2>1. ASSUME NEW u \in Thread, u # t PROVE NoClash(t, u)' /\ NoClash(u, t)'
        <3>1. task'[u] = task[u]
           BY <1>4, <2>1 DEF Others
        <3>2. task[u].pc \in Replacing => task[u].from # s /\ (h = "move" => task[u].from # from)
           BY <1>1, <1>2 DEF BeingRead, Replacing
        <3>3. NoClash(t, u)'
           BY <1>5, <3>1, <3>2 DEF NoClash
        <3>4. task[u] # Idle => task[u].s[1] = u
           BY TaskIs DEF Inv, ThreadOK, TaskShape
        <3>5. task[u] # Idle => from # task[u].s
           BY <1>1, <1>2, <2>1, <3>4 DEF Changing
        <3>6. task[u].pc \in Replacing /\ task[u].how = "move" => from # task[u].from
           <4>1. task[u].pc \in Replacing /\ task[u].how = "move" => task[u].from[1] = u /\ task[u] # Idle
              BY TaskIs DEF Inv, ThreadOK, TaskShape, Idle, Replacing
           <4> QED BY <1>1, <1>2, <2>1, <4>1 DEF Changing
        <3>7. NoClash(u, t)'
           BY <1>5, <3>1, <3>5, <3>6 DEF NoClash
        <3> QED BY <3>3, <3>7
     <2> QED BY <1>4, <2>1, ReadOnlyKept DEF Inv
  <1>8. \A a \in Array : (GivesUp(t, a)' <=> GivesUp(t, a)) /\ (Deletes(t, a)' <=> Deletes(t, a))
     BY <1>1, <1>5 DEF GivesUp, Deletes, At
  <1>9. \A u \in Str : u[1] = t /\ Unsettled(u) => Unsettled(u)'
     BY <1>1 DEF Unsettled, At, Rewriting, Replacing
  <1> HIDE DEF r
  <1> QED BY <1>1, <1>4, <1>6, <1>7, <1>8, <1>9, QuietStep

-------------------------------------------------------------------------------
(* A new array. *)

(* The text that allocate copies into n units. *)
KeptText(s, op, n) == IF op.f = "doReplace" THEN <<>>
                      ELSE SubSeq(Shown(s), 1, Min({n, str[s].length}))
Moved(t, s) == [task[t] EXCEPT !.pc = IF Long(s) THEN "drop" ELSE "write",
                               !.old = str[s].array, !.shown = Shown(s)]
MovesIn(t, s, op, m) ==
  /\ str' = [str EXCEPT ![s] = Stored("short", None, Filled(m, KeptText(s, op, m)), Len(KeptText(s, op, m)))]
  /\ m = US_STACKBUF_SIZE /\ UNCHANGED heap
MovesOut(t, s, op, m, b) ==
  /\ str' = [str EXCEPT ![s] = Stored("long", b, <<>>, Len(KeptText(s, op, m)))]
  /\ m > 0 /\ heap' = [heap EXCEPT ![b] = [refs |-> 1, units |-> Filled(m, KeptText(s, op, m))]]

(* What allocate keeps of the text: all of it, except for doReplace and     *)
(* getBuffer, which do not need it.                                         *)
LEMMA KeptTextIs ==
  ASSUME ConstantsRight, Types, NEW s \in Str, NEW op \in Ops, StringOK(s), Allowed(op, s),
         NEW n \in Nat, n >= NewCapacity(op, s)
  PROVE  /\ KeptText(s, op, n) \in Chars /\ Len(KeptText(s, op, n)) \in Nat /\ Len(KeptText(s, op, n)) <= n
         /\ op.f \notin {"doReplace", "getBuffer"} => KeptText(s, op, n) = Shown(s)
  <1>1. Shown(s) \in Chars /\ Len(Shown(s)) = str[s].length /\ str[s].length \in Nat
     BY Storage, StrIs DEF StringOK, Allowed, IsWritable
  <1>2. op.f \notin {"doReplace", "getBuffer"} => str[s].length <= n
     <2>1. /\ NewCapacity(op, s) \in Nat
           /\ op.f \notin {"doReplace", "getBuffer"} => str[s].length <= NewCapacity(op, s)
        BY EnoughAsked
     <2> QED BY <1>1, <2>1
  <1>3. CASE op.f = "doReplace"
     <2>1. KeptText(s, op, n) = <<>>
        BY <1>3 DEF KeptText
     <2> QED BY <1>3, <2>1, EmptySeq DEF Chars
  <1>4. CASE op.f # "doReplace"
     <2>1. PICK m \in Nat : m = Min({n, str[s].length}) /\ m <= n /\ m <= str[s].length
                            /\ (str[s].length <= n => m = str[s].length)
        <3>1. Min({n, str[s].length}) = IF n <= str[s].length THEN n ELSE str[s].length
           BY <1>1, MinOfTwo
        <3> QED BY <1>1, <3>1
     <2>2. KeptText(s, op, n) = SubSeq(Shown(s), 1, m)
        BY <1>4, <2>1 DEF KeptText
     <2>3. m \in 0..Len(Shown(s))
        BY <1>1, <2>1
     <2>4. SubSeq(Shown(s), 1, m) \in Chars /\ Len(SubSeq(Shown(s), 1, m)) = m
        BY <1>1, <2>3, SubText
     <2>5. SubSeq(Shown(s), 1, Len(Shown(s))) = Shown(s)
        BY <1>1, WholeText
     <2> QED BY <1>1, <1>2, <2>1, <2>2, <2>4, <2>5
  <1> QED BY <1>3, <1>4

(* The ways out of allocate: no memory, an array in the object, or a        *)
(* counted array, with room for the text after the operation.               *)
LEMMA AllocateEffect ==
  ASSUME ConstantsRight, Inv, NEW t \in Thread, Allocate(t), NEW s \in Str, s = task[t].s,
         NEW op \in Ops, op = task[t].op
  PROVE  /\ value' = value
         /\ \/ /\ Become(t, [pc |-> "release", s |-> s, how |-> "bogus", from |-> s])
               /\ UNCHANGED <<str, heap>>
            \/ /\ Become(t, Moved(t, s))
               /\ \E m \in Nat : /\ m >= NewCapacity(op, s)
                                 /\ \/ MovesIn(t, s, op, m)
                                    \/ \E b \in FreeArrays : MovesOut(t, s, op, m, b)
  <1>1. task[t].pc \in Allocating
     BY DEF Allocate, At, Allocating
  <1>2. StringOK(s) /\ Allowed(op, s) /\ Types
     BY <1>1, InChange DEF TaskShape, Inv
  <1>3. \A n \in Capacities(op, s) : n \in Nat /\ n >= NewCapacity(op, s)
     BY <1>2, EnoughAsked
  <1>4. NewCapacity(op, s) \in Nat /\ US_STACKBUF_SIZE \in Nat
     BY <1>2, EnoughAsked DEF ConstantsRight
  <1>5. CASE /\ Become(t, [pc |-> "release", s |-> s, how |-> "bogus", from |-> s])
             /\ UNCHANGED <<str, heap>>
     BY <1>5 DEF Allocate
  <1>6. CASE /\ \E n \in Capacities(op, s) : n <= US_STACKBUF_SIZE
             /\ MovesIn(t, s, op, US_STACKBUF_SIZE) /\ Become(t, Moved(t, s))
     <2>1. US_STACKBUF_SIZE >= NewCapacity(op, s)
        BY <1>3, <1>4, <1>6
     <2> QED BY <1>4, <1>6, <2>1 DEF Allocate
  <1>7. CASE \E n \in Capacities(op, s), a \in FreeArrays : MovesOut(t, s, op, n + 1, a) /\ Become(t, Moved(t, s))
     <2>1. PICK n \in Capacities(op, s), a \in FreeArrays : MovesOut(t, s, op, n + 1, a) /\ Become(t, Moved(t, s))
        BY <1>7
     <2>2. n + 1 \in Nat /\ n + 1 >= NewCapacity(op, s)
        BY <1>3, <1>4
     <2> QED BY <2>1, <2>2 DEF Allocate
  <1>8. \A n \in Capacities(op, s) : n + 1 > 0
     BY <1>3
  <1>9. task[t].s = s /\ task[t].op = op
     OBVIOUS
  <1> QED BY <1>5, <1>6, <1>7, <1>8, <1>9 DEF Allocate, KeptText, Moved, MovesIn, MovesOut

(* Who is to delete an array depends on the task of the step's thread only.  *)
LEMMA DeletersSame ==
  ASSUME NEW t \in Thread, Others(t), NEW a
  PROVE  \A u \in Thread : u # t => (Deletes(u, a)' <=> Deletes(u, a)) /\ (GivesUp(u, a)' <=> GivesUp(u, a))
  BY DEF Others, Deletes, GivesUp, At

(* allocate keeps the counts exact: the new array has one string, and the   *)
(* string's reference to the old one becomes the thread's.                  *)
LEMMA AllocateRefs ==
  ASSUME ConstantsRight, Inv, Types', NEW t \in Thread, NEW s \in Str, Others(t), Shape(s),
         ~At(t, "drop") /\ ~At(t, "write"),
         \A u \in Str \ {s} : str'[u] = str[u],
         task'[t].pc = IF Long(s) THEN "drop" ELSE "write", task'[t].old = str[s].array, ~task'[t].delete,
         \/ heap' = heap /\ str'[s].kind = "short"
         \/ \E b \in FreeArrays : /\ str'[s].kind = "long" /\ str'[s].array = b
                                  /\ heap'[b].refs = 1 /\ heap'[b].units # <<>>
                                  /\ \A a \in Array : a # b => heap'[a] = heap[a]
  PROVE  RefsCounted' /\ DeletedOnce'
  <1>0. Types /\ RefsCounted /\ DeletedOnce
     BY DEF Inv
  <1>1. \A a \in Array : OtherOwners(s, s, a)
     BY DEF OtherOwners, Has, Long
  <1>2. \A a \in Array : (GivesUp(t, a)' <=> Has(s, a)) /\ ~GivesUp(t, a) /\ ~Deletes(t, a) /\ ~Deletes(t, a)'
     BY DEF GivesUp, Deletes, Has, Long, At
  <1>3. \A a \in Array, u \in Thread : Deletes(u, a)' <=> Deletes(u, a)
     BY <1>2, DeletersSame
  <1>4. ASSUME NEW a \in Array, heap'[a] = heap[a], ~Has(s, a)'
        PROVE  heap'[a].refs = OwnerCount(a)' + GiverCount(a)'
     <2>1. heap[a].refs = OwnerCount(a) + GiverCount(a)
        BY <1>0 DEF RefsCounted
     <2>2. OwnerCount(a) \in Nat /\ GiverCount(a) \in Nat
        BY CountsFinite
     <2>3. CASE Has(s, a)
        <3>1. OwnerCount(a)' = OwnerCount(a) - 1
           BY <1>1, <1>4, <2>3, OwnersChange
        <3>2. GiverCount(a)' = GiverCount(a) + 1
           BY <1>2, <2>3, GiversChange DEF Others
        <3> QED BY <1>4, <2>1, <2>2, <3>1, <3>2
     <2>4. CASE ~Has(s, a)
        <3>1. OwnerCount(a)' = OwnerCount(a)
           BY <1>1, <1>4, <2>4, OwnersChange
        <3>2. GiverCount(a)' = GiverCount(a)
           BY <1>2, <2>4, GiversChange DEF Others
        <3> QED BY <1>4, <2>1, <2>2, <3>1, <3>2
     <2> QED BY <2>3, <2>4
  <1>5. CASE heap' = heap /\ str'[s].kind = "short"
     <2>1. \A a \in Array : heap'[a] = heap[a] /\ ~Has(s, a)' /\ (Live(a)' <=> Live(a))
        BY <1>5 DEF Has, Long, Live
     <2>2. RefsCounted'
        BY <1>4, <2>1 DEF RefsCounted
     <2>3. DeletedOnce'
        BY <1>0, <1>3, <2>1 DEF DeletedOnce
     <2> QED BY <2>2, <2>3
  <1>6. CASE \E b \in FreeArrays : /\ str'[s].kind = "long" /\ str'[s].array = b
                                   /\ heap'[b].refs = 1 /\ heap'[b].units # <<>>
                                   /\ \A a \in Array : a # b => heap'[a] = heap[a]
     <2>1. PICK b \in Array : /\ ~Live(b) /\ str'[s].kind = "long" /\ str'[s].array = b
                              /\ heap'[b].refs = 1 /\ heap'[b].units # <<>>
                              /\ \A a \in Array : a # b => heap'[a] = heap[a]
        BY <1>6 DEF FreeArrays
     <2>2. /\ \A a \in Array : a # b => heap'[a] = heap[a] /\ ~Has(s, a)' /\ (Live(a)' <=> Live(a))
           /\ Has(s, b)' /\ Live(b)'
        BY <2>1 DEF Has, Long, Live, Freed
     <2>3. heap[b].refs = 0 /\ ~Has(s, b)
        <3>1. heap[b].refs = 0
           BY <2>1 DEF Live, Freed
        <3> QED BY <1>0, <3>1, FewReferences
     <2>4. OwnerCount(b)' = OwnerCount(b) + 1 /\ GiverCount(b)' = GiverCount(b)
        <3>1. OwnerCount(b)' = OwnerCount(b) + 1
           BY <1>1, <2>2, <2>3, OwnersChange
        <3>2. GiverCount(b)' = GiverCount(b)
           BY <1>2, <2>3, GiversChange DEF Others
        <3> QED BY <3>1, <3>2
     <2>5. heap'[b].refs = OwnerCount(b)' + GiverCount(b)'
        <3>1. heap[b].refs = OwnerCount(b) + GiverCount(b) /\ OwnerCount(b) \in Nat /\ GiverCount(b) \in Nat
           BY <1>0, CountsFinite DEF RefsCounted
        <3> QED BY <2>1, <2>3, <2>4, <3>1
     <2>6. RefsCounted'
        <3>1. ASSUME NEW a \in Array PROVE heap'[a].refs = OwnerCount(a)' + GiverCount(a)'
           <4>1. CASE a = b
              BY <2>5, <4>1
           <4>2. CASE a # b
              BY <1>4, <2>2, <4>2
           <4> QED BY <4>1, <4>2
        <3> QED BY <3>1 DEF RefsCounted
     <2>7. DeletedOnce'
        <3>1. ASSUME NEW a \in Array
              PROVE /\ heap'[a].units = <<>> => heap'[a] = Freed
                    /\ Live(a)' /\ heap'[a].refs = 0 => \E u \in Thread : Deletes(u, a)'
                    /\ \A u \in Thread : Deletes(u, a)' => /\ Live(a)' /\ heap'[a].refs = 0
                                                           /\ \A v \in Thread : Deletes(v, a)' => v = u
           <4>1. CASE a = b
              BY <1>0, <1>3, <2>1, <4>1 DEF DeletedOnce
           <4>2. CASE a # b
              BY <1>0, <1>3, <2>2, <4>2 DEF DeletedOnce
           <4> QED BY <4>1, <4>2
        <3> QED BY <3>1 DEF DeletedOnce, Freed
     <2> QED BY <2>6, <2>7
  <1> QED BY <1>5, <1>6

(* Without memory the string is given up. *)
LEMMA AllocateFails ==
  ASSUME ConstantsRight, Inv, NEW t \in Thread, NEW s \in Str, s = task[t].s, At(t, "allocate"),
         Become(t, [pc |-> "release", s |-> s, how |-> "bogus", from |-> s]), UNCHANGED <<str, heap, value>>
  PROVE  Inv'
  <1>1. Types /\ s[1] = t /\ task[t].pc \in Allocating
     BY InChange DEF Inv, At, Allocating
  <1> DEFINE r == [pc |-> "release", s |-> s, how |-> "bogus", from |-> s]
  <1>2. r \in AssignTask
     BY DEF AssignTask, Replacing
  <1>3. Others(t) /\ task'[t] = r /\ Types'
     BY <1>1, <1>2, BecomeIs DEF Types
  <1>4. task'[t].pc = "release" /\ task'[t].s = s /\ task'[t].from = s /\ task'[t].how = "bogus"
     BY <1>3
  <1>5. ThreadOK(t)'
     BY <1>1, <1>4 DEF ThreadOK, TaskShape, Writing, Allocating, Rewriting, Replacing
  <1>6. ReadOnly'
     <2>1. ASSUME NEW u \in Thread, u # t PROVE NoClash(t, u)' /\ NoClash(u, t)'
        <3>1. task'[u] = task[u]
           BY <1>3, <2>1 DEF Others
        <3>2. task[t] # Idle
           BY <1>1 DEF Idle, Allocating
        <3>3. NoClash(t, u)
           BY <2>1 DEF Inv, ReadOnly
        <3>4. NoClash(t, u)'
           BY <1>4, <3>1, <3>2, <3>3 DEF NoClash
        <3>5. task[u] # Idle => task[u].s[1] = u
           BY TaskIs DEF Inv, ThreadOK, TaskShape
        <3>6. task[u].pc \in Replacing /\ task[u].how = "move" => task[u].from[1] = u
           BY DEF Inv, ThreadOK, TaskShape
        <3>7. NoClash(u, t)'
           BY <1>1, <1>4, <2>1, <3>1, <3>5, <3>6 DEF NoClash
        <3> QED BY <3>4, <3>7
     <2> QED BY <1>3, <2>1, ReadOnlyKept DEF Inv
  <1>7. \A a \in Array : (GivesUp(t, a)' <=> GivesUp(t, a)) /\ (Deletes(t, a)' <=> Deletes(t, a))
     BY <1>4 DEF GivesUp, Deletes, At
  <1>8. \A u \in Str : u[1] = t /\ Unsettled(u) => Unsettled(u)'
     BY <1>1 DEF Unsettled, Allocating, Rewriting, Replacing
  <1> HIDE DEF r
  <1> QED BY <1>3, <1>5, <1>6, <1>7, <1>8, QuietStep

(* cloneArrayIfNeeded gets a new array, or gives the string up. *)
LEMMA AllocateStep ==
  ASSUME ConstantsRight, Inv, NEW t \in Thread, Allocate(t)
  PROVE  Inv'
  <1>1. At(t, "allocate") /\ task[t].pc \in Allocating
     BY DEF Allocate, At, Allocating
  <1>2. PICK s \in Str, op \in Ops : s = task[t].s /\ op = task[t].op
     BY <1>1, InChange
  <1>3. CASE /\ Become(t, [pc |-> "release", s |-> s, how |-> "bogus", from |-> s])
             /\ UNCHANGED <<str, heap, value>>
     BY <1>1, <1>2, <1>3, AllocateFails
  <1>4. CASE /\ Become(t, Moved(t, s)) /\ value' = value
             /\ \E m \in Nat : /\ m >= NewCapacity(op, s)
                               /\ \/ MovesIn(t, s, op, m)
                                  \/ \E b \in FreeArrays : MovesOut(t, s, op, m, b)
     <2>1. PICK m \in Nat : /\ m >= NewCapacity(op, s)
                            /\ \/ MovesIn(t, s, op, m)
                               \/ \E b \in FreeArrays : MovesOut(t, s, op, m, b)
        BY <1>4
     <2>2. /\ s[1] = t /\ StringOK(s) /\ Shape(s) /\ Allowed(op, s) /\ Types /\ ~task[t].delete
           /\ Shown(s) = value[s] /\ str[s].kind # "bogus" /\ task[t] \in ChangeTask /\ task[t].from = s
        BY <1>1, <1>2, InChange, StillShown DEF TaskShape, StringOK, Inv
     <2>3. PICK k \in Chars : /\ k = KeptText(s, op, m) /\ Len(k) \in Nat /\ Len(k) <= m
                              /\ op.f \notin {"doReplace", "getBuffer"} => k = Shown(s)
        BY <2>1, <2>2, KeptTextIs
     <2>4. PICK f \in Chars : f = Filled(m, k) /\ Len(f) = m /\ SubSeq(f, 1, Len(k)) = k
        BY <2>3, FilledText
     <2>5. Shown(s) \in Chars /\ Len(Shown(s)) = str[s].length
        BY <2>2, Storage
     <2>6. PICK p \in {"drop", "write"} : p = IF Long(s) THEN "drop" ELSE "write"
        OBVIOUS
     <2>7. Moved(t, s) \in ChangeTask
        <3>1. str[s].array \in Array \cup {None}
           BY <2>2, StrIs
        <3> QED BY <2>2, <2>5, <2>6, <3>1 DEF Moved, ChangeTask, Rewriting
     <2>8. Others(t) /\ task'[t] = Moved(t, s) /\ task' \in [Thread -> {Idle} \cup ChangeTask \cup AssignTask]
        BY <1>4, <2>2, <2>7, BecomeIs
     <2>9. /\ task'[t].pc = p /\ task'[t].s = s /\ task'[t].op = op /\ task'[t].from = s
           /\ task'[t].old = str[s].array /\ ~task'[t].delete /\ task'[t].shown = Shown(s)
        BY <1>2, <2>2, <2>6, <2>8 DEF Moved, ChangeTask
     <2>10. /\ \A u \in Str \ {s} : str'[u] = str[u]
            /\ str' \in [Str -> String]
            /\ str'[s].open = FALSE /\ str'[s].length = Len(k)
            /\ \/ /\ str'[s] = Stored("short", None, f, Len(k)) /\ m = US_STACKBUF_SIZE /\ heap' = heap
               \/ \E b \in FreeArrays : /\ str'[s] = Stored("long", b, <<>>, Len(k)) /\ m > 0
                                        /\ heap' = [heap EXCEPT ![b] = [refs |-> 1, units |-> f]]
        <3>1. CASE MovesIn(t, s, op, m)
           <4>1. str' = [str EXCEPT ![s] = Stored("short", None, f, Len(k))] /\ m = US_STACKBUF_SIZE /\ heap' = heap
              BY <2>3, <2>4, <3>1 DEF MovesIn
           <4>2. Stored("short", None, f, Len(k)) \in String
              BY <2>3, <2>4 DEF Stored, String
           <4>3. str'[s] = Stored("short", None, f, Len(k)) /\ str' \in [Str -> String]
                 /\ \A u \in Str \ {s} : str'[u] = str[u]
              BY <2>2, <4>1, <4>2 DEF Types
           <4> QED BY <4>1, <4>3 DEF Stored
        <3>2. CASE \E b \in FreeArrays : MovesOut(t, s, op, m, b)
           <4>1. PICK b \in FreeArrays : MovesOut(t, s, op, m, b)
              BY <3>2
           <4>2. /\ str' = [str EXCEPT ![s] = Stored("long", b, <<>>, Len(k))] /\ m > 0
                 /\ heap' = [heap EXCEPT ![b] = [refs |-> 1, units |-> f]]
              BY <2>3, <2>4, <4>1 DEF MovesOut
           <4>3. Stored("long", b, <<>>, Len(k)) \in String
              BY <2>3, EmptySeq DEF Stored, String, FreeArrays, Chars
           <4>4. str'[s] = Stored("long", b, <<>>, Len(k)) /\ str' \in [Str -> String]
                 /\ \A u \in Str \ {s} : str'[u] = str[u]
              BY <2>2, <4>2, <4>3 DEF Types
           <4> QED BY <4>2, <4>4 DEF Stored
        <3> QED BY <2>1, <3>1, <3>2
     <2>11. heap' \in [Array -> [refs : Int, units : Chars]]
        BY <2>2, <2>10 DEF Types, FreeArrays
     <2>12. Types'
        BY <1>4, <2>2, <2>8, <2>10, <2>11 DEF Types
     <2>13. \A u \in Str \ {s} : KeptAlone(u)
        <3>1. ASSUME NEW u \in Str \ {s}, Long(u) PROVE heap'[str[u].array] = heap[str[u].array]
           <4>1. PICK a \in Array : a = str[u].array /\ Has(u, a)
              BY <3>1 DEF Inv, StringOK, Shape, Long, Has
           <4>2. a \notin FreeArrays
              BY <4>1, FewReferences DEF FreeArrays, Live, Freed, Inv
           <4> QED BY <2>2, <2>10, <4>1, <4>2 DEF Types
        <3> QED BY <1>4, <2>10, <3>1 DEF KeptAlone, Kept
     <2>14. /\ Units(s)' = f /\ Capacity(s)' = m /\ ~Shared(s)' /\ str'[s].kind # "bogus"
            /\ Shown(s)' = SubSeq(f, 1, Len(k))
        <3>1. CASE str'[s] = Stored("short", None, f, Len(k))
           BY <2>4, <3>1 DEF Stored, Units, Long, Capacity, Shared, Shown
        <3>2. CASE \E b \in FreeArrays : /\ str'[s] = Stored("long", b, <<>>, Len(k))
                                         /\ heap' = [heap EXCEPT ![b] = [refs |-> 1, units |-> f]]
           <4>1. PICK b \in Array : /\ str'[s] = Stored("long", b, <<>>, Len(k))
                                    /\ heap' = [heap EXCEPT ![b] = [refs |-> 1, units |-> f]]
              BY <3>2 DEF FreeArrays
           <4>2. heap'[b].refs = 1 /\ heap'[b].units = f
              BY <2>2, <4>1 DEF Types
           <4> QED BY <2>4, <4>1, <4>2 DEF Stored, Units, Long, Capacity, Shared, Shown
        <3> QED BY <2>10, <3>1, <3>2
     <2>15. StringOK(s)'
        <3>1. Shape(s)'
           BY <2>3, <2>4, <2>10, <2>14 DEF Shape, Stored, FreeArrays
        <3>2. Unsettled(s)'
           BY <2>2, <2>9 DEF Unsettled, Rewriting
        <3> QED BY <3>1, <3>2 DEF StringOK
     <2>16. ThreadOK(t)'
        <3>1. p = "drop" => str[s].array \in Array
           BY <2>2, <2>6 DEF Long, Shape
        <3>2. TaskShape(t)'
           BY <2>2, <2>9, <3>1 DEF TaskShape, Allocating, Rewriting, Replacing
        <3>3. Len(Edited(op, value[s])) <= m
           <4>1. NewCapacity(op, s) \in Nat /\ Len(Edited(op, Shown(s))) <= NewCapacity(op, s)
              BY <2>2, EnoughAsked
           <4>2. Len(Edited(op, Shown(s))) \in Nat
              BY <2>5, EditedText, LenProperties DEF Chars
           <4> QED BY <2>1, <2>2, <4>1, <4>2
        <3>4. op.f = "doReplace" => Shown(s) # <<>>
           <4>1. op.f = "doReplace" => Len(Shown(s)) > 0
              BY <2>2, <2>5 DEF Allowed
           <4> QED BY <4>1, EmptySeq
        <3>5. op.f \notin {"doReplace", "getBuffer"} => Shown(s)' = value[s]
           BY <2>2, <2>3, <2>4, <2>14
        <3>6. value'[s] = value[s]
           BY <1>4
        <3>7. Writing(t)'
           BY <2>2, <2>9, <2>10, <2>14, <3>3, <3>4, <3>5, <3>6 DEF Writing
        <3> QED BY <3>2, <3>7 DEF ThreadOK
     <2>17. ReadOnly'
        <3>1. task[t] # Idle /\ p \notin Replacing
           BY <1>1 DEF Idle, Allocating, Replacing
        <3> QED BY <1>2, <2>8, <2>9, <3>1, ReadOnlySame DEF Inv
     <2>18. RefsCounted' /\ DeletedOnce'
        <3>1. \/ heap' = heap /\ str'[s].kind = "short"
              \/ \E b \in FreeArrays : /\ str'[s].kind = "long" /\ str'[s].array = b
                                       /\ heap'[b].refs = 1 /\ heap'[b].units # <<>>
                                       /\ \A a \in Array : a # b => heap'[a] = heap[a]
           <4>1. m > 0 => f # <<>>
              BY <2>4, EmptySeq
           <4> QED BY <2>2, <2>10, <4>1 DEF Stored, Types, FreeArrays
        <3>2. ~At(t, "drop") /\ ~At(t, "write")
           BY <1>1 DEF At
        <3> QED BY <2>2, <2>6, <2>8, <2>9, <2>10, <2>12, <3>1, <3>2, AllocateRefs
     <2>19. (\A u \in Str : StringOK(u)') /\ (\A v \in Thread : ThreadOK(v)')
        <3>1. \A v \in Thread : v # t /\ ~At(v, "idle") => task[v].s \notin {s}
           BY <2>2, TaskIs DEF Inv, ThreadOK, TaskShape
        <3>2. \A u \in Str \ {s} : u[1] = t /\ Unsettled(u) => Unsettled(u)'
           BY <1>2 DEF Unsettled
        <3>3. {s} \in SUBSET Str /\ \A u \in {s} : StringOK(u)'
           BY <2>15
        <3> QED BY <2>8, <2>12, <2>13, <2>16, <3>1, <3>2, <3>3, Combine
     <2> QED BY <2>12, <2>17, <2>18, <2>19 DEF Inv
  <1> QED BY <1>2, <1>3, <1>4, AllocateEffect

-------------------------------------------------------------------------------
(* The old array. *)

(* A step of a thread that is to delete nothing, before it or after. *)
LEMMA DeletedOnceKept ==
  ASSUME DeletedOnce, NEW t \in Thread, Others(t),
         \A a \in Array : ~Deletes(t, a) /\ ~Deletes(t, a)',
         \A a \in Array : \/ heap'[a] = heap[a]
                          \/ heap[a].refs # 0 /\ heap'[a] = Freed
                          \/ heap[a].refs # 0 /\ heap'[a].refs # 0 /\ heap'[a].units # <<>>
  PROVE  DeletedOnce'
  <1>1. \A a \in Array, u \in Thread : Deletes(u, a)' <=> Deletes(u, a)
     BY DeletersSame
  <1>2. ASSUME NEW a \in Array
        PROVE /\ heap'[a].units = <<>> => heap'[a] = Freed
              /\ Live(a)' /\ heap'[a].refs = 0 => \E u \in Thread : Deletes(u, a)'
              /\ \A u \in Thread : Deletes(u, a)' => /\ Live(a)' /\ heap'[a].refs = 0
                                                     /\ \A v \in Thread : Deletes(v, a)' => v = u
     <2>1. CASE heap'[a] = heap[a]
        BY <1>1, <2>1 DEF DeletedOnce, Live
     <2>2. CASE heap[a].refs # 0 /\ heap'[a] = Freed
        BY <1>1, <2>2 DEF DeletedOnce, Live
     <2>3. CASE heap[a].refs # 0 /\ heap'[a].refs # 0 /\ heap'[a].units # <<>>
        BY <1>1, <2>3 DEF DeletedOnce, Live
     <2> QED BY <2>1, <2>2, <2>3
  <1> QED BY <1>2 DEF DeletedOnce, Freed

(* cloneArrayIfNeeded gives up the old array: it is freed by the thread     *)
(* that takes the last reference, or left to doReplace.                     *)
LEMMA DropStep ==
  ASSUME ConstantsRight, Inv, NEW t \in Thread, DropOldArray(t)
  PROVE  Inv'
  <1>1. /\ task[t].pc = "drop" /\ task[t].pc \in Allocating \cup Rewriting /\ UNCHANGED <<str, value>>
        /\ Types /\ RefsCounted /\ DeletedOnce
     BY DEF DropOldArray, At, Rewriting, Inv
  <1>2. PICK s \in Str, a \in Array : s = task[t].s /\ a = task[t].old
     BY <1>1, InChange DEF TaskShape
  <1>3. /\ s[1] = t /\ task[t].from = s /\ StringOK(s) /\ Writing(t) /\ task[t] \in ChangeTask
     BY <1>1, <1>2, InChange
  <1>4. GivesUp(t, a) /\ heap[a].refs \in Nat /\ heap[a].refs # 0 /\ heap[a].units # <<>>
     <2>1. GivesUp(t, a)
        BY <1>1, <1>2 DEF GivesUp, At
     <2>2. heap[a].refs \in Nat /\ heap[a].refs # 0
        BY <1>1, <2>1, FewReferences
     <2> QED BY <1>1, <2>1, <2>2 DEF DeletedOnce, Freed
  <1>5. PICK d \in BOOLEAN :
          /\ Become(t, [task[t] EXCEPT !.pc = "write", !.delete = d])
          /\ \/ ~d /\ heap[a].refs = 1 /\ heap' = [heap EXCEPT ![a] = Freed]
             \/ /\ d <=> heap[a].refs = 1
                /\ heap' = [heap EXCEPT ![a].refs = @ - 1]
     <2>1. CASE heap[a].refs = 1 /\ task[t].op.f # "doReplace"
        BY <1>2, <2>1 DEF DropOldArray
     <2>2. CASE heap[a].refs = 1 /\ task[t].op.f = "doReplace"
        <3>1. Become(t, [task[t] EXCEPT !.pc = "write", !.delete = TRUE])
           <4>1. (heap[task[t].old].refs = 1 /\ task[t].op.f = "doReplace") = TRUE
              BY <1>2, <2>2
           <4> QED BY <4>1, Zenon DEF DropOldArray
        <3>2. heap' = [heap EXCEPT ![a].refs = @ - 1]
           BY <1>2, <2>2 DEF DropOldArray
        <3> QED BY <2>2, <3>1, <3>2
     <2>3. CASE heap[a].refs # 1
        <3>1. Become(t, [task[t] EXCEPT !.pc = "write", !.delete = FALSE])
           <4>1. (heap[task[t].old].refs = 1 /\ task[t].op.f = "doReplace") = FALSE
              BY <1>2, <2>3
           <4> QED BY <4>1, Zenon DEF DropOldArray
        <3>2. heap' = [heap EXCEPT ![a].refs = @ - 1]
           BY <1>2, <2>3 DEF DropOldArray
        <3> QED BY <2>3, <3>1, <3>2
     <2> QED BY <2>1, <2>2, <2>3
  <1>6. /\ heap' \in [Array -> [refs : Int, units : Chars]]
        /\ \A b \in Array : b # a => heap'[b] = heap[b]
        /\ \/ ~d /\ heap[a].refs = 1 /\ heap'[a] = Freed /\ heap'[a].refs = 0
           \/ /\ d <=> heap[a].refs = 1
              /\ heap'[a].refs = heap[a].refs - 1 /\ heap'[a].units = heap[a].units
     <2>1. heap \in [Array -> [refs : Int, units : Chars]] /\ heap[a] \in [refs : Int, units : Chars]
        BY <1>1 DEF Types
     <2>2. Freed \in [refs : Int, units : Chars] /\ Freed.refs = 0
        BY EmptySeq DEF Freed, Chars
     <2>3. CASE ~d /\ heap[a].refs = 1 /\ heap' = [heap EXCEPT ![a] = Freed]
        BY <2>1, <2>2, <2>3
     <2>4. CASE /\ d <=> heap[a].refs = 1
                /\ heap' = [heap EXCEPT ![a].refs = @ - 1]
        BY <2>1, <2>4
     <2> QED BY <1>5, <2>3, <2>4
  <1> DEFINE r == [task[t] EXCEPT !.pc = "write", !.delete = d]
  <1>7. r \in ChangeTask
     BY <1>3 DEF ChangeTask, Rewriting
  <1>8. Others(t) /\ task'[t] = r /\ Types'
     BY <1>1, <1>5, <1>6, <1>7, BecomeIs DEF Types
  <1>9. /\ task'[t].pc = "write" /\ task'[t].s = s /\ task'[t].from = s /\ task'[t].op = task[t].op
        /\ task'[t].old = a /\ task'[t].delete = d /\ task'[t].shown = task[t].shown
     BY <1>2, <1>3, <1>8 DEF ChangeTask
  <1> HIDE DEF r
  <1>10. \A u \in Str : KeptAlone(u)
     <2>1. ASSUME NEW u \in Str, Long(u)
           PROVE /\ heap'[str[u].array].units = heap[str[u].array].units
                 /\ heap[str[u].array].refs <= 1 => heap'[str[u].array].refs <= 1
        <3>1. PICK b \in Array : b = str[u].array /\ Has(u, b)
           BY <2>1 DEF Inv, StringOK, Shape, Long, Has
        <3>2. CASE b # a
           BY <1>6, <3>1, <3>2
        <3>3. CASE b = a
           <4>1. heap[a].refs # 1 /\ ~(heap[a].refs <= 1)
              BY <1>1, <1>4, <3>1, <3>3, FewReferences
           <4> QED BY <1>6, <3>1, <3>3, <4>1
        <3> QED BY <3>2, <3>3
     <2> QED BY <1>1, <2>1 DEF KeptAlone, Kept
  <1>11. ThreadOK(t)'
     <2>1. TaskShape(t)'
        BY <1>3, <1>9 DEF TaskShape, Allocating, Rewriting, Replacing
     <2>2. /\ str'[s] = str[s] /\ value'[s] = value[s] /\ (~Shared(s) => ~Shared(s)')
           /\ Shown(s)' = Shown(s) /\ Capacity(s)' = Capacity(s)
        BY <1>1, <1>3, <1>8, <1>10, KeptStorage, KeptUnshared DEF KeptAlone, StringOK
     <2>3. Writing(t)'
        <3>1. /\ str[s].kind # "bogus" /\ ~str[s].open /\ ~Shared(s)
              /\ Len(Edited(task[t].op, value[s])) <= Capacity(s)
              /\ \/ task[t].op.f = "getBuffer"
                 \/ task[t].op.f = "doReplace" /\ task[t].shown # <<>>
                 \/ Shown(s) = value[s]
              /\ task[t].op.f = "doReplace" /\ task[t].shown # <<>> => task[t].shown = value[s]
           BY <1>1, <1>2, <1>3 DEF Writing, Rewriting
        <3>2. /\ str'[s].kind # "bogus" /\ ~str'[s].open /\ ~Shared(s)'
              /\ Len(Edited(task[t].op, value'[s])) <= Capacity(s)'
              /\ \/ task[t].op.f = "getBuffer"
                 \/ task[t].op.f = "doReplace" /\ task[t].shown # <<>>
                 \/ Shown(s)' = value'[s]
              /\ task[t].op.f = "doReplace" /\ task[t].shown # <<>> => task[t].shown = value'[s]
           BY <2>2, <3>1
        <3> QED BY <1>9, <3>2 DEF Writing
     <2> QED BY <2>1, <2>3 DEF ThreadOK
  <1>12. ReadOnly'
     <2>1. task[t] # Idle /\ task'[t].pc \notin Replacing
        BY <1>1, <1>9 DEF Idle, Replacing
     <2> QED BY <1>2, <1>8, <1>9, <2>1, ReadOnlySame DEF Inv
  <1>13. RefsCounted'
     <2>1. ASSUME NEW b \in Array PROVE heap'[b].refs = OwnerCount(b)' + GiverCount(b)'
        <3>1. OwnerCount(b)' = OwnerCount(b)
           <4>1. OtherOwners(s, s, b) /\ (Has(s, b)' <=> Has(s, b))
              BY <1>1 DEF OtherOwners, Has, Long
           <4> QED BY <4>1, OwnersChange
        <3>2. GivesUp(t, b) <=> b = a
           BY <1>1, <1>2 DEF GivesUp, At
        <3>3. ~GivesUp(t, b)'
           BY <1>9 DEF GivesUp, At
        <3>4. GiverCount(b)' = IF b = a THEN GiverCount(b) - 1 ELSE GiverCount(b)
           BY <1>8, <3>2, <3>3, GiversChange DEF Others
        <3>5. heap[b].refs = OwnerCount(b) + GiverCount(b) /\ OwnerCount(b) \in Nat /\ GiverCount(b) \in Nat
           BY <1>1, CountsFinite DEF RefsCounted
        <3>6. heap'[b].refs = IF b = a THEN heap[b].refs - 1 ELSE heap[b].refs
           BY <1>6
        <3> QED BY <3>1, <3>4, <3>5, <3>6
     <2> QED BY <2>1 DEF RefsCounted
  <1>14. DeletedOnce'
     <2>1. \A b \in Array : ~Deletes(t, b) /\ (Deletes(t, b)' <=> d /\ b = a)
        BY <1>1, <1>9 DEF Deletes, At
     <2>2. CASE ~d
        <3>1. \/ heap'[a] = Freed
              \/ heap'[a].refs # 0 /\ heap'[a].units # <<>>
           BY <1>4, <1>6, <2>2
        <3>2. \A b \in Array : \/ heap'[b] = heap[b]
                               \/ heap[b].refs # 0 /\ heap'[b] = Freed
                               \/ heap[b].refs # 0 /\ heap'[b].refs # 0 /\ heap'[b].units # <<>>
           BY <1>4, <1>6, <3>1
        <3> QED BY <1>1, <1>8, <2>1, <2>2, <3>2, DeletedOnceKept
     <2>3. CASE d
        <3>1. heap[a].refs = 1 /\ heap'[a].refs = 0 /\ heap'[a].units # <<>> /\ Live(a)'
           BY <1>4, <1>6, <2>3 DEF Live, Freed
        <3>2. \A b \in Array, u \in Thread : Deletes(u, b)' <=> Deletes(u, b) \/ (u = t /\ b = a)
           BY <1>8, <2>1, <2>3, DeletersSame
        <3>3. \A u \in Thread : ~Deletes(u, a)
           BY <1>1, <3>1 DEF DeletedOnce
        <3>4. ASSUME NEW b \in Array
              PROVE /\ heap'[b].units = <<>> => heap'[b] = Freed
                    /\ Live(b)' /\ heap'[b].refs = 0 => \E u \in Thread : Deletes(u, b)'
                    /\ \A u \in Thread : Deletes(u, b)' => /\ Live(b)' /\ heap'[b].refs = 0
                                                           /\ \A v \in Thread : Deletes(v, b)' => v = u
           <4>1. CASE b = a
              BY <3>1, <3>2, <3>3, <4>1
           <4>2. CASE b # a
              BY <1>1, <1>6, <3>2, <4>2 DEF DeletedOnce, Live
           <4> QED BY <4>1, <4>2
        <3> QED BY <3>4 DEF DeletedOnce, Freed
     <2> QED BY <2>2, <2>3
  <1>15. (\A u \in Str : StringOK(u)') /\ (\A v \in Thread : ThreadOK(v)')
     <2>1. /\ \A v \in Thread : v # t /\ ~At(v, "idle") => task[v].s \notin {}
           /\ {} \in SUBSET Str /\ \A u \in {} : StringOK(u)'
        OBVIOUS
     <2>2. \A u \in Str \ {} : KeptAlone(u) /\ (u[1] = t /\ Unsettled(u) => Unsettled(u)')
        BY <1>2, <1>9, <1>10 DEF Unsettled, Rewriting
     <2> QED BY <1>8, <1>11, <2>1, <2>2, Combine
  <1> QED BY <1>8, <1>12, <1>13, <1>14, <1>15 DEF Inv

-------------------------------------------------------------------------------
(* Writing. *)

(* A unit put behind a text (the NUL of getTerminatedBuffer). *)
LEMMA AppendedText ==
  ASSUME NEW x \in Chars, NEW c \in CodeUnit
  PROVE  Append(x, c) \in Chars /\ Len(Append(x, c)) = Len(x) + 1 /\ SubSeq(Append(x, c), 1, Len(x)) = x
  <1>1. Append(x, c) \in Chars /\ Len(Append(x, c)) = Len(x) + 1 /\ Len(x) \in Nat
     BY DEF Chars
  <1>2. SubSeq(Append(x, c), 1, Len(x)) \in Chars /\ Len(SubSeq(Append(x, c), 1, Len(x))) = Len(x)
     <2>1. Len(x) \in 0..Len(Append(x, c)) /\ 0 \in 0..Len(x)
        BY <1>1
     <2> QED BY <1>1, <2>1, SubText
  <1>3. \A i \in 1..Len(x) : SubSeq(Append(x, c), 1, Len(x))[i] = x[i]
     BY <1>1 DEF Chars
  <1> QED BY <1>1, <1>2, <1>3, SeqEqual DEF Chars

(* The text that a write puts into the string fits in its array, and is the  *)
(* text that the string is said to have been given.                          *)
Stale(t) == task[t].old # None /\ task[t].op.f = "doReplace" /\ Found(t) # task[t].shown

(* What an operation finds is the text the string was given, except in the  *)
(* array that doReplace gave up before: there it finds at least as much as  *)
(* there was.                                                               *)
LEMMA FoundText ==
  ASSUME ConstantsRight, Inv, NEW t \in Thread, At(t, "write"), NEW s \in Str, s = task[t].s
  PROVE  /\ Found(t) \in Chars
         /\ \/ task[t].op.f = "getBuffer"
            \/ Found(t) = value[s]
            \/ task[t].op.f = "doReplace" /\ Len(Found(t)) = Len(value[s]) /\ Stale(t)
  <1>1. /\ task[t] \in ChangeTask /\ StringOK(s) /\ Writing(t) /\ task[t].pc \in Rewriting /\ Types
        /\ task[t].shown \in Chars
     BY InChange DEF At, Rewriting, Inv, ChangeTask
  <1>2. Shown(s) \in Chars
     BY <1>1, Storage DEF StringOK
  <1>3. CASE task[t].op.f # "doReplace" \/ task[t].shown = <<>>
     <2>1. Found(t) = Shown(s)
        BY <1>3 DEF Found
     <2> QED BY <1>1, <1>2, <1>3, <2>1 DEF Writing
  <1>4. CASE task[t].op.f = "doReplace" /\ task[t].shown # <<>>
     <2>1. task[t].shown = value[s]
        BY <1>1, <1>4 DEF Writing
     <2>2. CASE task[t].old = None
        BY <1>1, <1>4, <2>1, <2>2 DEF Found
     <2>3. CASE task[t].old # None
        <3>1. PICK x \in Chars, u \in Chars : x = task[t].shown /\ u = heap[task[t].old].units
           BY <1>1, <2>3 DEF ChangeTask, Types
        <3>2. Len(x) \in Nat
           BY LenProperties DEF Chars
        <3>3. Filled(Len(x), u) \in Chars /\ Len(Filled(Len(x), u)) = Len(x)
           BY <3>2, FilledText
        <3>4. SubSeq(Filled(Len(x), u), 1, Len(x)) = Filled(Len(x), u)
           BY <3>3, WholeText
        <3>5. Found(t) = SubSeq(Filled(Len(x), u), 1, Len(x))
           BY <1>4, <2>3, <3>1 DEF Found
        <3> QED BY <1>4, <2>1, <2>3, <3>1, <3>3, <3>4, <3>5 DEF Stale
     <2> QED BY <2>2, <2>3
  <1> QED BY <1>3, <1>4

(* The text that an operation makes has room in the array it is written to, *)
(* and is the text the string is said to have been given.                   *)
LEMMA TextWritten ==
  ASSUME ConstantsRight, Inv, NEW t \in Thread, At(t, "write"), NEW s \in Str, s = task[t].s,
         NEW op \in Ops, op = task[t].op
  PROVE  /\ Edited(op, Found(t)) \in Chars
         /\ Len(Edited(op, Found(t))) <= Capacity(s)
         /\ op.f = "getBuffer" => Edited(op, Found(t)) = <<>>
         /\ ~Stale(t) => Edited(op, value[s]) = Edited(op, Found(t))
  <1>1. Found(t) \in Chars /\ value[s] \in Chars
     BY FoundText, StrIs DEF Inv
  <1>2. Len(Edited(op, value[s])) <= Capacity(s)
     <2>1. Writing(t) /\ task[t].pc \in Rewriting
        BY InChange DEF At, Rewriting
     <2> QED BY <2>1 DEF Writing
  <1>3. Edited(op, Found(t)) \in Chars
     BY <1>1, EditedText
  <1>4. CASE op.f = "getBuffer"
     BY <1>1, <1>2, <1>3, <1>4, EditedText
  <1>5. CASE Found(t) = value[s]
     <2>1. op.f = "getBuffer" => Edited(op, Found(t)) = <<>>
        BY <1>1, EditedText
     <2> QED BY <1>2, <1>3, <1>5, <2>1
  <1>6. CASE op.f = "doReplace" /\ Len(Found(t)) = Len(value[s]) /\ Stale(t)
     <2>1. /\ Len(Edited(op, Found(t))) = Len(op.text) + IF Len(Found(t)) >= op.n THEN Len(Found(t)) - op.n ELSE 0
           /\ Len(Edited(op, value[s])) = Len(op.text) + IF Len(value[s]) >= op.n THEN Len(value[s]) - op.n ELSE 0
        BY <1>1, <1>6, EditedText
     <2> QED BY <1>2, <1>3, <1>6, <2>1
  <1> QED BY <1>4, <1>5, <1>6, FoundText

(* After the write the array is as long as it was and begins with the text. *)
LEMMA UnitsWritten ==
  ASSUME NEW s, Units(s) \in Chars, NEW op, NEW text \in Chars, Len(text) <= Len(Units(s)),
         op.f = "getBuffer" => text = <<>>
  PROVE  /\ NewUnits(s, op, text) \in Chars /\ Len(NewUnits(s, op, text)) = Len(Units(s))
         /\ SubSeq(NewUnits(s, op, text), 1, Len(text)) = text
  <1>1. Len(text) \in Nat /\ Len(Units(s)) \in Nat /\ SubSeq(text, 1, Len(text)) = text
     BY WholeText, LenProperties DEF Chars
  <1>2. CASE op.f = "getBuffer"
     <2>1. NewUnits(s, op, text) = Units(s) /\ Len(text) = 0
        BY <1>2 DEF NewUnits
     <2>2. 0 \in 0..Len(Units(s)) /\ 0 \in 0..0
        BY <1>1
     <2>3. SubSeq(Units(s), 1, 0) \in Chars /\ Len(SubSeq(Units(s), 1, 0)) = 0
        BY <2>2, SubText
     <2>4. SubSeq(Units(s), 1, 0) = <<>>
        BY <2>3, EmptySeq DEF Chars
     <2> QED BY <1>2, <2>1, <2>4
  <1>3. CASE op.f = "getTerminatedBuffer"
     <2>1. NewUnits(s, op, text) = Overwritten(Units(s), Append(text, NUL))
        BY <1>3 DEF NewUnits
     <2>2. Append(text, NUL) \in Chars /\ Len(Append(text, NUL)) = Len(text) + 1 /\ SubSeq(Append(text, NUL), 1, Len(text)) = text
        BY AppendedText, OwnUnits
     <2> DEFINE y == Append(text, NUL)
     <2>3. y \in Chars /\ Len(y) = Len(text) + 1 /\ SubSeq(y, 1, Len(text)) = text
        BY <2>2
     <2>4. NewUnits(s, op, text) = Overwritten(Units(s), y)
        BY <2>1
     <2> HIDE DEF y
     <2>5. Len(text) \in 0..Len(y)
        BY <1>1, <2>3
     <2>6. /\ Overwritten(Units(s), y) \in Chars /\ Len(Overwritten(Units(s), y)) = Len(Units(s))
           /\ SubSeq(Overwritten(Units(s), y), 1, Len(text)) = SubSeq(y, 1, Len(text))
        BY <2>3, <2>5, OverwrittenText
     <2> QED BY <2>3, <2>4, <2>6
  <1>4. CASE op.f \notin {"getBuffer", "getTerminatedBuffer"}
     <2>1. NewUnits(s, op, text) = Overwritten(Units(s), text)
        BY <1>4 DEF NewUnits
     <2>2. Len(text) \in 0..Len(text)
        BY <1>1
     <2> QED BY <1>1, <2>1, <2>2, OverwrittenText
  <1> QED BY <1>2, <1>3, <1>4

(* A string with storage of its own gets other units. *)
Rewritten(s, u, n, o) ==
  /\ str'[s].kind = str[s].kind /\ str'[s].array = str[s].array
  /\ str'[s].units = IF Long(s) THEN str[s].units ELSE u
  /\ str'[s].length = n /\ str'[s].open = o /\ value'[s] = SubSeq(u, 1, n)
  /\ \A v \in Str \ {s} : str'[v] = str[v] /\ value'[v] = value[v]
  /\ \A a \in Array : /\ heap'[a].refs = heap[a].refs
                      /\ Has(s, a) => heap'[a].units = u
                      /\ ~Has(s, a) => heap'[a] = heap[a] \/ heap[a].refs = 0

(* A string with storage of its own is as it should be after the write, and *)
(* nobody else sees the write.                                              *)
LEMMA RewrittenOK ==
  ASSUME ConstantsRight, Inv, NEW s \in Str, str[s].kind # "bogus", ~Shared(s),
         NEW u \in Chars, Len(u) = Capacity(s), NEW n \in Nat, n <= Len(u), NEW o \in BOOLEAN, o => n = 0,
         Rewritten(s, u, n, o)
  PROVE  /\ \A v \in Str \ {s} : KeptAlone(v)
         /\ StringOK(s)'
         /\ \A v \in Str, a \in Array : Has(v, a)' <=> Has(v, a)
         /\ \A a \in Array : OwnerCount(a)' = OwnerCount(a)
         /\ \A a \in Array : Has(s, a) => heap[a].units # <<>> /\ heap'[a].units # <<>>
  <1>1. Types /\ RefsCounted /\ StringOK(s) /\ Shape(s) /\ str[s].kind \in {"short", "long"}
     BY StrIs DEF Inv, StringOK
  <1>2. \A v \in Str, a \in Array : Has(v, a)' <=> Has(v, a)
     <2>1. \A v \in Str : str'[v].kind = str[v].kind /\ str'[v].array = str[v].array
        BY DEF Rewritten
     <2> QED BY <2>1 DEF Has, Long
  <1>3. ASSUME NEW a \in Array, Has(s, a)
        PROVE  /\ heap[a].refs = 1 /\ heap[a].units # <<>> /\ Len(u) = Len(heap[a].units) /\ u # <<>>
               /\ \A v \in Str : Has(v, a) => v = s
     <2>1. str[s].array = a /\ Long(s) /\ heap[a].refs \in Int
        BY <1>1, <1>3 DEF Has, Types
     <2>2. heap[a].refs <= 1
        BY <2>1 DEF Shared
     <2>3. heap[a].refs = 1 /\ \A v \in Str : Has(v, a) => v = s
        BY <1>1, <1>3, <2>2, FewReferences
     <2>4. heap[a].units # <<>> /\ heap[a].units \in Chars
        BY <1>1, <2>3 DEF Inv, DeletedOnce, Freed, Types
     <2>5. Len(u) = Len(heap[a].units)
        BY <2>1 DEF Capacity, Units
     <2> QED BY <2>3, <2>4, <2>5, EmptySeq DEF Chars
  <1>4. \A v \in Str \ {s} : KeptAlone(v)
     <2>1. ASSUME NEW v \in Str \ {s}, Long(v)
           PROVE /\ heap'[str[v].array].units = heap[str[v].array].units
                 /\ heap'[str[v].array].refs = heap[str[v].array].refs
        <3>1. PICK a \in Array : a = str[v].array /\ Has(v, a)
           BY <2>1 DEF Inv, StringOK, Shape, Long, Has
        <3>2. ~Has(s, a) /\ heap[a].refs # 0
           BY <1>1, <1>3, <3>1, FewReferences
        <3> QED BY <3>1, <3>2 DEF Rewritten
     <2>2. \A v \in Str \ {s} : str'[v] = str[v] /\ value'[v] = value[v]
        BY DEF Rewritten
     <2> QED BY <2>1, <2>2 DEF KeptAlone, Kept
  <1>5. StringOK(s)'
     <2>1. Long(s)' <=> Long(s)
        BY DEF Rewritten, Long
     <2>2. Units(s)' = u
        <3>1. CASE Long(s)
           <4>1. PICK a \in Array : a = str[s].array /\ Has(s, a)
              BY <1>1, <3>1 DEF Shape, Long, Has
           <4> QED BY <2>1, <3>1, <4>1 DEF Rewritten, Units
        <3>2. CASE ~Long(s)
           BY <2>1, <3>2 DEF Rewritten, Units
        <3> QED BY <3>1, <3>2
     <2>3. Capacity(s)' = Len(u)
        BY <2>2 DEF Capacity
     <2>4. Shown(s)' = value'[s]
        BY <2>2 DEF Rewritten, Shown
     <2>5. ~Shared(s)'
        <3>1. CASE Long(s)
           <4>1. PICK a \in Array : a = str[s].array /\ Has(s, a)
              BY <1>1, <3>1 DEF Shape, Long, Has
           <4>2. heap'[a].refs = 1 /\ str'[s].array = a
              BY <1>3, <4>1 DEF Rewritten
           <4> QED BY <4>2 DEF Shared
        <3>2. CASE ~Long(s)
           BY <2>1, <3>2 DEF Shared
        <3> QED BY <3>1, <3>2
     <2>6. Shape(s)'
        <3>1. str'[s].kind = str[s].kind /\ str'[s].array = str[s].array
              /\ str'[s].units = (IF Long(s) THEN str[s].units ELSE u)
              /\ str'[s].length = n /\ str'[s].open = o
           BY DEF Rewritten
        <3>2. str[s].kind = "short" => Len(u) = US_STACKBUF_SIZE /\ ~Long(s)
           BY <1>1 DEF Shape, Capacity, Units, Long
        <3>3. str[s].kind = "long" => Long(s)
           BY DEF Long
        <3> QED BY <1>1, <2>3, <2>5, <3>1, <3>2, <3>3 DEF Shape
     <2> QED BY <2>4, <2>6 DEF StringOK
  <1>6. \A a \in Array : OwnerCount(a)' = OwnerCount(a)
     <2>1. \A a \in Array : OtherOwners(s, s, a)
        BY <1>2 DEF OtherOwners
     <2> QED BY <1>2, <2>1, OwnersChange
  <1>7. \A a \in Array : Has(s, a) => heap[a].units # <<>> /\ heap'[a].units # <<>>
     BY <1>3 DEF Rewritten
  <1> QED BY <1>2, <1>4, <1>5, <1>6, <1>7

(* The fields of a string with other units in it. *)
LEMMA RefilledIs ==
  ASSUME Types, NEW s \in Str, Shape(s), NEW u \in Chars, NEW n \in Nat, NEW o \in BOOLEAN,
         str' = [str EXCEPT ![s] = Refilled(s, u, n, o)]
  PROVE  /\ str' \in [Str -> String]
         /\ str'[s].kind = str[s].kind /\ str'[s].array = str[s].array
         /\ str'[s].units = IF Long(s) THEN str[s].units ELSE u
         /\ str'[s].length = n /\ str'[s].open = o
         /\ \A v \in Str \ {s} : str'[v] = str[v]
  <1>1. Refilled(s, u, n, o) \in String
     BY StrIs, EmptySeq DEF Refilled, String, Chars
  <1>2. /\ str' \in [Str -> String] /\ str'[s] = Refilled(s, u, n, o)
        /\ \A v \in Str \ {s} : str'[v] = str[v]
     BY <1>1 DEF Types
  <1>3. Long(s) => str[s].units = <<>>
     BY DEF Shape, Long
  <1> QED BY <1>2, <1>3 DEF Refilled

(* The arrays after a write: only that of the string has changed, and no    *)
(* counter.                                                                 *)
LEMMA HeapWithIs ==
  ASSUME Types, NEW s \in Str, Shape(s), NEW u \in Chars
  PROVE  /\ HeapWith(s, u) \in [Array -> [refs : Int, units : Chars]]
         /\ \A a \in Array : /\ HeapWith(s, u)[a].refs = heap[a].refs
                             /\ Has(s, a) => HeapWith(s, u)[a].units = u
                             /\ ~Has(s, a) => HeapWith(s, u)[a] = heap[a]
  <1>1. CASE ~Long(s)
     BY <1>1 DEF HeapWith, Has, Types
  <1>2. CASE Long(s)
     <2>1. PICK b \in Array : b = str[s].array
        BY <1>2 DEF Shape, Long
     <2>2. HeapWith(s, u) = [heap EXCEPT ![b].units = u] /\ \A a \in Array : Has(s, a) <=> a = b
        BY <1>2, <2>1 DEF HeapWith, Has
     <2> QED BY <2>2 DEF Types
  <1> QED BY <1>1, <1>2

(* The thread deletes what it had to delete, or had nothing to delete. *)
LEMMA DeletedNow ==
  ASSUME DeletedOnce, NEW t \in Thread, Others(t), \A a \in Array : ~Deletes(t, a)',
         \A a \in Array : /\ heap'[a].refs = heap[a].refs
                          /\ Deletes(t, a) => heap'[a] = Freed
                          /\ ~Deletes(t, a) => \/ heap'[a] = heap[a]
                                               \/ heap[a].units # <<>> /\ heap'[a].units # <<>>
  PROVE  DeletedOnce'
  <1>1. \A a \in Array, u \in Thread : Deletes(u, a)' <=> u # t /\ Deletes(u, a)
     BY DeletersSame
  <1>2. ASSUME NEW a \in Array
        PROVE /\ heap'[a].units = <<>> => heap'[a] = Freed
              /\ Live(a)' /\ heap'[a].refs = 0 => \E u \in Thread : Deletes(u, a)'
              /\ \A u \in Thread : Deletes(u, a)' => /\ Live(a)' /\ heap'[a].refs = 0
                                                     /\ \A v \in Thread : Deletes(v, a)' => v = u
     <2>1. CASE Deletes(t, a)
        <3>1. \A u \in Thread : ~Deletes(u, a)'
           BY <1>1, <2>1 DEF DeletedOnce
        <3> QED BY <2>1, <3>1 DEF Live
     <2>2. CASE ~Deletes(t, a) /\ heap'[a] = heap[a]
        BY <1>1, <2>2 DEF DeletedOnce, Live
     <2>3. CASE ~Deletes(t, a) /\ heap[a].units # <<>> /\ heap'[a].units # <<>>
        <3>1. Live(a) /\ Live(a)'
           BY <2>3 DEF Live, Freed
        <3> QED BY <1>1, <2>3, <3>1 DEF DeletedOnce
     <2> QED BY <2>1, <2>2, <2>3
  <1> QED BY <1>2 DEF DeletedOnce, Freed

(* The operation writes its text, and doReplace deletes the array it had    *)
(* left alive.                                                              *)
LEMMA WriteStep ==
  ASSUME ConstantsRight, Inv, NEW t \in Thread, Write(t)
  PROVE  Inv'
  <1>1. task[t].pc = "write" /\ task[t].pc \in Rewriting /\ At(t, "write") /\ Types /\ RefsCounted /\ DeletedOnce
     BY DEF Write, At, Rewriting, Inv
  <1>2. PICK s \in Str, op \in Ops : s = task[t].s /\ op = task[t].op
     BY <1>1, InChange
  <1>3. /\ s[1] = t /\ StringOK(s) /\ Shape(s) /\ task[t] \in ChangeTask /\ task[t] # Idle
        /\ str[s].kind # "bogus" /\ ~Shared(s)
     BY <1>1, <1>2, InChange DEF StringOK, Writing, Idle
  <1>4. PICK x \in Chars : /\ x = Edited(op, Found(t)) /\ Len(x) \in Nat /\ Len(x) <= Capacity(s)
                           /\ op.f = "getBuffer" => x = <<>>
                           /\ ~Stale(t) => Edited(op, value[s]) = x
     <2>1. /\ Edited(op, Found(t)) \in Chars /\ Len(Edited(op, Found(t))) <= Capacity(s)
           /\ op.f = "getBuffer" => Edited(op, Found(t)) = <<>>
           /\ ~Stale(t) => Edited(op, value[s]) = Edited(op, Found(t))
        BY <1>1, <1>2, TextWritten
     <2>2. Len(Edited(op, Found(t))) \in Nat
        BY <2>1, LenProperties DEF Chars
     <2> QED BY <2>1, <2>2
  <1>5. Units(s) \in Chars /\ Capacity(s) = Len(Units(s))
     BY <1>1, <1>3, Storage
  <1>6. PICK u \in Chars : u = NewUnits(s, op, x) /\ Len(u) = Capacity(s) /\ SubSeq(u, 1, Len(x)) = x
     BY <1>4, <1>5, UnitsWritten
  <1>7. PICK o \in BOOLEAN : o = (op.f = "getBuffer")
     OBVIOUS
  <1>8. /\ str' = [str EXCEPT ![s] = Refilled(s, u, Len(x), o)]
        /\ value' = [value EXCEPT ![s] = x]
        /\ heap' = IF task[t].delete THEN [HeapWith(s, u) EXCEPT ![task[t].old] = Freed] ELSE HeapWith(s, u)
        /\ Become(t, Idle)
     <2>1. str' = [str EXCEPT ![s] = Refilled(s, NewUnits(s, op, x), Len(x), op.f = "getBuffer")]
        BY <1>2, <1>4 DEF Write
     <2>2. value' = [value EXCEPT ![s] = IF Stale(t) THEN x ELSE Edited(op, value[s])]
        BY <1>2, <1>4 DEF Write, Stale
     <2>3. heap' = IF task[t].delete THEN [HeapWith(s, u) EXCEPT ![task[t].old] = Freed] ELSE HeapWith(s, u)
        BY <1>2, <1>4, <1>6 DEF Write
     <2>4. Become(t, Idle)
        BY DEF Write
     <2>5. value' = [value EXCEPT ![s] = x]
        BY <1>4, <2>2
     <2>6. str' = [str EXCEPT ![s] = Refilled(s, u, Len(x), o)]
        BY <1>6, <1>7, <2>1, Zenon
     <2> QED BY <2>3, <2>4, <2>5, <2>6
  <1>9. Others(t) /\ task'[t] = Idle /\ task' \in [Thread -> {Idle} \cup ChangeTask \cup AssignTask]
     BY <1>1, <1>8, BecomeIs
  <1>10. /\ str' \in [Str -> String]
         /\ str'[s].kind = str[s].kind /\ str'[s].array = str[s].array
         /\ str'[s].units = IF Long(s) THEN str[s].units ELSE u
         /\ str'[s].length = Len(x) /\ str'[s].open = o
         /\ \A v \in Str \ {s} : str'[v] = str[v]
     <2>1. PICK n \in Nat : n = Len(x) /\ str' = [str EXCEPT ![s] = Refilled(s, u, n, o)]
        BY <1>4, <1>8
     <2> QED BY <1>1, <1>3, <2>1, RefilledIs
  <1>11. /\ HeapWith(s, u) \in [Array -> [refs : Int, units : Chars]]
         /\ \A a \in Array : /\ HeapWith(s, u)[a].refs = heap[a].refs
                             /\ Has(s, a) => HeapWith(s, u)[a].units = u
                             /\ ~Has(s, a) => HeapWith(s, u)[a] = heap[a]
     BY <1>1, <1>3, HeapWithIs
  <1>12. /\ heap' \in [Array -> [refs : Int, units : Chars]]
         /\ \A a \in Array : /\ Deletes(t, a) => heap'[a] = Freed
                             /\ ~Deletes(t, a) => heap'[a] = HeapWith(s, u)[a]
     <2>1. Freed \in [refs : Int, units : Chars]
        BY EmptySeq DEF Freed, Chars
     <2>2. \A a \in Array : Deletes(t, a) <=> task[t].delete /\ a = task[t].old
        BY <1>1 DEF Deletes
     <2>3. CASE task[t].delete
        BY <1>8, <1>11, <2>1, <2>2, <2>3
     <2>4. CASE ~task[t].delete
        BY <1>8, <1>11, <2>2, <2>4
     <2> QED BY <2>3, <2>4
  <1>13. Types'
     <2>1. value' \in [Str -> Chars]
        BY <1>1, <1>8 DEF Types
     <2> QED BY <1>9, <1>10, <1>12, <2>1 DEF Types
  <1>14. \A a \in Array : Deletes(t, a) => heap[a].refs = 0 /\ ~Has(s, a)
     <2>1. \A a \in Array : Deletes(t, a) => heap[a].refs = 0
        BY <1>1 DEF DeletedOnce
     <2> QED BY <1>1, <2>1, FewReferences
  <1>15. Rewritten(s, u, Len(x), o)
     <2>1. value'[s] = SubSeq(u, 1, Len(x)) /\ \A v \in Str \ {s} : value'[v] = value[v]
        BY <1>1, <1>6, <1>8 DEF Types
     <2>2. \A a \in Array : /\ heap'[a].refs = heap[a].refs
                            /\ Has(s, a) => heap'[a].units = u
                            /\ ~Has(s, a) => heap'[a] = heap[a] \/ heap[a].refs = 0
        BY <1>11, <1>12, <1>14 DEF Freed
     <2> QED BY <1>10, <2>1, <2>2 DEF Rewritten
  <1>16. /\ \A v \in Str \ {s} : KeptAlone(v)
         /\ StringOK(s)'
         /\ \A v \in Str, a \in Array : Has(v, a)' <=> Has(v, a)
         /\ \A a \in Array : OwnerCount(a)' = OwnerCount(a)
         /\ \A a \in Array : Has(s, a) => heap[a].units # <<>> /\ heap'[a].units # <<>>
     <2>1. o => Len(x) = 0
        BY <1>4, <1>7
     <2> QED BY <1>3, <1>4, <1>6, <1>15, <2>1, RewrittenOK
  <1>17. task'[t].pc = "idle"
     BY <1>9 DEF Idle
  <1>18. RefsCounted'
     <2>1. ASSUME NEW a \in Array PROVE GiverCount(a)' = GiverCount(a)
        BY <1>1, <1>9, <1>17, GiversChange DEF Others, GivesUp, At
     <2>2. \A a \in Array : heap'[a].refs = heap[a].refs
        BY <1>15 DEF Rewritten
     <2> QED BY <1>1, <1>16, <2>1, <2>2 DEF RefsCounted
  <1>19. DeletedOnce'
     <2>1. \A a \in Array : ~Deletes(t, a)'
        BY <1>17 DEF Deletes, At
     <2>2. \A a \in Array : /\ heap'[a].refs = heap[a].refs
                            /\ Deletes(t, a) => heap'[a] = Freed
                            /\ ~Deletes(t, a) => \/ heap'[a] = heap[a]
                                                 \/ heap[a].units # <<>> /\ heap'[a].units # <<>>
        BY <1>11, <1>12, <1>15, <1>16 DEF Rewritten
     <2> QED BY <1>1, <1>9, <2>1, <2>2, DeletedNow
  <1>20. ThreadOK(t)'
     BY <1>17 DEF ThreadOK, TaskShape, Writing, Allocating, Rewriting, Replacing
  <1>21. ReadOnly'
     BY <1>9, ReadOnlySame DEF Inv
  <1>22. (\A v \in Str : StringOK(v)') /\ (\A v \in Thread : ThreadOK(v)')
     <2>1. \A v \in Thread : v # t /\ ~At(v, "idle") => task[v].s \notin {s}
        BY <1>3, TaskIs DEF Inv, ThreadOK, TaskShape
     <2>2. \A v \in Str \ {s} : KeptAlone(v) /\ (v[1] = t /\ Unsettled(v) => Unsettled(v)')
        BY <1>2, <1>16 DEF Unsettled
     <2>3. {s} \in SUBSET Str /\ \A v \in {s} : StringOK(v)'
        BY <1>16
     <2> QED BY <1>9, <1>13, <1>20, <2>1, <2>2, <2>3, Combine
  <1> QED BY <1>13, <1>18, <1>19, <1>21, <1>22 DEF Inv

-------------------------------------------------------------------------------
(* Calls that look at no counter. *)

(* A step of a thread that is not between two arrays: as many references are *)
(* gained or lost as strings have the array.                                 *)
LEMMA Conclude ==
  ASSUME ConstantsRight, Inv, Types', NEW t \in Thread, Others(t), NEW C \in SUBSET Str,
         \A u \in Str \ C : KeptAlone(u) /\ (u[1] = t => ~Unsettled(u)),
         \A u \in C : StringOK(u)',
         \A v \in Thread : v # t /\ ~At(v, "idle") => task[v].s \notin C,
         task[t].pc \in {"idle"} \cup Replacing, task'[t].pc \in {"idle"} \cup Replacing,
         ThreadOK(t)', ReadOnly',
         \A a \in Array : heap'[a].refs - heap[a].refs = OwnerCount(a)' - OwnerCount(a),
         \A a \in Array : \/ heap'[a] = heap[a]
                          \/ heap[a].refs # 0 /\ heap'[a] = Freed
                          \/ heap[a].refs # 0 /\ heap'[a].refs # 0 /\ heap'[a].units # <<>>
  PROVE  Inv'
  <1>1. (\A u \in Str : StringOK(u)') /\ (\A v \in Thread : ThreadOK(v)')
     BY Combine
  <1>2. \A a \in Array : /\ ~GivesUp(t, a) /\ ~GivesUp(t, a)'
                         /\ ~Deletes(t, a) /\ ~Deletes(t, a)'
     BY DEF GivesUp, Deletes, At, Replacing
  <1>3. RefsCounted'
     <2>1. ASSUME NEW a \in Array PROVE heap'[a].refs = OwnerCount(a)' + GiverCount(a)'
        <3>1. GiverCount(a)' = GiverCount(a)
           BY <1>2, GiversChange DEF Others
        <3>2. heap[a].refs = OwnerCount(a) + GiverCount(a)
           BY DEF Inv, RefsCounted
        <3>3. OwnerCount(a) \in Nat /\ GiverCount(a) \in Nat /\ OwnerCount(a)' \in Nat /\ heap'[a].refs \in Int
           BY CountsFinite, CountsFiniteNext DEF Types
        <3> QED BY <3>1, <3>2, <3>3
     <2> QED BY <2>1 DEF RefsCounted
  <1>4. DeletedOnce'
     BY <1>2, DeletedOnceKept DEF Inv
  <1> QED BY <1>1, <1>3, <1>4 DEF Inv

(* A thread between two calls has nothing to keep. *)
LEMMA IdleThread ==
  ASSUME NEW t \in Thread, task'[t].pc = "idle"
  PROVE  ThreadOK(t)'
  BY DEF ThreadOK, TaskShape, Writing, Allocating, Rewriting, Replacing

(* A call that looks at no counter, on the strings C of its thread. *)
LEMMA CallStep ==
  ASSUME ConstantsRight, Inv, NEW t \in Thread, At(t, "idle"), UNCHANGED task,
         NEW C \in SUBSET Str, \A u \in C : u[1] = t,
         str' \in [Str -> String], heap' \in [Array -> [refs : Int, units : Chars]], value' \in [Str -> Chars],
         \A u \in Str \ C : KeptAlone(u),
         \A u \in C : StringOK(u)',
         \A a \in Array : OwnerCount(a)' = OwnerCount(a),
         \A a \in Array : heap'[a].refs = heap[a].refs,
         \A a \in Array : heap'[a] = heap[a] \/ (heap[a].refs # 0 /\ heap'[a].units # <<>>)
  PROVE  Inv'
  <1>1. Types' /\ Others(t) /\ task'[t].pc = "idle" /\ task[t].pc = "idle" /\ task'[t] = task[t]
     BY DEF Inv, Types, Others, At
  <1>2. \A u \in Str \ C : KeptAlone(u) /\ (u[1] = t => ~Unsettled(u))
     BY <1>1 DEF Unsettled, Rewriting, Replacing
  <1>3. \A v \in Thread : v # t /\ ~At(v, "idle") => task[v].s \notin C
     BY TaskIs DEF Inv, ThreadOK, TaskShape
  <1>4. ThreadOK(t)'
     BY <1>1, IdleThread
  <1>5. ReadOnly'
     BY DEF Inv, ReadOnly, NoClash
  <1>6. \A a \in Array : heap'[a].refs - heap[a].refs = OwnerCount(a)' - OwnerCount(a)
     <2>1. \A a \in Array : heap[a].refs \in Int /\ OwnerCount(a) \in Nat
        BY CountsFinite DEF Inv, Types
     <2> QED BY <2>1
  <1>7. \A a \in Array : \/ heap'[a] = heap[a]
                         \/ heap[a].refs # 0 /\ heap'[a] = Freed
                         \/ heap[a].refs # 0 /\ heap'[a].refs # 0 /\ heap'[a].units # <<>>
     OBVIOUS
  <1> QED BY <1>1, <1>2, <1>3, <1>4, <1>5, <1>6, <1>7, Conclude

(* Strings without an array. *)
LEMMA EmptyIs ==
  ASSUME ConstantsRight
  PROVE  /\ Empty \in String /\ <<>> \in Chars
         /\ \E u \in Chars : /\ Len(u) = US_STACKBUF_SIZE /\ SubSeq(u, 1, 0) = <<>>
                             /\ Empty = [kind |-> "short", array |-> None, units |-> u,
                                         length |-> 0, open |-> FALSE]
  <1>1. PICK u \in Chars : u = [i \in 1..US_STACKBUF_SIZE |-> Junk] /\ Len(u) = US_STACKBUF_SIZE
     <2>1. US_STACKBUF_SIZE \in Nat /\ Junk \in CodeUnit
        BY OwnUnits DEF ConstantsRight
     <2> DEFINE w == [i \in 1..US_STACKBUF_SIZE |-> Junk]
     <2>2. w \in [1..US_STACKBUF_SIZE -> CodeUnit]
        BY <2>1
     <2>3. w \in Chars
        BY <2>1, <2>2, SeqDef DEF Chars
     <2>4. Len(w) = US_STACKBUF_SIZE
        BY <2>1, <2>2, <2>3, LenProperties DEF Chars
     <2> QED BY <2>3, <2>4
  <1>2. Empty = [kind |-> "short", array |-> None, units |-> u, length |-> 0, open |-> FALSE]
     BY <1>1 DEF Empty, Stored
  <1>3. SubSeq(u, 1, 0) = <<>>
     <2>1. 0 \in 0..Len(u) /\ 0 \in 0..0
        BY LenProperties DEF Chars
     <2>2. SubSeq(u, 1, 0) \in Chars /\ Len(SubSeq(u, 1, 0)) = 0
        BY <2>1, SubText
     <2> QED BY <2>2, EmptySeq DEF Chars
  <1>4. Empty \in String /\ <<>> \in Chars
     BY <1>2, EmptySeq DEF String, Chars
  <1> QED BY <1>1, <1>2, <1>3, <1>4

(* A string that is set to empty, as it should be. *)
LEMMA EmptyOK ==
  ASSUME ConstantsRight, NEW s \in Str, str'[s] = Empty
  PROVE  /\ Empty \in String /\ <<>> \in Chars
         /\ Shape(s)' /\ Shown(s)' = <<>> /\ \A a : ~Has(s, a)'
  <1>1. PICK u \in Chars : /\ Len(u) = US_STACKBUF_SIZE /\ SubSeq(u, 1, 0) = <<>>
                           /\ Empty = [kind |-> "short", array |-> None, units |-> u,
                                       length |-> 0, open |-> FALSE]
     BY EmptyIs
  <1>2. /\ str'[s].kind = "short" /\ str'[s].array = None /\ str'[s].units = u
        /\ str'[s].length = 0 /\ ~str'[s].open
     BY <1>1
  <1>3. Units(s)' = u /\ ~Long(s)' /\ Capacity(s)' = Len(u)
     BY <1>2 DEF Units, Long, Capacity
  <1>4. Len(str'[s].units) = US_STACKBUF_SIZE /\ 0 <= Capacity(s)'
     <2>1. PICK n \in Nat : n = Len(u)
        BY LenProperties DEF Chars
     <2>2. Capacity(s)' = n
        BY <1>3, <2>1
     <2>3. 0 <= Capacity(s)'
        BY <2>2
     <2> QED BY <1>1, <1>2, <2>3
  <1>5. Shape(s)'
     BY <1>2, <1>4 DEF Shape
  <1>6. Shown(s)' = <<>>
     BY <1>1, <1>2, <1>3 DEF Shown
  <1> QED BY <1>3, <1>5, <1>6, EmptyIs DEF Has

(* A string that is set to bogus, as it should be. *)
LEMMA BogusOK ==
  ASSUME NEW s \in Str, str'[s] = BogusString
  PROVE  /\ BogusString \in String /\ Bogus \in Chars
         /\ Shape(s)' /\ Shown(s)' = Bogus /\ \A a : ~Has(s, a)'
  <1>1. BogusString = [kind |-> "bogus", array |-> None, units |-> <<>>, length |-> 0, open |-> FALSE]
     BY DEF BogusString, Stored
  <1>2. ~Long(s)' /\ Units(s)' = <<>> /\ Capacity(s)' = 0
     BY <1>1, EmptySeq DEF Long, Units, Capacity
  <1>3. Shape(s)' /\ Shown(s)' = Bogus
     BY <1>1, <1>2 DEF Shape, Shown
  <1>4. BogusString \in String /\ Bogus \in Chars
     BY <1>1, OwnUnits, EmptySeq DEF String, Bogus, Chars
  <1> QED BY <1>2, <1>3, <1>4 DEF Has

(* A string that takes the fields of another, or keeps its own. *)
LEMMA TakesOver ==
  ASSUME NEW s \in Str, NEW o \in Str, Shape(o), Shown(o) = value[o],
         str'[s] = str[o], value'[s] = value[o],
         Long(o) => /\ heap'[str[o].array].units = heap[str[o].array].units
                    /\ str[o].open => heap'[str[o].array].refs <= 1,
         Types'
  PROVE  StringOK(s)' /\ \A a : Has(s, a)' <=> Has(o, a)
  <1>1. Long(s)' <=> Long(o)
     BY DEF Long
  <1>2. Units(s)' = Units(o)
     BY <1>1 DEF Units
  <1>3. Capacity(s)' = Capacity(o) /\ Shown(s)' = Shown(o)
     BY <1>2 DEF Capacity, Shown
  <1>4. str[o].open => ~Shared(s)'
     <2>1. CASE Long(o)
        <3>1. PICK a \in Array : a = str[o].array
           BY <2>1 DEF Shape, Long
        <3>2. heap'[a].refs \in Int
           BY DEF Types
        <3> QED BY <1>1, <3>1, <3>2 DEF Shared
     <2>2. CASE ~Long(o)
        BY <1>1, <2>2 DEF Shared
     <2> QED BY <2>1, <2>2
  <1>5. Shape(s)'
     BY <1>1, <1>3, <1>4 DEF Shape
  <1> QED BY <1>1, <1>3, <1>5 DEF StringOK, Has

(* A thread between two calls has settled strings. *)
LEMMA MineSettled ==
  ASSUME Inv, NEW t \in Thread, NEW s \in Str, Mine(t, s)
  PROVE  At(t, "idle") /\ s[1] = t /\ Types /\ StringOK(s) /\ Shape(s) /\ Shown(s) = value[s]
  BY DEF Inv, Mine, StringOK, Unsettled, At, Rewriting, Replacing

(* One string loses its text, or part of it. *)
LEMMA ShortenStep ==
  ASSUME ConstantsRight, Inv, NEW t \in Thread, NEW s \in Str, Mine(t, s), UNCHANGED task,
         \/ str[s].kind = "bogus" /\ SetTo(s, Empty, <<>>)
         \/ \E n \in 0..str[s].length : /\ str[s].kind # "bogus"
                                        /\ SetTo(s, [str[s] EXCEPT !.length = n], SubSeq(value[s], 1, n))
  PROVE  Inv'
  <1>1. At(t, "idle") /\ s[1] = t /\ Types /\ StringOK(s) /\ Shape(s) /\ Shown(s) = value[s] /\ heap' = heap
     BY MineSettled DEF SetTo
  <1>2. ASSUME str[s].kind = "bogus", SetTo(s, Empty, <<>>)
        PROVE /\ str' \in [Str -> String] /\ value' \in [Str -> Chars] /\ StringOK(s)'
              /\ \A a \in Array : Has(s, a)' <=> Has(s, a)
              /\ \A v \in Str \ {s} : str'[v] = str[v] /\ value'[v] = value[v]
     <2>1. Empty \in String /\ <<>> \in Chars
        <3>1. str'[s] = Empty
           BY <1>1, <1>2 DEF SetTo, Types
        <3> QED BY <3>1, EmptyOK
     <2>2. /\ str' \in [Str -> String] /\ value' \in [Str -> Chars] /\ str'[s] = Empty /\ value'[s] = <<>>
           /\ \A v \in Str \ {s} : str'[v] = str[v] /\ value'[v] = value[v]
        BY <1>1, <1>2, <2>1 DEF SetTo, Types
     <2>3. StringOK(s)' /\ \A a : ~Has(s, a)'
        BY <2>2, EmptyOK DEF StringOK
     <2>4. \A a : ~Has(s, a)
        BY <1>2 DEF Has, Long
     <2> QED BY <2>2, <2>3, <2>4
  <1>3. ASSUME \E n \in 0..str[s].length : /\ str[s].kind # "bogus"
                                           /\ SetTo(s, [str[s] EXCEPT !.length = n], SubSeq(value[s], 1, n))
        PROVE /\ str' \in [Str -> String] /\ value' \in [Str -> Chars] /\ StringOK(s)'
              /\ \A a \in Array : Has(s, a)' <=> Has(s, a)
              /\ \A v \in Str \ {s} : str'[v] = str[v] /\ value'[v] = value[v]
     <2>1. PICK n \in 0..str[s].length : SetTo(s, [str[s] EXCEPT !.length = n], SubSeq(value[s], 1, n))
        BY <1>3
     <2>2. /\ Units(s) \in Chars /\ Capacity(s) = Len(Units(s)) /\ Capacity(s) \in Nat /\ str[s] \in String
           /\ Shown(s) = SubSeq(Units(s), 1, str[s].length) /\ Len(Shown(s)) = str[s].length
           /\ str[s].length \in 0..Len(Units(s)) /\ Shown(s) \in Chars
        BY <1>1, <1>3, Storage, StrIs
     <2>3. SubSeq(value[s], 1, n) \in Chars /\ SubSeq(value[s], 1, n) = SubSeq(Units(s), 1, n)
        <3>1. SubSeq(value[s], 1, n) = SubSeq(Units(s), 1, n)
           BY <1>1, <2>2, SubText
        <3>2. n \in 0..Len(Units(s)) /\ 0 \in 0..n
           BY <2>2
        <3>3. SubSeq(Units(s), 1, n) \in Chars
           BY <2>2, <3>2, SubText
        <3> QED BY <3>1, <3>3
     <2>4. /\ str' \in [Str -> String] /\ value' \in [Str -> Chars]
           /\ str'[s].kind = str[s].kind /\ str'[s].array = str[s].array /\ str'[s].units = str[s].units
           /\ str'[s].length = n /\ str'[s].open = str[s].open
           /\ value'[s] = SubSeq(value[s], 1, n)
           /\ \A v \in Str \ {s} : str'[v] = str[v] /\ value'[v] = value[v]
        <3>1. str' = [str EXCEPT ![s] = [str[s] EXCEPT !.length = n]] /\ n \in Nat
              /\ value' = [value EXCEPT ![s] = SubSeq(value[s], 1, n)]
           BY <2>1 DEF SetTo
        <3>2. value' \in [Str -> Chars] /\ value'[s] = SubSeq(value[s], 1, n)
              /\ \A v \in Str \ {s} : value'[v] = value[v]
           BY <1>1, <2>3, <3>1 DEF Types
        <3>3. str' \in [Str -> String] /\ \A v \in Str \ {s} : str'[v] = str[v]
           BY <1>1, <3>1 DEF Types, String
        <3>4. /\ str'[s].kind = str[s].kind /\ str'[s].array = str[s].array /\ str'[s].units = str[s].units
              /\ str'[s].length = n /\ str'[s].open = str[s].open
           BY <1>1, <3>1 DEF Types, String
        <3> QED BY <3>2, <3>3, <3>4
     <2>5. Units(s)' = Units(s) /\ (Shared(s)' <=> Shared(s)) /\ (\A a : Has(s, a)' <=> Has(s, a))
        BY <1>1, <2>4 DEF Units, Long, Shared, Has
     <2>6. Shown(s)' = value'[s] /\ Capacity(s)' = Capacity(s)
        BY <1>3, <2>3, <2>4, <2>5 DEF Shown, Capacity
     <2>7. Shape(s)'
        <3>1. n <= Capacity(s) /\ (str[s].open => n = 0)
           BY <1>1, <2>2 DEF Shape
        <3> QED BY <1>1, <1>3, <2>4, <2>5, <2>6, <3>1 DEF Shape
     <2> QED BY <2>4, <2>5, <2>6, <2>7 DEF StringOK
  <1>4. /\ str' \in [Str -> String] /\ value' \in [Str -> Chars] /\ StringOK(s)'
        /\ \A a \in Array : Has(s, a)' <=> Has(s, a)
        /\ \A v \in Str \ {s} : str'[v] = str[v] /\ value'[v] = value[v]
     BY <1>2, <1>3
  <1>5. \A a \in Array : OwnerCount(a)' = OwnerCount(a)
     <2>1. \A a \in Array : OtherOwners(s, s, a)
        BY <1>4 DEF OtherOwners, Has, Long
     <2> QED BY <1>4, <2>1, OwnersChange
  <1>6. \A v \in Str \ {s} : KeptAlone(v)
     BY <1>1, <1>4 DEF KeptAlone, Kept
  <1>7. {s} \in SUBSET Str /\ \A u \in {s} : u[1] = t /\ StringOK(u)'
     BY <1>1, <1>4
  <1>8. heap' \in [Array -> [refs : Int, units : Chars]]
     BY <1>1 DEF Types
  <1> QED BY <1>1, <1>4, <1>5, <1>6, <1>7, <1>8, CallStep

(* truncate: a prefix of the text is shown, also by a string that shares    *)
(* its array.                                                               *)
LEMMA TruncateStep ==
  ASSUME ConstantsRight, Inv, NEW t \in Thread, NEW s \in Str, NEW n \in 0..MaxLength, Truncate(t, s, n)
  PROVE  Inv'
  <1>1. Mine(t, s) /\ UNCHANGED task /\ Shape(s) /\ str[s].length \in Nat
     BY MineSettled, StrIs DEF Truncate
  <1>2. CASE str[s].kind = "bogus" /\ SetTo(s, Empty, <<>>)
     BY <1>1, <1>2, ShortenStep
  <1>3. CASE n < str[s].length /\ SetTo(s, [str[s] EXCEPT !.length = n], SubSeq(value[s], 1, n))
     <2>1. str[s].kind # "bogus"
        BY <1>1, <1>3 DEF Shape, BogusString, Stored
     <2>2. n \in 0..str[s].length
        BY <1>1, <1>3 DEF ConstantsRight
     <2> QED BY <1>1, <1>3, <2>1, <2>2, ShortenStep
  <1> QED BY <1>2, <1>3 DEF Truncate

(* remove: no text is shown, also by a string that shares its array. *)
LEMMA RemoveStep ==
  ASSUME ConstantsRight, Inv, NEW t \in Thread, NEW s \in Str, RemoveText(t, s)
  PROVE  Inv'
  <1>1. Mine(t, s) /\ UNCHANGED task /\ str[s].length \in Nat /\ value[s] \in Chars
     BY MineSettled, StrIs DEF RemoveText
  <1>2. CASE str[s].kind = "bogus"
     BY <1>1, <1>2, ShortenStep DEF RemoveText
  <1>3. CASE str[s].kind # "bogus"
     <2>1. SubSeq(value[s], 1, 0) = <<>>
        <3>1. 0 \in 0..Len(value[s]) /\ 0 \in 0..0
           BY <1>1, LenProperties DEF Chars
        <3>2. SubSeq(value[s], 1, 0) \in Chars /\ Len(SubSeq(value[s], 1, 0)) = 0
           BY <1>1, <3>1, SubText
        <3> QED BY <3>2, EmptySeq DEF Chars
     <2>2. SetTo(s, IF str[s].kind = "bogus" THEN Empty ELSE [str[s] EXCEPT !.length = 0], SubSeq(value[s], 1, 0))
        BY <2>1, Zenon DEF RemoveText
     <2>3. SetTo(s, [str[s] EXCEPT !.length = 0], SubSeq(value[s], 1, 0))
        BY <1>3, <2>2, Zenon
     <2>4. 0 \in 0..str[s].length
        BY <1>1
     <2> QED BY <1>1, <1>3, <2>3, <2>4, ShortenStep
  <1> QED BY <1>2, <1>3

(* swap: the strings exchange their arrays, and no counter changes. *)
LEMMA SwapStep ==
  ASSUME ConstantsRight, Inv, NEW t \in Thread, NEW s \in Str, NEW o \in Str \ {s}, Swap(t, s, o)
  PROVE  Inv'
  <1>1. /\ At(t, "idle") /\ Types /\ UNCHANGED <<heap, task>>
        /\ s[1] = t /\ Shape(s) /\ Shown(s) = value[s]
        /\ o[1] = t /\ Shape(o) /\ Shown(o) = value[o]
     BY MineSettled DEF Swap
  <1>2. /\ str' = [str EXCEPT ![s] = str[o], ![o] = str[s]]
        /\ value' = [value EXCEPT ![s] = value[o], ![o] = value[s]]
     BY DEF Swap
  <1>3. /\ str' \in [Str -> String] /\ str'[s] = str[o] /\ str'[o] = str[s]
        /\ value' \in [Str -> Chars] /\ value'[s] = value[o] /\ value'[o] = value[s]
        /\ \A v \in Str \ {s, o} : str'[v] = str[v] /\ value'[v] = value[v]
     BY <1>1, <1>2 DEF Types
  <1>4. Types'
     BY <1>1, <1>3 DEF Types
  <1>5. \A u \in Str : u \in {s, o} /\ Long(u) => (str[u].open => heap'[str[u].array].refs <= 1)
     <2>1. \A u \in Str : u \in {s, o} /\ Long(u) /\ str[u].open => ~Shared(u) /\ str[u].array \in Array
        BY <1>1 DEF Shape, Long
     <2>2. \A a \in Array : heap[a].refs \in Int
        BY <1>1 DEF Types
     <2> QED BY <1>1, <2>1, <2>2 DEF Shared
  <1>6. StringOK(s)' /\ \A a : Has(s, a)' <=> Has(o, a)
     BY <1>1, <1>3, <1>4, <1>5, TakesOver
  <1>7. StringOK(o)' /\ \A a : Has(o, a)' <=> Has(s, a)
     BY <1>1, <1>3, <1>4, <1>5, TakesOver
  <1>8. ASSUME NEW a \in Array PROVE OwnerCount(a)' = OwnerCount(a)
     <2>1. OtherOwners(s, o, a) /\ OtherOwners(o, s, a)
        BY <1>3 DEF OtherOwners, Has, Long
     <2>2. CASE Has(s, a) <=> Has(o, a)
        BY <1>6, <1>7, <2>1, <2>2, OwnersChange
     <2>3. CASE Has(o, a) /\ ~Has(s, a)
        BY <1>6, <1>7, <2>1, <2>3, OwnersChange
     <2>4. CASE Has(s, a) /\ ~Has(o, a)
        BY <1>6, <1>7, <2>1, <2>4, OwnersChange
     <2> QED BY <2>2, <2>3, <2>4
  <1>9. \A v \in Str \ {s, o} : KeptAlone(v)
     BY <1>1, <1>3 DEF KeptAlone, Kept
  <1>10. {s, o} \in SUBSET Str /\ \A u \in {s, o} : u[1] = t /\ StringOK(u)'
     BY <1>1, <1>6, <1>7
  <1>11. heap' \in [Array -> [refs : Int, units : Chars]]
     BY <1>4 DEF Types
  <1> QED BY <1>1, <1>3, <1>8, <1>9, <1>10, <1>11, CallStep

(* releaseBuffer: what the caller put into the open buffer is the text, and *)
(* nobody shared that buffer.                                               *)
LEMMA ReleaseBufferStep ==
  ASSUME ConstantsRight, Inv, NEW t \in Thread, NEW s \in Str, NEW text \in Text, ReleaseBuffer(t, s, text)
  PROVE  Inv'
  <1>1. /\ At(t, "idle") /\ s[1] = t /\ Types /\ Shape(s) /\ str[s].open /\ ~Shared(s) /\ str[s].kind # "bogus"
        /\ UNCHANGED task
     BY MineSettled DEF ReleaseBuffer, Shape, BogusString, Stored
  <1>2. Units(s) \in Chars /\ Capacity(s) = Len(Units(s)) /\ Capacity(s) \in Nat
     BY <1>1, Storage
  <1>3. PICK m \in Nat : m = Min({Len(text), Capacity(s)}) /\ m <= Len(text) /\ m <= Capacity(s)
     <2>1. text \in Chars /\ Len(text) \in Nat
        BY LenProperties DEF ConstantsRight, Chars
     <2>2. Min({Len(text), Capacity(s)}) = IF Len(text) <= Capacity(s) THEN Len(text) ELSE Capacity(s)
        BY <1>2, <2>1, MinOfTwo
     <2> QED BY <1>2, <2>1, <2>2
  <1>4. PICK x \in Chars : x = SubSeq(text, 1, m) /\ Len(x) = m
     <2>1. text \in Chars /\ m \in 0..Len(text) /\ 0 \in 0..m
        BY <1>3, LenProperties DEF ConstantsRight, Chars
     <2> QED BY <2>1, SubText
  <1>5. PICK u \in Chars : u = Overwritten(Units(s), x) /\ Len(u) = Capacity(s) /\ SubSeq(u, 1, m) = x
     <2>1. m \in 0..Len(x) /\ m <= Len(Units(s))
        BY <1>2, <1>3, <1>4
     <2>2. SubSeq(x, 1, m) = x
        BY <1>4, WholeText
     <2>3. SubSeq(Overwritten(Units(s), x), 1, m) = SubSeq(x, 1, m)
        BY <1>2, <1>4, <2>1, OverwrittenText
     <2>4. Overwritten(Units(s), x) \in Chars /\ Len(Overwritten(Units(s), x)) = Len(Units(s))
        BY <1>2, <1>4, OverwrittenText
     <2> QED BY <1>2, <2>2, <2>3, <2>4
  <1>6. /\ str' = [str EXCEPT ![s] = Refilled(s, u, m, FALSE)] /\ heap' = HeapWith(s, u)
        /\ value' = [value EXCEPT ![s] = x]
     BY <1>3, <1>4, <1>5 DEF ReleaseBuffer
  <1>7. /\ str' \in [Str -> String]
        /\ str'[s].kind = str[s].kind /\ str'[s].array = str[s].array
        /\ str'[s].units = IF Long(s) THEN str[s].units ELSE u
        /\ str'[s].length = m /\ str'[s].open = FALSE
        /\ \A v \in Str \ {s} : str'[v] = str[v]
     BY <1>1, <1>6, RefilledIs
  <1>8. /\ heap' \in [Array -> [refs : Int, units : Chars]]
        /\ \A a \in Array : /\ heap'[a].refs = heap[a].refs
                            /\ Has(s, a) => heap'[a].units = u
                            /\ ~Has(s, a) => heap'[a] = heap[a]
     BY <1>1, <1>6, HeapWithIs
  <1>9. value' \in [Str -> Chars] /\ value'[s] = x /\ \A v \in Str \ {s} : value'[v] = value[v]
     BY <1>1, <1>6 DEF Types
  <1>10. Rewritten(s, u, m, FALSE)
     BY <1>5, <1>7, <1>8, <1>9 DEF Rewritten
  <1>11. /\ \A v \in Str \ {s} : KeptAlone(v)
         /\ StringOK(s)'
         /\ \A a \in Array : OwnerCount(a)' = OwnerCount(a)
         /\ \A a \in Array : Has(s, a) => heap[a].units # <<>> /\ heap'[a].units # <<>>
     <2>1. m <= Len(u)
        BY <1>3, <1>5
     <2> QED BY <1>1, <1>3, <1>5, <1>10, <2>1, RewrittenOK
  <1>12. \A a \in Array : Has(s, a) => heap[a].refs # 0
     BY <1>1, FewReferences DEF Inv
  <1>13. {s} \in SUBSET Str /\ \A v \in {s} : v[1] = t /\ StringOK(v)'
     BY <1>1, <1>11
  <1>14. /\ \A a \in Array : heap'[a].refs = heap[a].refs
         /\ \A a \in Array : heap'[a] = heap[a] \/ (heap[a].refs # 0 /\ heap'[a].units # <<>>)
     BY <1>8, <1>11, <1>12
  <1> QED BY <1>1, <1>7, <1>8, <1>9, <1>11, <1>13, <1>14, CallStep

-------------------------------------------------------------------------------
(* Copies, moves and destructors. *)

(* Where a call that gives a string something else is. *)
LEMMA InAssign ==
  ASSUME Inv, NEW t \in Thread, task[t].pc \in Replacing
  PROVE  /\ task[t] \in AssignTask /\ task[t] # Idle /\ Types
         /\ task[t].s \in Str /\ task[t].from \in Str /\ task[t].s[1] = t
         /\ task[t].how \in {"copy", "move"} => task[t].from # task[t].s
         /\ task[t].how = "move" => task[t].from[1] = t
         /\ task[t].pc = "assign" => str[task[t].s] = Empty
  BY TaskIs DEF Inv, ThreadOK, TaskShape, AssignTask, Idle, Replacing

(* releaseArray: the string's reference is given up, and the array freed    *)
(* with the last one.                                                       *)
LEMMA ReleaseArrayStep ==
  ASSUME ConstantsRight, Inv, NEW t \in Thread, ReleaseArray(t)
  PROVE  Inv'
  <1>1. task[t].pc = "release" /\ task[t].pc \in Replacing /\ Types /\ value' = value
     BY DEF ReleaseArray, At, Replacing, Inv
  <1>2. PICK s \in Str : s = task[t].s
     BY <1>1, InAssign
  <1>3. s[1] = t /\ task[t] \in AssignTask /\ task[t] # Idle /\ Shape(s)
     BY <1>1, <1>2, InAssign DEF Inv, StringOK
  <1>4. /\ Become(t, [task[t] EXCEPT !.pc = "assign"])
        /\ str' = [str EXCEPT ![s] = Empty]
        /\ heap' = IF ~Long(s) THEN heap
                   ELSE IF heap[str[s].array].refs = 1 THEN [heap EXCEPT ![str[s].array] = Freed]
                   ELSE [heap EXCEPT ![str[s].array].refs = @ - 1]
     BY <1>2 DEF ReleaseArray
  <1> DEFINE r == [task[t] EXCEPT !.pc = "assign"]
  <1>5. r \in AssignTask
     BY <1>3 DEF AssignTask, Replacing
  <1>6. /\ Others(t) /\ task'[t] = r
        /\ task' \in [Thread -> {Idle} \cup ChangeTask \cup AssignTask]
     BY <1>1, <1>4, <1>5, BecomeIs
  <1>7. /\ task'[t].pc = "assign" /\ task'[t].s = s /\ task'[t].from = task[t].from
        /\ task'[t].how = task[t].how
     BY <1>2, <1>3, <1>6 DEF AssignTask
  <1> HIDE DEF r
  <1>8. Empty \in String /\ Shape(s)' /\ \A a : ~Has(s, a)'
     <2>1. str'[s] = Empty
        BY <1>1, <1>4 DEF Types
     <2> QED BY <2>1, EmptyOK
  <1>9. str' \in [Str -> String] /\ str'[s] = Empty /\ \A v \in Str \ {s} : str'[v] = str[v]
     BY <1>1, <1>4, <1>8 DEF Types
  <1>10. /\ heap' \in [Array -> [refs : Int, units : Chars]]
         /\ \A a \in Array : /\ ~Has(s, a) => heap'[a] = heap[a]
                             /\ Has(s, a) => \/ heap[a].refs = 1 /\ heap'[a] = Freed
                                             \/ /\ heap[a].refs # 1 /\ heap'[a].refs = heap[a].refs - 1
                                                /\ heap'[a].units = heap[a].units
     <2>1. CASE ~Long(s)
        BY <1>1, <1>4, <2>1 DEF Types, Has
     <2>2. CASE Long(s)
        <3>1. PICK b \in Array : b = str[s].array /\ \A a \in Array : Has(s, a) <=> a = b
           BY <1>3, <2>2 DEF Shape, Long, Has
        <3>2. CASE heap[b].refs = 1
           <4>1. heap' = [heap EXCEPT ![b] = Freed]
              BY <1>4, <2>2, <3>1, <3>2
           <4>2. Freed \in [refs : Int, units : Chars]
              BY EmptySeq DEF Freed, Chars
           <4> QED BY <1>1, <3>1, <3>2, <4>1, <4>2 DEF Types
        <3>3. CASE heap[b].refs # 1
           <4>1. heap' = [heap EXCEPT ![b].refs = @ - 1]
              BY <1>4, <2>2, <3>1, <3>3
           <4> QED BY <1>1, <3>1, <3>3, <4>1 DEF Types
        <3> QED BY <3>2, <3>3
     <2> QED BY <2>1, <2>2
  <1>11. Types'
     BY <1>1, <1>6, <1>9, <1>10 DEF Types
  <1>12. ASSUME NEW a \in Array, Has(s, a)
         PROVE  /\ heap[a].refs \in Nat /\ heap[a].refs # 0 /\ heap[a].units # <<>>
                /\ heap[a].refs = 1 => \A v \in Str : Has(v, a) => v = s
     <2>1. heap[a].refs \in Nat /\ heap[a].refs # 0
        BY <1>12, FewReferences DEF Inv
     <2>2. heap[a].units # <<>>
        BY <2>1 DEF Inv, DeletedOnce, Freed
     <2> QED BY <1>12, <2>1, <2>2, FewReferences DEF Inv
  <1>13. \A v \in Str \ {s} : KeptAlone(v) /\ (v[1] = t => ~Unsettled(v))
     <2>1. ASSUME NEW v \in Str \ {s}, Long(v)
           PROVE /\ heap'[str[v].array].units = heap[str[v].array].units
                 /\ heap[str[v].array].refs <= 1 => heap'[str[v].array].refs <= 1
        <3>1. PICK a \in Array : a = str[v].array /\ Has(v, a)
           BY <2>1 DEF Inv, StringOK, Shape, Long, Has
        <3>2. CASE ~Has(s, a)
           BY <1>10, <3>1, <3>2
        <3>3. CASE Has(s, a)
           <4>1. heap[a].refs \in Nat /\ heap'[a].refs = heap[a].refs - 1 /\ heap'[a].units = heap[a].units
              BY <1>10, <1>12, <3>1, <3>3
           <4> QED BY <3>1, <4>1
        <3> QED BY <3>2, <3>3
     <2> QED BY <1>1, <1>2, <1>9, <2>1 DEF KeptAlone, Kept, Unsettled
  <1>14. StringOK(s)'
     <2>1. Unsettled(s)'
        BY <1>3, <1>7 DEF Unsettled, Replacing
     <2> QED BY <1>8, <2>1 DEF StringOK
  <1>15. ThreadOK(t)'
     <2>1. /\ task[t].how \in {"copy", "move"} => task[t].from # s
           /\ task[t].how = "move" => task[t].from[1] = t
        BY <1>1, <1>2, InAssign
     <2> QED BY <1>3, <1>7, <1>9, <2>1 DEF ThreadOK, TaskShape, Writing, Allocating, Rewriting, Replacing
  <1>16. ReadOnly'
     BY <1>1, <1>2, <1>3, <1>6, <1>7, ReadOnlySame DEF Inv
  <1>17. \A a \in Array : heap'[a].refs - heap[a].refs = OwnerCount(a)' - OwnerCount(a)
     <2>1. ASSUME NEW a \in Array PROVE heap'[a].refs - heap[a].refs = OwnerCount(a)' - OwnerCount(a)
        <3>1. OtherOwners(s, s, a) /\ ~Has(s, a)'
           BY <1>8, <1>9 DEF OtherOwners, Has, Long
        <3>2. OwnerCount(a) \in Nat /\ heap[a].refs \in Int
           BY <1>1, CountsFinite DEF Types
        <3>3. CASE ~Has(s, a)
           <4>1. OwnerCount(a)' = OwnerCount(a)
              BY <3>1, <3>3, OwnersChange
           <4>2. heap'[a].refs = heap[a].refs
              BY <1>10, <3>3
           <4> QED BY <3>2, <4>1, <4>2
        <3>4. CASE Has(s, a)
           <4>1. OwnerCount(a)' = OwnerCount(a) - 1
              BY <3>1, <3>4, OwnersChange
           <4>2. heap'[a].refs = heap[a].refs - 1
              BY <1>10, <3>4 DEF Freed
           <4> QED BY <3>2, <4>1, <4>2
        <3> QED BY <3>3, <3>4
     <2> QED BY <2>1
  <1>18. \A a \in Array : \/ heap'[a] = heap[a]
                          \/ heap[a].refs # 0 /\ heap'[a] = Freed
                          \/ heap[a].refs # 0 /\ heap'[a].refs # 0 /\ heap'[a].units # <<>>
     <2>1. ASSUME NEW a \in Array, Has(s, a), heap[a].refs # 1
           PROVE  heap[a].refs # 0 /\ heap'[a].refs # 0 /\ heap'[a].units # <<>>
        <3>1. heap[a].refs \in Nat /\ heap[a].refs # 0 /\ heap'[a].refs = heap[a].refs - 1
              /\ heap'[a].units = heap[a].units /\ heap[a].units # <<>>
           BY <1>10, <1>12, <2>1
        <3> QED BY <2>1, <3>1
     <2> QED BY <1>10, <2>1
  <1>19. \A v \in Thread : v # t /\ ~At(v, "idle") => task[v].s \notin {s}
     BY <1>3, TaskIs DEF Inv, ThreadOK, TaskShape
  <1>20. {s} \in SUBSET Str /\ \A v \in {s} : StringOK(v)'
     BY <1>14
  <1>21. task[t].pc \in {"idle"} \cup Replacing /\ task'[t].pc \in {"idle"} \cup Replacing
     BY <1>1, <1>7 DEF Replacing
  <1> QED BY <1>6, <1>11, <1>13, <1>15, <1>16, <1>17, <1>18, <1>19, <1>20, <1>21, Conclude

(* A string that is copied or moved from shows its text. *)
LEMMA SourceSettled ==
  ASSUME Inv, NEW t \in Thread, At(t, "assign"), NEW s \in Str, s = task[t].s,
         NEW from \in Str, from = task[t].from, from # s
  PROVE  /\ StringOK(from) /\ Shape(from) /\ Shown(from) = value[from]
         /\ \A v \in Thread : v # t /\ ~At(v, "idle") => task[v].s \notin {s, from}
         /\ str[s] = Empty
  <1>1. task[t].pc \in Replacing /\ s[1] = t /\ str[s] = Empty
     BY InAssign DEF At, Replacing
  <1>2. \A v \in Thread : v # t /\ ~At(v, "idle") => task[v].s \notin {s, from}
     <2>1. ASSUME NEW v \in Thread, v # t, ~At(v, "idle") PROVE task[v].s \notin {s, from}
        <3>1. task[v] # Idle /\ task[v].s[1] = v
           BY <2>1, TaskIs DEF Inv, ThreadOK, TaskShape
        <3>2. NoClash(v, t)
           BY <2>1 DEF Inv, ReadOnly
        <3> QED BY <1>1, <2>1, <3>1, <3>2 DEF NoClash
     <2> QED BY <2>1
  <1>3. ~Unsettled(from)
     <2>1. ASSUME Unsettled(from) PROVE FALSE
        <3>1. PICK v \in Thread : v = from[1]
           BY DEF Str
        <3>2. task[v].s = from /\ ~At(v, "idle")
           BY <2>1, <3>1 DEF Unsettled, At, Rewriting, Replacing
        <3> QED BY <1>2, <3>2
     <2> QED BY <2>1
  <1> QED BY <1>1, <1>2, <1>3 DEF Inv, StringOK

(* The call ends with the strings C changed. *)
LEMMA Ending ==
  ASSUME ConstantsRight, Inv, NEW t \in Thread, At(t, "assign"), NEW s \in Str, s = task[t].s, Become(t, Idle),
         str' \in [Str -> String], heap' \in [Array -> [refs : Int, units : Chars]], value' \in [Str -> Chars],
         NEW C \in SUBSET Str, s \in C,
         \A v \in Thread : v # t /\ ~At(v, "idle") => task[v].s \notin C,
         \A u \in Str \ C : KeptAlone(u),
         \A u \in C : StringOK(u)',
         \A a \in Array : heap'[a].refs - heap[a].refs = OwnerCount(a)' - OwnerCount(a),
         \A a \in Array : \/ heap'[a] = heap[a]
                          \/ heap[a].refs # 0 /\ heap'[a].refs # 0 /\ heap'[a].units # <<>>
  PROVE  Inv'
  <1>1. Types /\ task[t].pc \in Replacing
     BY DEF Inv, At, Replacing
  <1>2. /\ Others(t) /\ task'[t] = Idle /\ task'[t].pc = "idle"
        /\ task' \in [Thread -> {Idle} \cup ChangeTask \cup AssignTask]
     BY <1>1, BecomeIs DEF Idle
  <1>3. Types'
     BY <1>2 DEF Types
  <1>4. \A u \in Str \ C : KeptAlone(u) /\ (u[1] = t => ~Unsettled(u))
     BY DEF Unsettled
  <1>5. ThreadOK(t)' /\ ReadOnly'
     BY <1>2, IdleThread, ReadOnlySame DEF Inv
  <1>6. \A a \in Array : \/ heap'[a] = heap[a]
                         \/ heap[a].refs # 0 /\ heap'[a] = Freed
                         \/ heap[a].refs # 0 /\ heap'[a].refs # 0 /\ heap'[a].units # <<>>
     OBVIOUS
  <1> QED BY <1>1, <1>2, <1>3, <1>4, <1>5, <1>6, Conclude

(* A string without an array takes a text without an array. *)
LEMMA SetStep ==
  ASSUME ConstantsRight, Inv, NEW t \in Thread, At(t, "assign"), NEW s \in Str, s = task[t].s, Become(t, Idle),
         NEW string \in String, NEW text \in Chars, SetTo(s, string, text),
         str'[s] = string => (Shape(s)' /\ Shown(s)' = text /\ \A a : ~Has(s, a)')
  PROVE  Inv'
  <1>1. /\ Types /\ task[t].pc \in Replacing /\ s[1] = t /\ str[s] = Empty /\ heap' = heap
        /\ str' = [str EXCEPT ![s] = string] /\ value' = [value EXCEPT ![s] = text]
     BY InAssign DEF Inv, At, Replacing, SetTo
  <1>2. /\ str' \in [Str -> String] /\ str'[s] = string /\ value' \in [Str -> Chars] /\ value'[s] = text
        /\ \A v \in Str \ {s} : str'[v] = str[v] /\ value'[v] = value[v]
     BY <1>1 DEF Types
  <1>3. StringOK(s)' /\ \A a : ~Has(s, a) /\ ~Has(s, a)'
     BY <1>1, <1>2 DEF StringOK, Empty, Stored, Has, Long
  <1>4. \A a \in Array : heap'[a].refs - heap[a].refs = OwnerCount(a)' - OwnerCount(a)
     <2>1. ASSUME NEW a \in Array PROVE heap'[a].refs - heap[a].refs = OwnerCount(a)' - OwnerCount(a)
        <3>1. OtherOwners(s, s, a)
           BY <1>2 DEF OtherOwners, Has, Long
        <3>2. OwnerCount(a)' = OwnerCount(a) /\ OwnerCount(a) \in Nat
           BY <1>3, <3>1, OwnersChange
        <3>3. heap[a].refs \in Int
           BY <1>1 DEF Types
        <3> QED BY <1>1, <3>2, <3>3
     <2> QED BY <2>1
  <1>5. \A v \in Str \ {s} : KeptAlone(v)
     BY <1>1, <1>2 DEF KeptAlone, Kept
  <1>6. /\ {s} \in SUBSET Str /\ s \in {s} /\ \A v \in {s} : StringOK(v)'
        /\ \A v \in Thread : v # t /\ ~At(v, "idle") => task[v].s \notin {s}
     BY <1>1, <1>3, TaskIs DEF Inv, ThreadOK, TaskShape
  <1>7. heap' \in [Array -> [refs : Int, units : Chars]] /\ \A a \in Array : heap'[a] = heap[a]
     BY <1>1 DEF Types
  <1> QED BY <1>2, <1>4, <1>5, <1>6, <1>7, Ending

(* A string becomes empty. *)
LEMMA SetEmptyStep ==
  ASSUME ConstantsRight, Inv, NEW t \in Thread, At(t, "assign"), NEW s \in Str, s = task[t].s, Become(t, Idle),
         SetTo(s, Empty, <<>>)
  PROVE  Inv'
  <1>1. str'[s] = Empty
     BY DEF SetTo, Inv, Types
  <1>2. Empty \in String /\ <<>> \in Chars /\ Shape(s)' /\ Shown(s)' = <<>> /\ \A a : ~Has(s, a)'
     BY <1>1, EmptyOK
  <1> QED BY <1>2, SetStep

(* copyFrom: addRef is in time, for the source still has its array. *)
LEMMA CopyStep ==
  ASSUME ConstantsRight, Inv, NEW t \in Thread, At(t, "assign"), NEW s \in Str, s = task[t].s, Become(t, Idle),
         NEW from \in Str, from = task[t].from, from # s, str[from].length # 0,
         str' = [str EXCEPT ![s] = str[from]], value' = [value EXCEPT ![s] = value[from]], heap' = AddRef(from)
  PROVE  Inv'
  <1>1. /\ Types /\ RefsCounted /\ DeletedOnce /\ Shape(from) /\ Shown(from) = value[from] /\ str[s] = Empty
        /\ \A v \in Thread : v # t /\ ~At(v, "idle") => task[v].s \notin {s, from}
     BY SourceSettled DEF Inv
  <1>2. /\ str' \in [Str -> String] /\ str'[s] = str[from] /\ str'[from] = str[from]
        /\ value' \in [Str -> Chars] /\ value'[s] = value[from] /\ value'[from] = value[from]
        /\ \A v \in Str \ {s} : str'[v] = str[v] /\ value'[v] = value[v]
     BY <1>1 DEF Types
  <1>3. /\ heap' \in [Array -> [refs : Int, units : Chars]]
        /\ \A a \in Array : /\ ~Has(from, a) => heap'[a] = heap[a]
                            /\ Has(from, a) => /\ heap'[a].refs = heap[a].refs + 1
                                               /\ heap'[a].units = heap[a].units
     <2>1. CASE ~Long(from)
        BY <1>1, <2>1 DEF AddRef, Has, Types
     <2>2. CASE Long(from)
        <3>1. PICK b \in Array : b = str[from].array /\ \A a \in Array : Has(from, a) <=> a = b
           BY <1>1, <2>2 DEF Shape, Long, Has
        <3>2. heap' = [heap EXCEPT ![b].refs = @ + 1]
           BY <2>2, <3>1 DEF AddRef
        <3> QED BY <1>1, <3>1, <3>2 DEF Types
     <2> QED BY <2>1, <2>2
  <1>4. \A a : ~Has(s, a)
     BY <1>1 DEF Empty, Stored, Has, Long
  <1>5. /\ StringOK(s)' /\ \A a : Has(s, a)' <=> Has(from, a)
        /\ StringOK(from)' /\ \A a : Has(from, a)' <=> Has(from, a)
     <2>1. ~str[from].open
        BY <1>1 DEF Shape
     <2>2. Long(from) => heap'[str[from].array].units = heap[str[from].array].units
        BY <1>1, <1>3 DEF Shape, Long, Has
     <2>3. Types'
        <3>1. task' \in [Thread -> {Idle} \cup ChangeTask \cup AssignTask]
           BY <1>1, BecomeIs
        <3> QED BY <1>2, <1>3, <3>1 DEF Types
     <2> QED BY <1>1, <1>2, <2>1, <2>2, <2>3, TakesOver
  <1>6. \A a \in Array : /\ heap[a].refs \in Int /\ OwnerCount(a) \in Nat
                         /\ Has(from, a) => heap[a].refs \in Nat /\ heap[a].refs # 0 /\ heap[a].units # <<>>
     <2>1. \A a \in Array : Has(from, a) => heap[a].refs \in Nat /\ heap[a].refs # 0
        BY <1>1, FewReferences
     <2>2. \A a \in Array : heap[a].refs \in Int /\ OwnerCount(a) \in Nat
        BY <1>1, CountsFinite DEF Types
     <2> QED BY <1>1, <2>1, <2>2 DEF DeletedOnce, Freed
  <1>7. \A a \in Array : heap'[a].refs - heap[a].refs = OwnerCount(a)' - OwnerCount(a)
     <2>1. ASSUME NEW a \in Array PROVE heap'[a].refs - heap[a].refs = OwnerCount(a)' - OwnerCount(a)
        <3>1. OtherOwners(s, s, a)
           BY <1>2 DEF OtherOwners, Has, Long
        <3>2. OwnerCount(a)' = IF Has(from, a) THEN OwnerCount(a) + 1 ELSE OwnerCount(a)
           BY <1>4, <1>5, <3>1, OwnersChange
        <3>3. heap'[a].refs = IF Has(from, a) THEN heap[a].refs + 1 ELSE heap[a].refs
           BY <1>3
        <3> QED BY <1>6, <3>2, <3>3
     <2> QED BY <2>1
  <1>8. \A a \in Array : \/ heap'[a] = heap[a]
                         \/ heap[a].refs # 0 /\ heap'[a].refs # 0 /\ heap'[a].units # <<>>
     <2>1. ASSUME NEW a \in Array, Has(from, a)
           PROVE  heap[a].refs # 0 /\ heap'[a].refs # 0 /\ heap'[a].units # <<>>
        <3>1. heap[a].refs \in Nat /\ heap[a].refs # 0 /\ heap[a].units # <<>>
              /\ heap'[a].refs = heap[a].refs + 1 /\ heap'[a].units = heap[a].units
           BY <1>3, <1>6, <2>1
        <3> QED BY <3>1
     <2> QED BY <1>3, <2>1
  <1>9. \A v \in Str \ {s, from} : KeptAlone(v)
     <2>1. ASSUME NEW v \in Str \ {s, from}, Long(v)
           PROVE /\ heap'[str[v].array].units = heap[str[v].array].units
                 /\ heap[str[v].array].refs <= 1 => heap'[str[v].array].refs <= 1
        <3>1. PICK a \in Array : a = str[v].array /\ Has(v, a)
           BY <2>1 DEF Inv, StringOK, Shape, Long, Has
        <3>2. Has(from, a) => ~(heap[a].refs <= 1)
           BY <1>1, <3>1, FewReferences
        <3> QED BY <1>3, <3>1, <3>2
     <2> QED BY <1>2, <2>1 DEF KeptAlone, Kept
  <1>10. {s, from} \in SUBSET Str /\ s \in {s, from} /\ \A v \in {s, from} : StringOK(v)'
     BY <1>5
  <1>11. /\ str' \in [Str -> String] /\ heap' \in [Array -> [refs : Int, units : Chars]]
         /\ value' \in [Str -> Chars]
         /\ \A v \in Thread : v # t /\ ~At(v, "idle") => task[v].s \notin {s, from}
     BY <1>1, <1>2, <1>3
  <1> QED BY <1>7, <1>8, <1>9, <1>10, <1>11, Ending

(* moveFrom: the array changes hands, and its counter stays the same. *)
LEMMA MoveStep ==
  ASSUME ConstantsRight, Inv, NEW t \in Thread, At(t, "assign"), NEW s \in Str, s = task[t].s, Become(t, Idle),
         NEW from \in Str, from = task[t].from, from # s, MoveFrom(s, from)
  PROVE  Inv'
  <1>1. /\ Types /\ Shape(from) /\ Shown(from) = value[from] /\ str[s] = Empty /\ heap' = heap
        /\ \A v \in Thread : v # t /\ ~At(v, "idle") => task[v].s \notin {s, from}
     BY SourceSettled DEF Inv, MoveFrom
  <1>2. PICK b \in BOOLEAN : /\ b <=> str[from].kind # "short"
                             /\ str' = [str EXCEPT ![s] = str[from], ![from] = IF b THEN BogusString ELSE @]
                             /\ value' = [value EXCEPT ![s] = value[from], ![from] = IF b THEN Bogus ELSE @]
     BY DEF MoveFrom
  <1>3. BogusString \in String /\ Bogus \in Chars
     BY OwnUnits, EmptySeq DEF BogusString, Stored, String, Bogus, Chars
  <1>4. /\ str' \in [Str -> String] /\ str'[s] = str[from] /\ str'[from] = IF b THEN BogusString ELSE str[from]
        /\ \A v \in Str \ {s, from} : str'[v] = str[v]
     BY <1>1, <1>2, <1>3 DEF Types
  <1>5. /\ value' \in [Str -> Chars] /\ value'[s] = value[from] /\ value'[from] = IF b THEN Bogus ELSE value[from]
        /\ \A v \in Str \ {s, from} : value'[v] = value[v]
     BY <1>1, <1>2, <1>3 DEF Types
  <1>6. \A a : ~Has(s, a)
     BY <1>1 DEF Empty, Stored, Has, Long
  <1>7. Types'
     <2>1. task' \in [Thread -> {Idle} \cup ChangeTask \cup AssignTask]
        BY <1>1, BecomeIs
     <2> QED BY <1>1, <1>4, <1>5, <2>1 DEF Types
  <1>8. Long(from) => (str[from].open => heap'[str[from].array].refs <= 1)
     <2>1. Long(from) => str[from].array \in Array
        BY <1>1 DEF Shape, Long
     <2>2. \A a \in Array : heap[a].refs \in Int
        BY <1>1 DEF Types
     <2> QED BY <1>1, <2>1, <2>2 DEF Shape, Shared
  <1>9. StringOK(s)' /\ \A a : Has(s, a)' <=> Has(from, a)
     BY <1>1, <1>4, <1>5, <1>7, <1>8, TakesOver
  <1>10. StringOK(from)' /\ \A a : ~Has(from, a)'
     <2>1. CASE b
        BY <1>4, <1>5, <2>1, BogusOK DEF StringOK
     <2>2. CASE ~b
        <3>1. StringOK(from)' /\ \A a : Has(from, a)' <=> Has(from, a)
           BY <1>1, <1>4, <1>5, <1>7, <1>8, <2>2, TakesOver
        <3> QED BY <1>2, <2>2, <3>1 DEF Has, Long
     <2> QED BY <2>1, <2>2
  <1>11. \A a \in Array : heap'[a].refs - heap[a].refs = OwnerCount(a)' - OwnerCount(a)
     <2>1. ASSUME NEW a \in Array PROVE heap'[a].refs - heap[a].refs = OwnerCount(a)' - OwnerCount(a)
        <3>1. OtherOwners(s, from, a)
           BY <1>4 DEF OtherOwners, Has, Long
        <3>2. OwnerCount(a)' = OwnerCount(a) /\ OwnerCount(a) \in Nat
           <4>1. CASE Has(from, a)
              BY <1>6, <1>9, <1>10, <3>1, <4>1, OwnersChange
           <4>2. CASE ~Has(from, a)
              BY <1>6, <1>9, <1>10, <3>1, <4>2, OwnersChange
           <4> QED BY <4>1, <4>2
        <3>3. heap[a].refs \in Int
           BY <1>1 DEF Types
        <3> QED BY <1>1, <3>2, <3>3
     <2> QED BY <2>1
  <1>12. \A v \in Str \ {s, from} : KeptAlone(v)
     BY <1>1, <1>4, <1>5 DEF KeptAlone, Kept
  <1>13. {s, from} \in SUBSET Str /\ s \in {s, from} /\ \A v \in {s, from} : StringOK(v)'
     BY <1>9, <1>10
  <1>14. heap' \in [Array -> [refs : Int, units : Chars]] /\ \A a \in Array : heap'[a] = heap[a]
     BY <1>1 DEF Types
  <1> QED BY <1>1, <1>4, <1>5, <1>11, <1>12, <1>13, <1>14, Ending, ZenonT(40)

(* The second half of a copy, move, setToBogus or destructor. *)
LEMMA AssignedStep ==
  ASSUME ConstantsRight, Inv, NEW t \in Thread, Assigned(t)
  PROVE  Inv'
  <1>1. At(t, "assign") /\ task[t].pc \in Replacing /\ Become(t, Idle)
     BY DEF Assigned, At, Replacing
  <1>2. PICK s \in Str, from \in Str : s = task[t].s /\ from = task[t].from
     BY <1>1, InAssign
  <1>3. task[t].how \in {"copy", "move"} => from # s
     BY <1>1, <1>2, InAssign
  <1>4. CASE task[t].how = "copy"
     <2>1. CopyFrom(s, from) /\ from # s
        BY <1>2, <1>3, <1>4 DEF Assigned
     <2>2. CASE str[from].length = 0
        <3>1. SetTo(s, Empty, <<>>)
           BY <2>1, <2>2 DEF CopyFrom, SetTo
        <3> QED BY <1>1, <1>2, <3>1, SetEmptyStep
     <2>3. CASE str[from].length # 0
        BY <1>1, <1>2, <2>1, <2>3, CopyStep DEF CopyFrom
     <2> QED BY <2>2, <2>3
  <1>5. CASE task[t].how = "move"
     <2>1. MoveFrom(s, from) /\ from # s
        BY <1>2, <1>3, <1>5 DEF Assigned
     <2> QED BY <1>1, <1>2, <2>1, MoveStep
  <1>6. CASE task[t].how = "bogus"
     <2>1. SetTo(s, BogusString, Bogus)
        BY <1>2, <1>6 DEF Assigned
     <2>2. BogusString \in String /\ Bogus \in Chars
        BY OwnUnits, EmptySeq DEF BogusString, Stored, String, Bogus, Chars
     <2> QED BY <1>1, <1>2, <2>1, <2>2, BogusOK, SetStep
  <1>7. CASE task[t].how = "empty"
     <2>1. SetTo(s, Empty, <<>>)
        BY <1>2, <1>7 DEF Assigned
     <2> QED BY <1>1, <1>2, <2>1, SetEmptyStep
  <1>8. task[t].how \in {"copy", "move", "bogus", "empty"}
     BY <1>1, InAssign DEF AssignTask
  <1> QED BY <1>4, <1>5, <1>6, <1>7, <1>8

(* Nothing changes. *)
LEMMA StutterStep == ASSUME Inv, UNCHANGED strVars PROVE Inv'
  <1>1. UNCHANGED <<str, heap, task, value>>
     BY DEF strVars
  <1>2. Types' /\ RefsCounted' /\ DeletedOnce' /\ ReadOnly'
     <2>1. Types' /\ ReadOnly'
        BY <1>1 DEF Inv, Types, ReadOnly, NoClash
     <2>2. /\ \A a : OwnerCount(a)' = OwnerCount(a) /\ GiverCount(a)' = GiverCount(a)
           /\ \A a : Live(a)' <=> Live(a)
           /\ \A t, a : Deletes(t, a)' <=> Deletes(t, a)
        BY <1>1 DEF OwnerCount, Owners, GiverCount, Givers, Has, Long, GivesUp, Deletes, At, Live
     <2>3. RefsCounted' /\ DeletedOnce'
        BY <1>1, <2>2 DEF Inv, RefsCounted, DeletedOnce
     <2> QED BY <2>1, <2>3
  <1>3. ASSUME NEW s \in Str PROVE StringOK(s)'
     <2>1. /\ Units(s)' = Units(s) /\ Shown(s)' = Shown(s) /\ Capacity(s)' = Capacity(s)
           /\ (Shared(s)' <=> Shared(s)) /\ (Unsettled(s)' <=> Unsettled(s))
        BY <1>1 DEF Units, Shown, Capacity, Shared, Long, Unsettled
     <2> QED BY <1>1, <2>1 DEF Inv, StringOK, Shape
  <1>4. ASSUME NEW t \in Thread PROVE ThreadOK(t)'
     <2>1. \A s : /\ Shown(s)' = Shown(s) /\ Capacity(s)' = Capacity(s) /\ (Shared(s)' <=> Shared(s))
                  /\ \A op : Allowed(op, s)' <=> Allowed(op, s)
        BY <1>1 DEF Units, Shown, Capacity, Shared, Long, Allowed, IsWritable
     <2> QED BY <1>1, <2>1 DEF Inv, ThreadOK, TaskShape, Writing
  <1> QED BY <1>2, <1>3, <1>4 DEF Inv

-------------------------------------------------------------------------------
(* The theorems. *)

(* One long string with one reference, and empty ones. *)
LEMMA InitOK == ASSUME ConstantsRight, Init PROVE Inv
  <1>1. PICK t \in Thread, text \in Text, a \in Array :
          /\ heap = [b \in Array |-> IF b = a THEN [refs |-> 1, units |-> Append(text, Junk)] ELSE Freed]
          /\ str = [s \in Str |-> IF s = <<t, 1>> THEN Stored("long", a, <<>>, Len(text)) ELSE Empty]
          /\ value = [s \in Str |-> IF s = <<t, 1>> THEN text ELSE <<>>]
     BY DEF Init
  <1>2. task = [u \in Thread |-> Idle]
     BY DEF Init
  <1>3. PICK z \in Str : z = <<t, 1>>
     BY DEF Str
  <1>4. PICK x \in Chars : /\ x = Append(text, Junk) /\ Len(x) = Len(text) + 1
                           /\ SubSeq(x, 1, Len(text)) = text
     BY AppendedText, OwnUnits DEF ConstantsRight, Chars
  <1>5. text \in Chars /\ Len(text) \in Nat
     BY LenProperties DEF ConstantsRight, Chars
  <1>6. x # <<>>
     BY <1>4, <1>5, EmptySeq
  <1>7. PICK e \in Chars : /\ Len(e) = US_STACKBUF_SIZE /\ SubSeq(e, 1, 0) = <<>>
                           /\ Empty = [kind |-> "short", array |-> None, units |-> e,
                                       length |-> 0, open |-> FALSE]
     BY EmptyIs
  <1>8. Empty \in String /\ <<>> \in Chars /\ Stored("long", a, <<>>, Len(text)) \in String
     BY <1>5, EmptyIs DEF Stored, String
  <1>9. Types
     <2>1. heap \in [Array -> [refs : Int, units : Chars]]
        BY <1>1, <1>4, <1>8 DEF Freed
     <2>2. str \in [Str -> String] /\ value \in [Str -> Chars]
        BY <1>1, <1>5, <1>8
     <2> QED BY <1>2, <2>1, <2>2 DEF Types
  <1>10. /\ str[z] = Stored("long", a, <<>>, Len(text)) /\ value[z] = text
         /\ heap[a].refs = 1 /\ heap[a].units = x
         /\ \A s \in Str \ {z} : str[s] = Empty /\ value[s] = <<>>
         /\ \A b \in Array \ {a} : heap[b] = Freed
     BY <1>1, <1>3, <1>4
  <1>11. \A u \in Thread : task[u] = Idle /\ task[u].pc = "idle"
     BY <1>2 DEF Idle
  <1>12. \A s \in Str, b \in Array : Has(s, b) <=> s = z /\ b = a
     BY <1>7, <1>10 DEF Has, Long, Stored
  <1>13. \A u \in Thread, b \in Array : ~GivesUp(u, b) /\ ~Deletes(u, b)
     BY <1>11 DEF GivesUp, Deletes, At
  <1>14. RefsCounted
     <2>1. ASSUME NEW b \in Array PROVE heap[b].refs = OwnerCount(b) + GiverCount(b)
        <3>1. Givers(b) = {} /\ Cardinality({}) = 0
           BY <1>13, FS_EmptySet DEF Givers
        <3>2. CASE b = a
           <4>1. Owners(b) = {z} /\ Cardinality({z}) = 1
              BY <1>12, <3>2, FS_Singleton DEF Owners
           <4> QED BY <1>10, <3>1, <3>2, <4>1 DEF OwnerCount, GiverCount
        <3>3. CASE b # a
           <4>1. Owners(b) = {}
              BY <1>12, <3>3 DEF Owners
           <4> QED BY <1>10, <3>1, <3>3, <4>1 DEF OwnerCount, GiverCount, Freed
        <3> QED BY <3>2, <3>3
     <2> QED BY <2>1 DEF RefsCounted
  <1>15. DeletedOnce
     BY <1>6, <1>10, <1>13 DEF DeletedOnce, Live
  <1>16. ReadOnly
     BY <1>11 DEF ReadOnly, NoClash, Replacing
  <1>17. ASSUME NEW s \in Str PROVE StringOK(s)
     <2>1. CASE s = z
        <3>1. Long(s) /\ Units(s) = x /\ Capacity(s) = Len(x) /\ ~Shared(s)
           BY <1>10, <2>1 DEF Long, Units, Capacity, Shared, Stored
        <3>2. Shown(s) = value[s]
           <4>1. str[s].kind = "long" /\ str[s].length = Len(text) /\ value[s] = text
              BY <1>10, <2>1 DEF Stored
           <4>2. Shown(s) = SubSeq(x, 1, Len(text))
              BY <3>1, <4>1 DEF Shown
           <4> QED BY <1>4, <4>1, <4>2
        <3>3. /\ str[s].kind = "long" /\ str[s].array \in Array /\ str[s].units = <<>>
              /\ str[s].length <= Capacity(s) /\ ~str[s].open
           BY <1>4, <1>5, <1>10, <2>1, <3>1 DEF Stored
        <3> QED BY <3>2, <3>3 DEF StringOK, Shape
     <2>2. CASE s # z
        <3>1. /\ str[s].kind = "short" /\ str[s].array = None /\ str[s].units = e
              /\ str[s].length = 0 /\ ~str[s].open
           BY <1>7, <1>10, <2>2
        <3>2. Units(s) = e /\ Capacity(s) = Len(e)
           BY <3>1 DEF Units, Long, Capacity
        <3>3. Shown(s) = value[s]
           BY <1>7, <1>10, <2>2, <3>1, <3>2 DEF Shown
        <3>4. 0 <= Capacity(s) /\ Len(str[s].units) = US_STACKBUF_SIZE
           <4>1. PICK n \in Nat : n = Len(e)
              BY LenProperties DEF Chars
           <4>2. Capacity(s) = n
              BY <3>2, <4>1
           <4>3. 0 <= Capacity(s)
              BY <4>2
           <4> QED BY <1>7, <3>1, <4>3
        <3> QED BY <3>1, <3>3, <3>4 DEF StringOK, Shape
     <2> QED BY <2>1, <2>2
  <1>18. ASSUME NEW u \in Thread PROVE ThreadOK(u)
     BY <1>11 DEF ThreadOK, TaskShape, Writing, Allocating, Rewriting, Replacing
  <1> QED BY <1>9, <1>14, <1>15, <1>16, <1>17, <1>18 DEF Inv

(* Every step keeps the invariant. *)
LEMMA InvInductive == ASSUME ConstantsRight, Inv, [Next]_strVars PROVE Inv'
  <1>1. ASSUME NEW t \in Thread, Step(t) PROVE Inv'
     BY <1>1, IsBufferWritableStep, CloneStep, AllocateStep, DropStep, WriteStep, ReleaseArrayStep,
        AssignedStep DEF Step
  <1>2. ASSUME NEW t \in Thread, NEW s \in Str, Call(t, s) PROVE Inv'
     <2>1. CASE \E op \in Ops : Change(t, s, op)
        BY <2>1, ChangeStep
     <2>2. CASE \E how \in {"copy", "move", "bogus", "empty"}, from \in Str : Assign(t, s, how, from)
        BY <2>2, AssignStep
     <2>3. CASE \E n \in 0..MaxLength : Truncate(t, s, n)
        BY <2>3, TruncateStep
     <2>4. CASE RemoveText(t, s)
        BY <2>4, RemoveStep
     <2>5. CASE \E other \in Str \ {s} : Swap(t, s, other)
        BY <2>5, SwapStep
     <2>6. CASE \E text \in Text : ReleaseBuffer(t, s, text)
        BY <2>6, ReleaseBufferStep
     <2> QED BY <1>2, <2>1, <2>2, <2>3, <2>4, <2>5, <2>6 DEF Call
  <1>3. CASE UNCHANGED strVars
     BY <1>3, StutterStep
  <1> QED BY <1>1, <1>2, <1>3 DEF Next

(* What the runs check follows from the invariant. *)
LEMMA InvImpliesStringInv == ASSUME ConstantsRight, Inv PROVE StringInv
  <1>1. Types /\ RefsCounted /\ DeletedOnce
     BY DEF Inv
  <1>2. ASSUME NEW a \in Array, Live(a)
        PROVE  /\ heap[a].refs = Cardinality({s \in Str : Long(s) /\ str[s].array = a})
                                  + Cardinality({t \in Thread : At(t, "drop") /\ task[t].old = a})
               /\ heap[a].refs = 0 <=> \E t \in Thread : At(t, "write") /\ task[t].delete /\ task[t].old = a
     <2>1. /\ Owners(a) = {s \in Str : Long(s) /\ str[s].array = a}
           /\ Givers(a) = {t \in Thread : At(t, "drop") /\ task[t].old = a}
        BY DEF Owners, Has, Givers, GivesUp
     <2>2. heap[a].refs = Cardinality(Owners(a)) + Cardinality(Givers(a))
        BY <1>1 DEF RefsCounted, OwnerCount, GiverCount
     <2>3. heap[a].refs = 0 <=> \E t \in Thread : Deletes(t, a)
        BY <1>1, <1>2 DEF DeletedOnce
     <2>4. heap[a].refs = Cardinality({s \in Str : Long(s) /\ str[s].array = a})
                           + Cardinality({t \in Thread : At(t, "drop") /\ task[t].old = a})
        BY <2>1, <2>2, Zenon
     <2> QED BY <2>3, <2>4 DEF Deletes
  <1>3. ASSUME NEW s \in Str, Long(s) PROVE Live(str[s].array)
     <2>1. PICK a \in Array : a = str[s].array /\ Has(s, a)
        BY <1>3 DEF Inv, StringOK, Shape, Long, Has
     <2>2. heap[a].refs # 0
        BY <1>1, <2>1, FewReferences
     <2> QED BY <2>1, <2>2 DEF Live, Freed
  <1>4. ASSUME NEW s \in Str, ~Changing(s)
        PROVE  Shown(s) = value[s] /\ (str[s].open => ~Shared(s))
     <2>1. ~Unsettled(s)
        <3>1. s[1] \in Thread
           BY DEF Str
        <3> QED BY <1>4, <3>1 DEF Changing, Unsettled, Idle, Rewriting, Replacing
     <2> QED BY <2>1 DEF Inv, StringOK, Shape
  <1> QED BY <1>2, <1>3, <1>4 DEF StringInv, ArrayRefsExact, CopiesIndependent

(* The invariant holds in every state: counts of arrays are exact, an array *)
(* is deleted once and by the thread that took its last reference, an       *)
(* operation writes only to an array that no other string has and that its  *)
(* text fits in, and nobody changes a string that another thread is copying *)
(* from.                                                                    *)
THEOREM StringsSafe == Spec => []Inv
  <1>0. ConstantsRight
     BY StringAssumption
  <1>1. Init => Inv
     BY <1>0, InitOK
  <1>2. Inv /\ [Next]_strVars => Inv'
     BY <1>0, InvInductive
  <1> QED BY <1>1, <1>2, PTL DEF Spec

(* For any finite set of threads, any arrays and texts and any buffer       *)
(* sizes: the counter of a live array is the number of its strings and of   *)
(* the threads about to give it up, no string has a freed array, and a      *)
(* string that nobody is changing shows the text it was given whatever is   *)
(* done to its copies (UnicodeString: clones can be used concurrently).     *)
THEOREM StringInvAlways == Spec => []StringInv
  <1>1. Inv => StringInv
     BY StringAssumption, InvImpliesStringInv
  <1> QED BY <1>1, StringsSafe, PTL
===============================================================================

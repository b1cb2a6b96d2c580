----------------------------- MODULE InversionList -----------------------------
(***************************************************************************)
(* The code points of a UnicodeSet (uniset.cpp): an ascending list of the   *)
(* places where membership changes, which every operation edits in place or *)
(* merges with another such list.  Strings in a set and frozen sets are     *)
(* left out.  list[i] of the code is list[i + 1] here.                      *)
(***************************************************************************)
EXTENDS Integers, FiniteSets, SequencesExt

CONSTANT HIGH    \* UNICODESET_HIGH, one more than the last code point

VARIABLES list, bogus,
          members   \* history: the set of code points the caller expects

listVars == <<list, bogus, members>>
CodePoint == 0..HIGH - 1

Init == list = <<HIGH>> /\ bogus = FALSE /\ members = {}

-------------------------------------------------------------------------------
(* The loop of findCodePoint: c is not below list[lo] and below list[hi]. *)
RECURSIVE Narrow(_, _, _, _)
Narrow(l, c, lo, hi) ==
  LET i == (lo + hi) \div 2 IN
  IF i = lo THEN hi
  ELSE IF c < l[i + 1] THEN Narrow(l, c, lo, i) ELSE Narrow(l, c, i, hi)

(* findCodePoint: the number of changes up to and with c. *)
FindCodePoint(l, c) ==
  LET hi == Len(l) - 1 IN
  IF c < l[1] THEN 0
  ELSE IF hi = 0 \/ c >= l[hi] THEN hi ELSE Narrow(l, c, 0, hi)

Has(l, c) == FindCodePoint(l, c) % 2 = 1

(* Mutant: a range that has grown up to the one before is not joined to it. *)
AddUnjoined(l, c) ==
  LET i == FindCodePoint(l, c) + 1 IN
  IF i % 2 = 0 THEN l
  ELSE IF c = l[i] - 1
  THEN IF c = HIGH - 1 THEN Append([l EXCEPT ![i] = c], HIGH) ELSE [l EXCEPT ![i] = c]
  ELSE IF i > 1 /\ c = l[i - 1] THEN [l EXCEPT ![i - 1] = c + 1]
  ELSE SubSeq(l, 1, i - 1) \o <<c, c + 1>> \o SubSeq(l, i, Len(l))

(* add(c): extend the next range down and join it to the one before, extend  *)
(* that one up, or insert a new range.                                       *)
AddCodePoint(l, c) ==
  LET i == FindCodePoint(l, c) + 1
      lower == [l EXCEPT ![i] = c]
      ended == IF c = HIGH - 1 THEN Append(lower, HIGH) ELSE lower
  IN
  CASE i % 2 = 0                                        -> l
    [] i % 2 = 1 /\ c = l[i] - 1 /\ i > 1 /\ c = l[i - 1] ->
         SubSeq(ended, 1, i - 2) \o SubSeq(ended, i + 1, Len(ended))
    [] i % 2 = 1 /\ c = l[i] - 1 /\ (i = 1 \/ c # l[i - 1]) -> ended
    [] i % 2 = 1 /\ c # l[i] - 1 /\ i > 1 /\ c = l[i - 1] -> [l EXCEPT ![i - 1] = c + 1]
    [] OTHER -> SubSeq(l, 1, i - 1) \o <<c, c + 1>> \o SubSeq(l, i, Len(l))

(* exclusiveOr with polarity 0, the only one used. *)
RECURSIVE ExclusiveOr(_, _)
ExclusiveOr(x, y) ==
  LET a == x[1]   b == y[1] IN
  CASE a < b -> <<a>> \o ExclusiveOr(Tail(x), y)
    [] b < a -> <<b>> \o ExclusiveOr(x, Tail(y))
    [] a = b /\ a # HIGH -> ExclusiveOr(Tail(x), Tail(y))
    [] OTHER -> <<HIGH>>

(* In the loops of add and retain, inX and inY say that the next value of    *)
(* that list is the end of a range (the bits of polarity).                   *)

(* add: both lists are outside a range and z is next; it may lie in the      *)
(* range written last, which is then taken back and goes on to the later end.*)
Open(z, out) ==
  IF out # <<>> /\ z[1] <= Last(out)
  THEN [rest |-> <<Max({z[2], Last(out)})>> \o SubSeq(z, 3, Len(z)), out |-> Front(out)]
  ELSE [rest |-> Tail(z), out |-> Append(out, z[1])]

RECURSIVE AddLists(_, _, _, _, _)
AddLists(x, y, inX, inY, out) ==
  LET a == x[1]   b == y[1]
      ox == Open(x, out)
      oy == Open(y, out)
  IN
  CASE a = HIGH /\ b = HIGH -> Append(out, HIGH)
    [] ~inX /\ ~inY /\ a < b -> AddLists(ox.rest, y, TRUE, FALSE, ox.out)
    [] ~inX /\ ~inY /\ b < a -> AddLists(x, oy.rest, FALSE, TRUE, oy.out)
    [] ~inX /\ ~inY /\ a = b /\ a # HIGH -> AddLists(ox.rest, Tail(y), TRUE, TRUE, ox.out)
    [] inX /\ inY /\ (a # HIGH \/ b # HIGH) ->
         IF HIGH \in {a, b} THEN Append(out, HIGH)
         ELSE AddLists(Tail(x), Tail(y), FALSE, FALSE, Append(out, Max({a, b})))
    [] inX # inY /\ a = b /\ a # HIGH -> AddLists(Tail(x), Tail(y), ~inX, ~inY, out)
    [] inX /\ ~inY /\ a < b -> AddLists(Tail(x), y, FALSE, FALSE, Append(out, a))
    [] inX /\ ~inY /\ b < a -> AddLists(x, Tail(y), TRUE, TRUE, out)
    [] inY /\ ~inX /\ b < a -> AddLists(x, Tail(y), FALSE, FALSE, Append(out, b))
    [] inY /\ ~inX /\ a < b -> AddLists(Tail(x), y, TRUE, TRUE, out)

(* retain: the lower value is written if the other list is inside a range.   *)
RECURSIVE RetainLists(_, _, _, _, _)
RetainLists(x, y, inX, inY, out) ==
  LET a == x[1]   b == y[1]
      With(v, keep) == IF keep THEN Append(out, v) ELSE out
  IN
  CASE a < b -> RetainLists(Tail(x), y, ~inX, inY, With(a, inY))
    [] b < a -> RetainLists(x, Tail(y), inX, ~inY, With(b, inX))
    [] a = b /\ a # HIGH -> RetainLists(Tail(x), Tail(y), ~inX, ~inY, With(a, inX = inY))
    [] OTHER -> Append(out, HIGH)

(* complement() *)
Inverted(l) == IF l[1] = 0 THEN Tail(l) ELSE <<0>> \o l

(* The three-element list that stands for a range in the calls. *)
RangeList(s, e) == <<s, e + 1, HIGH>>
(* The list of another set with the members S. *)
ListOf(S) ==
  LET changes == {c \in CodePoint : (c \in S) # (c - 1 \in S)} \cup {HIGH}
  IN  [i \in 1..Cardinality(changes) |->
         CHOOSE c \in changes : Cardinality({d \in changes : d < c}) = i - 1]

-------------------------------------------------------------------------------
(* A set that ran out of memory is empty and ignores all calls but clear().  *)
(* Any edit may do so here; the few that never allocate would reach no state *)
(* that the others do not.                                                   *)
Become(l, m) ==
  /\ ~bogus
  /\ \/ list' = l /\ members' = m /\ UNCHANGED bogus
     \/ list' = <<HIGH>> /\ members' = {} /\ bogus' = TRUE   \* setToBogus
Clear ==    \* also retain(s, e) with s > e
  list' = <<HIGH>> /\ members' = {} /\ bogus' = FALSE

Add(c)       == Become(AddCodePoint(list, c), members \cup {c})
AddRange(s, e) ==
  Become(IF s < e THEN AddLists(list, RangeList(s, e), FALSE, FALSE, <<>>)
         ELSE IF s = e THEN AddCodePoint(list, s) ELSE list,
         members \cup (s..e))
RetainRange(s, e) == /\ s <= e
                     /\ Become(RetainLists(list, RangeList(s, e), FALSE, FALSE, <<>>),
                               members \cap (s..e))
RemoveRange(s, e) == Become(IF s <= e THEN RetainLists(list, RangeList(s, e), FALSE, TRUE, <<>>)
                            ELSE list, members \ (s..e))
ComplementRange(s, e) ==
  Become(IF s <= e THEN ExclusiveOr(list, RangeList(s, e)) ELSE list, SymDiff(members, s..e))
Complement        == Become(Inverted(list), CodePoint \ members)
AddAll(S)         == Become(AddLists(list, ListOf(S), FALSE, FALSE, <<>>), members \cup S)
RetainAll(S)      == Become(RetainLists(list, ListOf(S), FALSE, FALSE, <<>>), members \cap S)
RemoveAll(S)      == Become(RetainLists(list, ListOf(S), FALSE, TRUE, <<>>), members \ S)
ComplementAll(S)  == Become(ExclusiveOr(list, ListOf(S)), SymDiff(members, S))

Next ==
  \/ \E c \in CodePoint : Add(c)
  \/ \E s, e \in CodePoint : \/ AddRange(s, e) \/ RetainRange(s, e)
                             \/ RemoveRange(s, e) \/ ComplementRange(s, e)
  \/ \E S \in SUBSET CodePoint : AddAll(S) \/ RetainAll(S) \/ RemoveAll(S) \/ ComplementAll(S)
  \/ Complement \/ Clear

ListSpec == Init /\ [][Next]_listVars

-------------------------------------------------------------------------------
(* After any sequence of operations the list is strictly ascending, ends     *)
(* with HIGH, and findCodePoint tells members from others.                   *)
ListIsSet ==
  /\ Last(list) = HIGH /\ \A i \in 2..Len(list) : list[i - 1] < list[i]
  /\ \A c \in CodePoint : Has(list, c) <=> c \in members
===============================================================================

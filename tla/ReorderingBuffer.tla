---------------------------- MODULE ReorderingBuffer ----------------------------
(***************************************************************************)
(* The buffer in which normalisation puts combining marks into canonical     *)
(* order while text is appended (ReorderingBuffer, normalizer2impl.cpp).     *)
(* Characters stand for code points, one or two UTF-16 units long, with a    *)
(* combining class; positions count units from 0.  Running out of memory     *)
(* ends the buffer's life and is left out.                                   *)
(***************************************************************************)
EXTENDS Integers, SequencesExt

CONSTANTS Char, Supplementary,  \* those of two units
          CC,                   \* their combining classes
          Text,                 \* strings in canonical order that are appended at once
          MinCapacity,          \* 256 in the code
          MaxLength, MaxCapacity \* bounds: characters in the text; units of memory

VARIABLES buf,     \* units, reorderStart, lastCC, capacity, remainingCapacity
          fixed,   \* history: characters that were in the buffer at the last removal
          appended \* history: characters appended since

bufferVars == <<buf, fixed, appended>>

UnitsOf(c) == IF c \in Supplementary THEN <<<<c, "lead">>, <<c, "trail">>>> ELSE <<<<c, "single">>>>
UnitsOfText(s) == FlattenSeq([i \in DOMAIN s |-> UnitsOf(s[i])])
Chars(units) == LET starts == SelectSeq(units, LAMBDA u : u[2] # "trail")
                IN  [i \in DOMAIN starts |-> starts[i][1]]
Limit(b) == Len(b.units)

-------------------------------------------------------------------------------
(* skipPrevious, and previousCC, which returns 0 at reorderStart and also    *)
(* says where the character begins.                                          *)
StartOfPrevious(units, at) == IF units[at][2] = "trail" /\ at > 1 THEN at - 2 ELSE at - 1
PreviousCC(b, at) ==
  IF b.reorderStart >= at THEN [cc |-> 0, start |-> at]
  ELSE [cc |-> CC[b.units[at][1]], start |-> StartOfPrevious(b.units, at)]

(* Mutant: a mark goes before those of its own class. *)
RECURSIVE PlaceBefore(_, _, _)
PlaceBefore(b, at, cc) ==
  LET p == PreviousCC(b, at) IN IF p.cc >= cc THEN PlaceBefore(b, p.start, cc) ELSE at

(* The loop of insert: the place after the last character with prevCC<=cc.   *)
RECURSIVE PlaceFor(_, _, _)
PlaceFor(b, at, cc) ==
  LET p == PreviousCC(b, at) IN IF p.cc > cc THEN PlaceFor(b, p.start, cc) ELSE at

insert(b, c, cc) ==
  LET at == PlaceFor(b, StartOfPrevious(b.units, Limit(b)), cc)
      units == SubSeq(b.units, 1, at) \o UnitsOf(c) \o SubSeq(b.units, at + 1, Limit(b))
  IN  [b EXCEPT !.units = units,
                !.reorderStart = IF cc <= 1 THEN at + Len(UnitsOf(c)) ELSE @]

resize(b, more) ==
  LET capacity == Max({Limit(b) + more, 2 * b.capacity, MinCapacity})
  IN  [b EXCEPT !.capacity = capacity, !.remainingCapacity = capacity - Limit(b)]

Room(b, n) == IF b.remainingCapacity < n THEN resize(b, n) ELSE b

(* Mutant: any mark at the end settles what is before it. *)
AtEndSettled(b, units, leadCC, trailCC) ==
  [b EXCEPT !.units = @ \o units, !.lastCC = trailCC, !.reorderStart = Limit(b) + Len(units)]

(* What both kinds of append do when nothing has to move. *)
AtEnd(b, units, leadCC, trailCC) ==
  [b EXCEPT !.units = @ \o units, !.lastCC = trailCC,
            !.reorderStart = CASE trailCC <= 1 -> Limit(b) + Len(units)
                               [] trailCC > 1 /\ leadCC <= 1 -> Limit(b) + 1
                               [] OTHER -> @]

(* append of one character: appendBMP, appendSupplementary. *)
AppendChar(b, c, cc) ==
  LET n == Len(UnitsOf(c))
      r == Room(b, n)
      done == IF r.lastCC <= cc \/ cc = 0
              THEN AtEnd(r, UnitsOf(c), cc, cc)
              ELSE insert(r, c, cc)
  IN  [done EXCEPT !.remainingCapacity = @ - n]

(* append of a string: the characters after an inserted one are appended one *)
(* by one, and counted against the capacity a second time, so that the       *)
(* buffer may grow although there is room.                                   *)
AppendText(b, s) ==
  LET n == Len(UnitsOfText(s))
      r == [Room(b, n) EXCEPT !.remainingCapacity = @ - n]
      leadCC == CC[s[1]]
      One(q, c) == AppendChar(q, c, CC[c])
  IN  IF r.lastCC <= leadCC \/ leadCC = 0 THEN AtEnd(r, UnitsOfText(s), leadCC, CC[Last(s)])
      ELSE FoldLeft(One, insert(r, s[1], leadCC), Tail(s))

AppendZeroCC(b, c) ==
  LET n == Len(UnitsOf(c))
      r == Room(b, n)
  IN  [r EXCEPT !.units = @ \o UnitsOf(c), !.lastCC = 0, !.reorderStart = Limit(r) + n,
                !.remainingCapacity = @ - n]

(* setReorderingLimit, removeSuffix and remove leave n units.  The last two   *)
(* take all the memory as free when nothing is left.                         *)
Cut(b, n) ==
  LET cut == [b EXCEPT !.units = SubSeq(@, 1, n), !.reorderStart = n, !.lastCC = 0]
  IN  {[cut EXCEPT !.remainingCapacity = @ + Limit(b) - n]}
        \cup IF n = 0 THEN {[cut EXCEPT !.remainingCapacity = b.capacity]} ELSE {}

(* init, for a destination that holds the text s. *)
RECURSIVE FirstReorderable(_, _)
FirstReorderable(b, at) ==
  LET p == PreviousCC(b, at) IN IF p.cc > 1 THEN FirstReorderable(b, p.start) ELSE at
Started(s, capacity) ==
  LET b == [units |-> UnitsOfText(s), reorderStart |-> 0, lastCC |-> 0, capacity |-> capacity,
            remainingCapacity |-> capacity - Len(UnitsOfText(s))]
  IN  IF s = <<>> THEN b
      ELSE [b EXCEPT !.lastCC = PreviousCC(b, Limit(b)).cc,
                     !.reorderStart = FirstReorderable(b, Limit(b))]

-------------------------------------------------------------------------------
Init == \E s \in Text \cup {<<>>} :
          /\ buf = Started(s, Len(UnitsOfText(s)) + 1)
          /\ fixed = <<>> /\ appended = s

Fits(n) == Len(fixed) + Len(appended) + n <= MaxLength /\ buf.capacity <= MaxCapacity
Append1(c)  == /\ Fits(1) /\ buf' = AppendChar(buf, c, CC[c])
               /\ appended' = Append(appended, c) /\ UNCHANGED fixed
AppendS(s)  == /\ Fits(Len(s)) /\ buf' = AppendText(buf, s)
               /\ appended' = appended \o s /\ UNCHANGED fixed
Append0(c)  == /\ Fits(1) /\ CC[c] = 0 /\ buf' = AppendZeroCC(buf, c)
               /\ appended' = Append(appended, c) /\ UNCHANGED fixed
RemoveAfter(k) == LET left == SubSeq(Chars(buf.units), 1, k) IN
               /\ k < Len(Chars(buf.units))
               /\ buf' \in Cut(buf, Len(UnitsOfText(left))) /\ fixed' = left /\ appended' = <<>>

Next ==
  \/ \E c \in Char : Append1(c) \/ Append0(c)
  \/ \E s \in Text : AppendS(s)
  \/ \E k \in 0..MaxLength : RemoveAfter(k)

BufferSpec == Init /\ [][Next]_bufferVars

-------------------------------------------------------------------------------
(* The canonical order: marks (cc > 0) between two other characters, by      *)
(* class, those of the same class as they came.                              *)
RECURSIVE CanonicalOrder(_)
CanonicalOrder(s) ==
  LET wrong == {i \in 1..Len(s) - 1 : CC[s[i]] > CC[s[i + 1]] /\ CC[s[i + 1]] > 0} IN
  IF wrong = {} THEN s
  ELSE LET i == Min(wrong) IN CanonicalOrder([s EXCEPT ![i] = s[i + 1], ![i + 1] = s[i]])

(* However text is appended, character by character or in strings, what has  *)
(* been appended since the last removal is in canonical order, and lastCC is *)
(* the class of its last character.                                          *)
InCanonicalOrder ==
  /\ buf.units = UnitsOfText(fixed \o CanonicalOrder(appended))
  /\ appended # <<>> => buf.lastCC = CC[Last(CanonicalOrder(appended))]

(* The text fits the memory, although append counts some units twice. *)
WithinCapacity ==
  /\ buf.remainingCapacity >= 0
  /\ Limit(buf) + buf.remainingCapacity <= buf.capacity

(* What lies before reorderStart is never moved by an append: callers take   *)
(* the text up to there as final (copyReorderableSuffixTo).                  *)
SettledStays ==
  [][Limit(buf)' > Limit(buf) =>
       SubSeq(buf'.units, 1, buf.reorderStart) = SubSeq(buf.units, 1, buf.reorderStart)]_bufferVars
===============================================================================

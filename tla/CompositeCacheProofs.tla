------------------------- MODULE CompositeCacheProofs -------------------------
(***************************************************************************)
(* Proofs about the unified cache whose values refer to each other.  A     *)
(* stack of calls has no depth that would bound it, so the invariant says   *)
(* what every call on it knows and how the calls fit together (StackInv);   *)
(* from that it follows what each value refers to (RefsAre), hence that a   *)
(* step moves one reference and one count.  The steps are of two kinds:     *)
(* those that take calls off the stack, take a value out of the table or a  *)
(* reference away and begin a destructor (Unwinds), and the four in which   *)
(* values are created (Creating).  FlushInv counts the turns that a flush   *)
(* has left.                                                               *)
(***************************************************************************)
EXTENDS CompositeCache, FiniteSetTheorems, SequenceTheorems, WellFoundedInduction, TLAPS

-------------------------------------------------------------------------------
(* Stacks. *)

(* A stack that is not empty has a top, and the rest below it. *)
LEMMA StackParts ==
  ASSUME NEW s \in Seq(Frame), s # <<>>
  PROVE  /\ Len(s) \in Nat \ {0} /\ Last(s) = s[Len(s)] /\ Last(s) \in Frame
         /\ Front(s) \in Seq(Frame) /\ Len(Front(s)) = Len(s) - 1
         /\ \A i \in 1..(Len(s) - 1) : Front(s)[i] = s[i]
  <1>1. Len(s) \in Nat \ {0} /\ \A i \in 1..Len(s) : s[i] \in Frame
     BY EmptySeq, LenProperties, ElementOfSeq
  <1> DEFINE n == Len(s) - 1
  <1>2. n \in Nat /\ \A i \in 1..n : s[i] \in Frame
     BY <1>1
  <1> HIDE DEF n
  <1>3. /\ SubSeq(s, 1, n) \in Seq(Frame)
        /\ Len(SubSeq(s, 1, n)) = IF 1 <= n THEN n - 1 + 1 ELSE 0
        /\ \A i \in 1..(n - 1 + 1) : SubSeq(s, 1, n)[i] = s[1 + i - 1]
     BY <1>2, SubSeqProperties
  <1>4. Len(SubSeq(s, 1, n)) = n /\ \A i \in 1..n : SubSeq(s, 1, n)[i] = s[i]
     BY <1>2, <1>3
  <1>5. Front(s) = SubSeq(s, 1, n)
     BY DEF Front, n
  <1> QED BY <1>1, <1>3, <1>4, <1>5 DEF n, Last

(* t is s with one or no call on it, and perhaps another. *)
On(t, s, x, y) ==
  /\ t \in Seq(Frame) /\ Len(t) = Len(s) + Len(x) + Len(y)
  /\ \A i \in 1..Len(s) : t[i] = s[i]
  /\ Len(x) = 1 => t[Len(s) + 1] = x[1]
  /\ Len(y) = 1 => t[Len(s) + Len(x) + 1] = y[1]

LEMMA TwoOn ==
  ASSUME NEW s \in Seq(Frame), NEW x \in Seq(Frame), NEW y \in Seq(Frame)
  PROVE  On(s \o x \o y, s, x, y)
  <1>1. Len(s) \in Nat /\ Len(x) \in Nat /\ Len(y) \in Nat
     BY LenProperties
  <1>2. s \o x \in Seq(Frame) /\ Len(s \o x) = Len(s) + Len(x)
     BY ConcatProperties
  <1>3. \A i \in 1..(Len(s) + Len(x)) : (s \o x)[i] = IF i <= Len(s) THEN s[i] ELSE x[i - Len(s)]
     BY ConcatProperties
  <1> DEFINE a == s \o x
  <1> HIDE DEF a
  <1>4. a \in Seq(Frame) /\ Len(a) = Len(s) + Len(x)
     BY <1>2 DEF a
  <1>5. a \o y \in Seq(Frame) /\ Len(a \o y) = Len(a) + Len(y)
     BY <1>4, ConcatProperties
  <1>6. \A i \in 1..(Len(a) + Len(y)) : (a \o y)[i] = IF i <= Len(a) THEN a[i] ELSE y[i - Len(a)]
     BY <1>4, ConcatProperties
  <1> DEFINE b == a \o y
  <1>b. b \in Seq(Frame) /\ Len(b) = Len(s) + Len(x) + Len(y)
     BY <1>1, <1>4, <1>5
  <1>7. \A i \in 1..Len(s) : b[i] = s[i]
     BY <1>1, <1>3, <1>4, <1>6 DEF a
  <1>8. Len(x) = 1 => b[Len(s) + 1] = x[1]
     <2> HAVE Len(x) = 1
     <2>1. PICK i \in Nat : i = Len(s) + 1
        BY <1>1
     <2>2. i \in 1..Len(a) /\ i \in 1..(Len(a) + Len(y)) /\ ~(i <= Len(s)) /\ i - Len(s) = 1
        BY <2>1, <1>1, <1>4
     <2>3. b[i] = a[i]
        BY <2>2, <1>6
     <2>4. a[i] = x[i - Len(s)]
        BY <2>2, <1>4, <1>3 DEF a
     <2> QED BY <2>1, <2>2, <2>3, <2>4
  <1>9. Len(y) = 1 => b[Len(s) + Len(x) + 1] = y[1]
     <2> HAVE Len(y) = 1
     <2>1. PICK i \in Nat : i = Len(s) + Len(x) + 1
        BY <1>1
     <2>2. i \in 1..(Len(a) + Len(y)) /\ ~(i <= Len(a)) /\ i - Len(a) = 1
        BY <2>1, <1>1, <1>4
     <2>3. b[i] = y[i - Len(a)]
        BY <2>2, <1>6
     <2> QED BY <2>1, <2>2, <2>3
  <1>10. b = s \o x \o y
     BY DEF a
  <1> HIDE DEF b
  <1> QED BY <1>b, <1>7, <1>8, <1>9, <1>10 DEF On

LEMMA OneOn ==
  ASSUME NEW s \in Seq(Frame), NEW x \in Seq(Frame)
  PROVE  On(s \o x, s, x, <<>>)
  <1>1. <<>> \in Seq(Frame) /\ Len(<<>>) = 0 /\ s \o x \in Seq(Frame)
     BY EmptySeq, ConcatProperties
  <1>2. s \o x \o <<>> = s \o x
     BY <1>1, ConcatEmptySeq
  <1> QED BY <1>1, <1>2, TwoOn

(* The call at the top goes on, with one thing less to do. *)
Goes(t, s, f) == /\ t \in Seq(Frame) /\ Len(t) = Len(s) /\ t[Len(s)] = f
                 /\ \A i \in 1..(Len(s) - 1) : t[i] = s[i]

LEMMA TopGoes ==
  ASSUME NEW s \in Seq(Frame), s # <<>>, NEW f \in Frame
  PROVE  Goes(Append(Front(s), f), s, f)
  <1>1. Front(s) \in Seq(Frame) /\ Len(Front(s)) = Len(s) - 1 /\ Len(s) \in Nat \ {0}
     BY StackParts
  <1>2. /\ Append(Front(s), f) \in Seq(Frame) /\ Len(Append(Front(s), f)) = Len(Front(s)) + 1
        /\ \A i \in 1..(Len(Front(s)) + 1) : Append(Front(s), f)[i] = IF i <= Len(Front(s)) THEN Front(s)[i] ELSE f
     BY <1>1
  <1> QED BY <1>1, <1>2, StackParts DEF Goes

-------------------------------------------------------------------------------
(* The table and its frames. *)

LEMMA SlotsFinite == /\ IsFiniteSet(Slot) /\ Slot \subseteq Nat
                     /\ \A S \in SUBSET Slot : IsFiniteSet(S) /\ Cardinality(S) \in Nat
  <1>1. Slots \in Nat /\ Slots \in Int /\ 1 \in Int
     BY SlotAssumption
  <1>2. IsFiniteSet(Slot) /\ Slot \subseteq Nat
     BY <1>1, FS_Interval DEF Slot
  <1> QED BY <1>2, FS_Subset, FS_CardinalityType

LEMMA TableIs ==
  ASSUME CompositeTypeOK
  PROVE  Table \subseteq Slot /\ IsFiniteSet(Table) /\ Cardinality(Table) \in Nat
  BY SlotsFinite DEF Table

(* The least element of a set of slots. *)
LEMMA MinIs ==
  ASSUME NEW S \in SUBSET Slot, S # {}
  PROVE  Min(S) \in S /\ \A y \in S : Min(S) <= y
  <1>1. S \in SUBSET Nat /\ S # {}
     BY SlotsFinite
  <1> DEFINE Below(m) == 0..(m - 1)
             T == {Below(m) : m \in S}
  <1>2. T \subseteq FiniteSubsetsOf(Nat)
     <2>1. ASSUME NEW m \in S PROVE Below(m) \in SUBSET Nat /\ IsFiniteSet(Below(m))
        BY <1>1, FS_Interval
     <2> QED BY <2>1 DEF FiniteSubsetsOf
  <1>3. PICK z \in T : \A y \in T : ~(<<y, z>> \in StrictSubsetOrdering(Nat))
     <2>1. T # {}
        BY <1>1
     <2> HIDE DEF T
     <2> QED BY <1>2, <2>1, FS_StrictSubsetOrderingWellFounded, WFMin
  <1>4. PICK x \in S : z = Below(x)
     OBVIOUS
  <1>5. ASSUME NEW y \in S, ~(x <= y) PROVE FALSE
     <2>1. Below(y) \subseteq Below(x) /\ y \in Below(x) /\ y \notin Below(y) /\ Below(y) \in T
        BY <1>1, <1>5
     <2>2. Below(x) \in SUBSET Nat /\ Below(y) \in SUBSET Nat /\ Below(x) # Below(y)
        BY <2>1
     <2> HIDE DEF T, Below
     <2>3. <<Below(y), Below(x)>> \in StrictSubsetOrdering(Nat)
        BY <2>1, <2>2 DEF StrictSubsetOrdering
     <2> QED BY <1>3, <1>4, <2>1, <2>3
  <1>6. \E m \in S : \A y \in S : m <= y
     BY <1>5
  <1> QED BY <1>6 DEF Min

(* _nextElement: the slots go round. *)
LEMMA NextElementIs ==
  ASSUME CompositeTypeOK, Table # {}
  PROVE  /\ NextElement \in Table
         /\ \A j \in Table : IF NextElement > evictPos THEN evictPos < j => NextElement <= j
                                                       ELSE ~(evictPos < j) /\ NextElement <= j
  <1> DEFINE after == {k \in Table : k > evictPos}
  <1>0. Table \in SUBSET Slot /\ after \in SUBSET Slot /\ Slot \subseteq Nat /\ evictPos \in Nat
     BY TableIs, SlotsFinite, SlotAssumption DEF CompositeTypeOK
  <1>1. CASE after = {}
     <2>1. NextElement = Min(Table)
        BY <1>1 DEF NextElement
     <2>2. Min(Table) \in Table /\ \A y \in Table : Min(Table) <= y
        BY <1>0, MinIs
     <2>3. \A j \in Table : ~(j > evictPos)
        BY <1>1
     <2> QED BY <2>1, <2>2, <2>3, <1>0
  <1>2. CASE after # {}
     <2>1. NextElement = Min(after)
        BY <1>2 DEF NextElement
     <2>2. Min(after) \in after /\ \A y \in after : Min(after) <= y
        BY <1>0, <1>2, MinIs
     <2> QED BY <2>1, <2>2, <1>0
  <1> QED BY <1>1, <1>2

Turning(f) == f.fn = "slice" /\ f.evict > 0 /\ f.visit > 0

LEMMA SliceIs ==
  ASSUME CompositeTypeOK, NEW inUse \in Int
  PROVE  /\ Slice(Table, inUse) \in Seq(Frame) /\ Len(Slice(Table, inUse)) \in {0, 1}
         /\ Len(Slice(Table, inUse)) = 1 => Turning(Slice(Table, inUse)[1])
  <1> DEFINE n == Cardinality(Table) - inUse - unused
             f == [fn |-> "slice", evict |-> n, visit |-> SLOT_ITERATIONS]
  <1>1. Cardinality(Table) \in Int /\ unused \in Int /\ SLOT_ITERATIONS \in Nat /\ SLOT_ITERATIONS > 0
     BY TableIs, SlotAssumption DEF CompositeTypeOK
  <1>2. n \in Int
     BY <1>1
  <1>3. CASE n <= 0
     BY <1>3, EmptySeq DEF Slice
  <1>4. CASE ~(n <= 0)
     <2>0. n \in Nat /\ n > 0
        BY <1>2, <1>4
     <2> HIDE DEF n
     <2>1. f \in Frame
        BY <2>0, <1>1 DEF Frame
     <2>2. Turning(f)
        BY <2>0, <1>1 DEF Turning
     <2>3. Slice(Table, inUse) = <<f>>
        BY <1>4 DEF Slice, n
     <2> HIDE DEF f
     <2>4. <<f>> \in Seq(Frame) /\ Len(<<f>>) = 1 /\ <<f>>[1] = f
        BY <2>1
     <2> QED BY <2>2, <2>3, <2>4
  <1> QED BY <1>3, <1>4

LEMMA DestroyIs ==
  ASSUME CompositeTypeOK, NEW k \in Slot
  PROVE  /\ Destroy(k) \in Frame /\ Destroy(k).fn = "delete"
         /\ Destroy(k).key = k /\ Destroy(k).todo = refs[k]
  BY DEF CompositeTypeOK, Destroy, Frame

LEMMA FlushPassIs ==
  ASSUME CompositeTypeOK, NEW all \in BOOLEAN
  PROVE  /\ FlushPass(Table, all) \in Frame /\ FlushPass(Table, all).fn = "flush"
         /\ FlushPass(Table, all).left = Cardinality(Table)
         /\ FlushPass(Table, all).result = FALSE /\ FlushPass(Table, all).all = all
  BY TableIs DEF FlushPass, Frame

(* What is known of a frame by its function. *)
LEMMA FrameIs ==
  ASSUME NEW f \in Frame
  PROVE  /\ f.fn \in {"create", "delete", "slice", "flush"}
         /\ f.fn \in {"create", "delete"} => f.key \in Slot /\ f.todo \in SUBSET Slot
         /\ f.fn = "create" => f.fails \in BOOLEAN
         /\ f.fn = "slice" => f.evict \in Nat /\ f.visit \in Nat
         /\ f.fn = "flush" => f.left \in Nat /\ f.result \in BOOLEAN /\ f.all \in BOOLEAN
  BY DEF Frame

(* A frame with one reference less to get or to release. *)
LEMMA LessTodo ==
  ASSUME NEW f \in Frame, f.fn \in {"create", "delete"}, NEW r
  PROVE  LET g == [f EXCEPT !.todo = @ \ {r}]
         IN  g \in Frame /\ g.fn = f.fn /\ g.key = f.key /\ g.todo = f.todo \ {r}
  <1>1. CASE f \in [fn : {"create"}, key : Slot, todo : SUBSET Slot, fails : BOOLEAN]
     BY <1>1 DEF Frame
  <1>2. CASE f \in [fn : {"delete"}, key : Slot, todo : SUBSET Slot]
     BY <1>2 DEF Frame
  <1> QED BY <1>1, <1>2 DEF Frame

(* A creation begins; one that fails, with or without a reference less. *)
LEMMA CreateIs ==
  ASSUME CompositeTypeOK, NEW k \in Slot
  PROVE  /\ Create(k) \in Frame /\ Create(k).fn = "create"
         /\ Create(k).key = k /\ Create(k).todo = refs[k]
  BY DEF CompositeTypeOK, Create, Frame

LEMMA FailIs ==
  ASSUME NEW f \in Frame, f.fn = "create", NEW r \in Slot
  PROVE  /\ LET g == [f EXCEPT !.fails = TRUE]
             IN  g \in Frame /\ g.fn = "create" /\ g.key = f.key /\ g.todo = f.todo
         /\ LET g == [f EXCEPT !.todo = @ \cup {r}]
             IN  g \in Frame /\ g.fn = "create" /\ g.key = f.key /\ g.todo = f.todo \cup {r}
         /\ LET g == [f EXCEPT !.fails = TRUE, !.todo = @ \cup {r}]
             IN  g \in Frame /\ g.fn = "create" /\ g.key = f.key /\ g.todo = f.todo \cup {r}
  <1>1. f \in [fn : {"create"}, key : Slot, todo : SUBSET Slot, fails : BOOLEAN]
     BY DEF Frame
  <1> QED BY <1>1 DEF Frame

-------------------------------------------------------------------------------
(* What a step makes of the stack s: n calls stay, the call above them goes  *)
(* on as the one in C, if any; the destructor in D begins, if any; the rest  *)
(* are slices.                                                               *)
Stacked(t, s, n, C, D) ==
  /\ n \in 0..Len(s) /\ t \in Seq(Frame) /\ Len(t) \in Nat /\ n <= Len(t)
  /\ \A i \in 1..n : t[i] = s[i]
  /\ \A i \in 1..Len(t) : i > n => t[i] \in C \/ t[i] \in D \/ Turning(t[i])
  /\ C # {} => n + 1 <= Len(t) /\ t[n + 1] \in C
  /\ \A i \in 1..Len(t) : i > n + 1 => t[i] \notin C
  /\ \A f \in D : \E i \in 1..Len(t) : i > n /\ t[i] = f
  /\ \A i, j \in 1..Len(t) : i > n /\ j > n /\ t[i] \in D /\ t[j] \in D => i = j

LEMMA NothingAbove ==
  ASSUME NEW s \in Seq(Frame), NEW t \in Seq(Frame), NEW n \in 0..Len(s), Len(t) = n,
         \A i \in 1..n : t[i] = s[i]
  PROVE  Stacked(t, s, n, {}, {})
  <1>1. Len(s) \in Nat
     BY LenProperties
  <1> QED BY <1>1 DEF Stacked

LEMMA OneAbove ==
  ASSUME NEW s \in Seq(Frame), NEW t \in Seq(Frame), NEW n \in 0..Len(s), Len(t) = n + 1,
         \A i \in 1..n : t[i] = s[i], NEW C, NEW D, t[n + 1] \in C \/ C = {}, \A f \in D : f = t[n + 1] /\ f \notin C,
         t[n + 1] \in C \/ t[n + 1] \in D \/ Turning(t[n + 1])
  PROVE  Stacked(t, s, n, C, D)
  <1>1. Len(s) \in Nat /\ n \in Nat
     BY LenProperties
  <1>2. PICK m \in Nat : m = n + 1
     BY <1>1
  <1>3. \A i \in 1..Len(t) : i > n => i = m
     BY <1>1, <1>2
  <1>4. m \in 1..Len(t) /\ m > n /\ n <= Len(t) /\ Len(t) \in Nat
     BY <1>1, <1>2
  <1>5. \A i \in 1..Len(t) : ~(i > m)
     BY <1>2, <1>4
  <1> QED BY <1>2, <1>3, <1>4, <1>5 DEF Stacked

LEMMA TwoAbove ==
  ASSUME NEW s \in Seq(Frame), NEW t \in Seq(Frame), NEW n \in 0..Len(s), Len(t) = n + 2,
         \A i \in 1..n : t[i] = s[i], NEW C, NEW D, t[n + 1] \in C \/ (C = {} /\ Turning(t[n + 1])),
         t[n + 1] \notin D, t[n + 2] \notin C, \A f \in D : f = t[n + 2], t[n + 2] \in D \/ Turning(t[n + 2])
  PROVE  Stacked(t, s, n, C, D)
  <1>1. Len(s) \in Nat /\ n \in Nat
     BY LenProperties
  <1>2. PICK m \in Nat, l \in Nat : m = n + 1 /\ l = n + 2
     BY <1>1
  <1>3. \A i \in 1..Len(t) : i > n => i = m \/ i = l
     BY <1>1, <1>2
  <1>4. m \in 1..Len(t) /\ m > n /\ l \in 1..Len(t) /\ l > n /\ n <= Len(t) /\ Len(t) \in Nat
     BY <1>1, <1>2
  <1>5. \A i \in 1..Len(t) : i > m => i = l
     BY <1>2, <1>4
  <1>6. m <= Len(t) /\ n \in 0..Len(s)
     BY <1>4
  <1>7. \A i \in 1..Len(t) : i > n => t[i] \in C \/ t[i] \in D \/ Turning(t[i])
     BY <1>2, <1>3
  <1>8. \A i \in 1..Len(t) : i > m => t[i] \notin C
     BY <1>2, <1>5
  <1>9. \A f \in D : \E i \in 1..Len(t) : i > n /\ t[i] = f
     BY <1>2, <1>4
  <1>10. \A i, j \in 1..Len(t) : i > n /\ j > n /\ t[i] \in D /\ t[j] \in D => i = j
     BY <1>2, <1>3
  <1> QED BY <1>2, <1>4, <1>6, <1>7, <1>8, <1>9, <1>10 DEF Stacked

LEMMA ThreeAbove ==
  ASSUME NEW s \in Seq(Frame), NEW t \in Seq(Frame), NEW n \in 0..Len(s), Len(t) = n + 3,
         \A i \in 1..n : t[i] = s[i], NEW C, NEW D, t[n + 1] \in C, t[n + 1] \notin D,
         t[n + 2] \notin C, \A f \in D : f = t[n + 2], t[n + 2] \in D,
         t[n + 3] \notin C, t[n + 3] \notin D, Turning(t[n + 3])
  PROVE  Stacked(t, s, n, C, D)
  <1>1. Len(s) \in Nat /\ n \in Nat
     BY LenProperties
  <1>2. PICK m \in Nat, l \in Nat, h \in Nat : m = n + 1 /\ l = n + 2 /\ h = n + 3
     BY <1>1
  <1>3. \A i \in 1..Len(t) : i > n => i = m \/ i = l \/ i = h
     BY <1>1, <1>2
  <1>4. /\ m \in 1..Len(t) /\ m > n /\ l \in 1..Len(t) /\ l > n /\ h \in 1..Len(t)
        /\ n <= Len(t) /\ Len(t) \in Nat
     BY <1>1, <1>2
  <1>5. \A i \in 1..Len(t) : i > m => i = l \/ i = h
     BY <1>2, <1>4
  <1>6. m <= Len(t) /\ n \in 0..Len(s)
     BY <1>4
  <1>7. \A i \in 1..Len(t) : i > n => t[i] \in C \/ t[i] \in D \/ Turning(t[i])
     BY <1>2, <1>3
  <1>8. \A i \in 1..Len(t) : i > m => t[i] \notin C
     BY <1>2, <1>5
  <1>9. \A f \in D : \E i \in 1..Len(t) : i > n /\ t[i] = f
     BY <1>2, <1>4
  <1>10. \A i, j \in 1..Len(t) : i > n /\ j > n /\ t[i] \in D /\ t[j] \in D => i = j
     BY <1>2, <1>3
  <1> QED BY <1>2, <1>4, <1>6, <1>7, <1>8, <1>9, <1>10 DEF Stacked

(* A sequence that has the one call in X, or none. *)
Holds(x, X) == /\ x \in Seq(Frame) /\ Len(x) \in {0, 1}
               /\ Len(x) = 0 => X = {}
               /\ Len(x) = 1 => X = {x[1]}

(* The top ends, or is a call that goes on; a destructor may begin. *)
LEMMA StackedOnFront ==
  ASSUME NEW s \in Seq(Frame), s # <<>>, NEW x \in Seq(Frame), NEW y, NEW C, NEW D,
         Holds(y, D), \A f \in D : ~Turning(f) /\ f \notin C, Len(x) = 1 => x[1] \notin D,
         \/ C = {} /\ Len(x) \in {0, 1} /\ (Len(x) = 1 => Turning(x[1]))
         \/ Holds(x, C)
  PROVE  Stacked(Front(s) \o x \o y, s, Len(s) - 1, C, D)
  <1>y. y \in Seq(Frame) /\ Len(y) \in {0, 1} /\ (Len(y) = 0 => D = {}) /\ (Len(y) = 1 => D = {y[1]})
     BY DEF Holds
  <1>0. PICK t : t = Front(s) \o x \o y
     OBVIOUS
  <1>p. PICK p : p = Front(s)
     OBVIOUS
  <1>n. PICK n \in Nat : n = Len(s) - 1 /\ n \in 0..Len(s)
     BY StackParts
  <1>1. p \in Seq(Frame) /\ Len(p) = n /\ \A i \in 1..n : p[i] = s[i]
     BY <1>p, <1>n, StackParts
  <1>2. On(t, p, x, y)
     BY <1>0, <1>p, <1>1, <1>y, TwoOn
  <1>3. Len(x) \in {0, 1}
     BY DEF Holds
  <1>4. t \in Seq(Frame) /\ Len(t) = n + Len(x) + Len(y) /\ \A i \in 1..n : t[i] = s[i]
     BY <1>1, <1>2 DEF On
  <1>5. CASE Len(x) = 0 /\ Len(y) = 0
     <2>1. C = {} /\ D = {} /\ Len(t) = n
        BY <1>4, <1>5, <1>y, <1>n DEF Holds
     <2>2. Stacked(t, s, n, {}, {})
        BY <1>4, <1>n, <2>1, NothingAbove
     <2> QED BY <2>1, <2>2, <1>0, <1>n
  <1>6. CASE Len(x) = 0 /\ Len(y) = 1
     <2>1. C = {} /\ D = {y[1]} /\ Len(t) = n + 1 /\ t[n + 1] = y[1]
        BY <1>1, <1>2, <1>4, <1>6, <1>y, <1>n DEF Holds, On
     <2>2. Stacked(t, s, n, C, D)
        BY <1>4, <1>n, <2>1, OneAbove
     <2> QED BY <2>2, <1>0, <1>n
  <1>7. CASE Len(x) = 1 /\ Len(y) = 0
     <2>1. (C = {} /\ Turning(x[1])) \/ C = {x[1]}
        BY <1>7 DEF Holds
     <2>2. D = {} /\ Len(t) = n + 1 /\ t[n + 1] = x[1]
        BY <1>1, <1>2, <1>4, <1>7, <1>y, <1>n DEF On
     <2>3. t[n + 1] \in C \/ C = {}
        BY <2>1, <2>2
     <2>4. t[n + 1] \in C \/ t[n + 1] \in D \/ Turning(t[n + 1])
        BY <2>1, <2>2
     <2>5. \A f \in D : f = t[n + 1] /\ f \notin C
        BY <2>2
     <2>6. Stacked(t, s, n, C, D)
        BY <1>4, <1>n, <2>2, <2>3, <2>4, <2>5, OneAbove
     <2> QED BY <2>6, <1>0, <1>n
  <1>8. CASE Len(x) = 1 /\ Len(y) = 1
     <2>1. (C = {} /\ Turning(x[1])) \/ C = {x[1]}
        BY <1>8 DEF Holds
     <2>2. Len(t) = n + 2 /\ t[n + 1] = x[1]
        BY <1>1, <1>2, <1>4, <1>8, <1>n DEF On
     <2>3. t[n + 1 + 1] = y[1]
        BY <1>1, <1>2, <1>8 DEF On
     <2>4. t[n + 2] = y[1] /\ D = {y[1]}
        BY <2>3, <1>n, <1>8, <1>y
     <2>5. t[n + 2] \in D /\ t[n + 2] \notin C /\ (\A f \in D : f = t[n + 2]) /\ t[n + 1] \notin D
        BY <2>2, <2>4, <1>8
     <2>6. t[n + 1] \in C \/ (C = {} /\ Turning(t[n + 1]))
        BY <2>1, <2>2
     <2>7. Stacked(t, s, n, C, D)
        BY <1>4, <1>n, <2>2, <2>5, <2>6, TwoAbove
     <2> QED BY <2>7, <1>0, <1>n
  <1> QED BY <1>3, <1>y, <1>5, <1>6, <1>7, <1>8

(* The top goes on, a destructor may begin and a slice. *)
LEMMA StackedOnTop ==
  ASSUME NEW s \in Seq(Frame), s # <<>>, NEW f \in Frame, NEW x, NEW y \in Seq(Frame), NEW D,
         Holds(x, D), f \notin D, ~Turning(f), \A g \in D : ~Turning(g),
         Len(y) \in {0, 1}, Len(y) = 1 => Turning(y[1])
  PROVE  Stacked(Append(Front(s), f) \o x \o y, s, Len(s) - 1, {f}, D)
  <1>x. x \in Seq(Frame) /\ Len(x) \in {0, 1} /\ (Len(x) = 0 => D = {}) /\ (Len(x) = 1 => D = {x[1]})
     BY DEF Holds
  <1>0. PICK t : t = Append(Front(s), f) \o x \o y
     OBVIOUS
  <1>p. PICK p : p = Append(Front(s), f)
     OBVIOUS
  <1>n. PICK n \in Nat : n = Len(s) - 1 /\ n \in 0..Len(s)
     BY StackParts
  <1>g. Goes(p, s, f)
     BY <1>p, TopGoes
  <1>1. p \in Seq(Frame) /\ Len(p) = n + 1 /\ p[n + 1] = f /\ \A i \in 1..n : p[i] = s[i]
     <2>1. Len(s) = n + 1
        BY <1>n, LenProperties
     <2>2. \A i \in 1..(Len(s) - 1) : p[i] = s[i]
        BY <1>g DEF Goes
     <2> QED BY <1>n, <1>g, <2>1, <2>2 DEF Goes
  <1>2. On(t, p, x, y)
     BY <1>0, <1>p, <1>1, <1>x, TwoOn
  <1>3. t \in Seq(Frame) /\ Len(t) = n + 1 + Len(x) + Len(y) /\ \A i \in 1..(n + 1) : t[i] = p[i]
     BY <1>1, <1>2 DEF On
  <1>4. (\A i \in 1..n : t[i] = s[i]) /\ t[n + 1] = f
     BY <1>1, <1>3, <1>n
  <1>c. PICK C : C = {f}
     OBVIOUS
  <1>d. t[n + 1] \in C /\ t[n + 1] \notin D
     BY <1>4, <1>c
  <1>5. CASE Len(x) = 0 /\ Len(y) = 0
     <2>1. D = {} /\ Len(t) = n + 1
        BY <1>3, <1>5, <1>x, <1>n
     <2>2. Stacked(t, s, n, C, D)
        BY <1>3, <1>4, <1>d, <1>n, <2>1, OneAbove
     <2> QED BY <2>2, <1>0, <1>n, <1>c
  <1>6. CASE Len(x) = 0 /\ Len(y) = 1
     <2>1. D = {} /\ Len(t) = n + 2
        BY <1>3, <1>6, <1>x, <1>n
     <2>2. t[n + 1 + 0 + 1] = y[1]
        BY <1>1, <1>2, <1>6 DEF On
     <2>3. t[n + 2] = y[1]
        BY <2>2, <1>n
     <2>4. Turning(t[n + 2]) /\ t[n + 2] \notin C
        BY <2>3, <1>6, <1>c
     <2>5. Stacked(t, s, n, C, D)
        BY <1>3, <1>4, <1>d, <1>n, <2>1, <2>4, TwoAbove
     <2> QED BY <2>5, <1>0, <1>n, <1>c
  <1>7. CASE Len(x) = 1
     <2>1. D = {x[1]}
        BY <1>7, <1>x
     <2>l. Len(t) = n + 1 + 1 + Len(y)
        BY <1>3, <1>7
     <2>2. t[n + 1 + 1] = x[1]
        BY <1>1, <1>2, <1>7 DEF On
     <2>3. t[n + 2] = x[1]
        BY <2>2, <1>n
     <2>4. t[n + 2] \notin C /\ t[n + 2] \in D /\ \A g \in D : g = t[n + 2]
        BY <2>1, <2>3, <1>c
     <2>5. CASE Len(y) = 0
        <3>l. Len(t) = n + 2
           BY <2>l, <2>5, <1>n
        <3>1. Stacked(t, s, n, C, D)
           BY <1>3, <1>4, <1>d, <1>n, <2>1, <2>4, <3>l, TwoAbove
        <3> QED BY <3>1, <1>0, <1>n, <1>c
     <2>6. CASE Len(y) = 1
        <3>l. Len(t) = n + 3
           BY <2>l, <2>6, <1>n
        <3>1. t[n + 1 + 1 + 1] = y[1]
           BY <1>1, <1>2, <1>7, <2>6 DEF On
        <3>2. t[n + 3] = y[1]
           BY <3>1, <1>n
        <3>3. Turning(t[n + 3]) /\ t[n + 3] \notin C /\ t[n + 3] \notin D
           BY <3>2, <2>6, <1>c, <2>1
        <3>4. Stacked(t, s, n, C, D)
           BY <1>3, <1>4, <1>d, <1>n, <2>1, <2>4, <3>l, <3>3, ThreeAbove
        <3> QED BY <3>4, <1>0, <1>n, <1>c
     <2> QED BY <2>5, <2>6
  <1> QED BY <1>x, <1>5, <1>6, <1>7

(* A call by the client, or a slice, on the empty stack. *)
LEMMA StackedFromNothing ==
  ASSUME NEW x \in Seq(Frame), NEW C,
         \/ C = {} /\ Len(x) \in {0, 1} /\ (Len(x) = 1 => Turning(x[1]))
         \/ Holds(x, C)
  PROVE  Stacked(x, <<>>, 0, C, {})
  <1>s. PICK s : s = <<>>
     OBVIOUS
  <1>n. PICK n : n = 0
     OBVIOUS
  <1>1. s \in Seq(Frame) /\ n \in Nat /\ n \in 0..Len(s) /\ \A i \in 1..n : x[i] = s[i]
     BY <1>s, <1>n, EmptySeq
  <1>2. CASE Len(x) = 0
     <2>1. C = {}
        BY <1>2 DEF Holds
     <2>2. Stacked(x, s, n, {}, {})
        BY <1>1, <1>n, <1>2, NothingAbove
     <2> QED BY <1>s, <1>n, <2>1, <2>2
  <1>3. CASE Len(x) = 1
     <2>1. (C = {} /\ Turning(x[1])) \/ C = {x[1]}
        BY <1>3 DEF Holds
     <2>2. n + 1 = 1
        BY <1>n
     <2>3. x[n + 1] \in C \/ C = {}
        BY <2>1, <2>2
     <2>4. PICK D : D = {}
        OBVIOUS
     <2>5. x[n + 1] \in C \/ x[n + 1] \in D \/ Turning(x[n + 1])
        BY <2>1, <2>2
     <2>6. (\A f \in D : f = x[n + 1] /\ f \notin C) /\ Len(x) = n + 1
        BY <2>4, <2>2, <1>3
     <2>7. Stacked(x, s, n, C, D)
        BY <1>1, <2>3, <2>5, <2>6, OneAbove
     <2> QED BY <1>s, <1>n, <2>4, <2>7
  <1> QED BY <1>2, <1>3 DEF Holds

-------------------------------------------------------------------------------
(* What each call under way knows.  A slice has something to evict; a value  *)
(* under construction is in progress, and its destructor's is out of the     *)
(* table and out of use; creations are at the bottom, each for the one       *)
(* below it, which has what it got.                                          *)
CallInv(i) ==
  /\ calls[i].fn = "flush" => i = 1
  /\ calls[i].fn = "slice" => calls[i].evict > 0 /\ calls[i].visit > 0
  /\ calls[i].fn = "create" => /\ phase = "open" /\ entry[calls[i].key] = "progress"
                               /\ calls[i].todo \subseteq refs[calls[i].key]
  /\ calls[i].fn = "delete" => /\ entry[calls[i].key] = "none" /\ hardRefs[calls[i].key] = 0
                               /\ live[calls[i].key] /\ calls[i].todo \subseteq refs[calls[i].key]
ChainInv ==
  \A i, j \in 1..Len(calls) : calls[j].fn = "create" /\ i < j =>
     /\ calls[i].fn = "create"
     /\ j = i + 1 => calls[j].key \in refs[calls[i].key] \ calls[i].todo
GotInv ==
  \A i \in 1..Len(calls) : calls[i].fn = "create" =>
     \A r \in refs[calls[i].key] \ calls[i].todo :
        \/ entry[r] = "value"
        \/ \E j \in 1..Len(calls) : j = i + 1 /\ calls[j].fn = "create" /\ calls[j].key = r
DeleteInv ==
  \A i, j \in 1..Len(calls) :
     calls[i].fn = "delete" /\ calls[j].fn = "delete" /\ calls[i].key = calls[j].key => i = j

(* A value exists from its creation to its destructor, and is out of the     *)
(* table while in use only in the destructor of the cache.                   *)
Under(fn, k) == \E i \in 1..Len(calls) : calls[i].fn = fn /\ calls[i].key = k
KeyInv(k) ==
  /\ entry[k] = "value" \/ hardRefs[k] > 0 => live[k]
  /\ live[k] => entry[k] = "value" \/ hardRefs[k] > 0 \/ Under("delete", k)
  /\ entry[k] = "progress" => hardRefs[k] = 0 /\ ~live[k] /\ Under("create", k)
  /\ entry[k] = "failed" => hardRefs[k] = 0 /\ ~live[k]
  /\ phase = "open" /\ hardRefs[k] > 0 => entry[k] = "value"

(* The first pass of a flush that has evicted nothing has called nothing. *)
PhaseInv ==
  /\ phase = "closing" => Len(calls) > 0 /\ calls[1].fn = "flush"
  /\ phase = "closed" => Len(calls) = 0
  /\ Len(calls) > 0 /\ calls[1].fn = "flush" =>
       /\ calls[1].all => phase = "closing"
       /\ calls[1].result \/ calls[1].all \/ Len(calls) = 1

StackInv == /\ CompositeTypeOK /\ Acyclic(refs)
            /\ \A i \in 1..Len(calls) : CallInv(i)
            /\ ChainInv /\ GotInv /\ DeleteInv /\ PhaseInv
            /\ \A k \in Slot : KeyInv(k)

-------------------------------------------------------------------------------
(* Consequences. *)

(* A value that is being created needs none of those below it. *)
LEMMA NoCycle ==
  ASSUME CompositeTypeOK, Acyclic(refs), ChainInv,
         NEW i \in 1..Len(calls), NEW j \in 1..Len(calls), i <= j, calls[j].fn = "create"
  PROVE  calls[i].key \notin refs[calls[j].key]
  <1> SUFFICES ASSUME calls[i].key \in refs[calls[j].key] PROVE FALSE
     OBVIOUS
  <1>1. Len(calls) \in Nat /\ \A m \in 1..Len(calls) : calls[m] \in Frame
     BY LenProperties, ElementOfSeq DEF CompositeTypeOK
  <1>2. \A m \in i..j : m \in 1..Len(calls) /\ calls[m].fn = "create" /\ calls[m].key \in Slot
     BY <1>1, FrameIs DEF ChainInv
  <1> DEFINE S == {calls[m].key : m \in i..j}
  <1>3. S \in (SUBSET Slot) \ {{}}
     <2>1. i \in i..j
        BY <1>1
     <2>2. calls[i].key \in S
        BY <2>1
     <2> QED BY <1>2, <2>2
  <1>4. PICK k \in S : refs[k] \cap S = {}
     BY <1>3 DEF Acyclic
  <1>5. PICK m \in i..j : k = calls[m].key
     BY <1>4
  <1>6. CASE m = j
     BY <1>1, <1>4, <1>5, <1>6
  <1>7. CASE m # j
     <2>1. PICK l \in i..j : l = m + 1
        BY <1>1, <1>7
     <2>2. calls[l].key \in refs[calls[m].key]
        BY <1>2, <2>1, <1>1 DEF ChainInv
     <2> QED BY <1>4, <1>5, <2>2
  <1> QED BY <1>6, <1>7

(* No value is created twice at a time, or created and deleted. *)
LEMMA CreatedOnce ==
  ASSUME StackInv, NEW i \in 1..Len(calls), NEW j \in 1..Len(calls),
         calls[i].fn = "create", calls[j].fn = "create", calls[i].key = calls[j].key
  PROVE  i = j
  <1>1. ASSUME NEW a \in 1..Len(calls), NEW b \in 1..Len(calls), a < b,
               calls[a].fn = "create", calls[b].fn = "create", calls[a].key = calls[b].key
        PROVE  FALSE
     <2>0. Len(calls) \in Nat
        BY LenProperties DEF StackInv, CompositeTypeOK
     <2>1. PICK c \in 1..Len(calls) : c = b - 1 /\ a <= c
        BY <1>1, <2>0
     <2>2. c < b /\ b = c + 1
        BY <2>0, <2>1
     <2>3. calls[c].fn = "create" /\ calls[b].key \in refs[calls[c].key]
        BY <1>1, <2>2 DEF StackInv, ChainInv
     <2> QED BY <1>1, <2>1, <2>3, NoCycle DEF StackInv
  <1>2. i < j \/ i = j \/ j < i
     BY LenProperties DEF StackInv, CompositeTypeOK
  <1> QED BY <1>1, <1>2

(* What a value refers to, by the call that is on it. *)
LEMMA CreateRefs ==
  ASSUME StackInv, NEW i \in 1..Len(calls), calls[i].fn = "create"
  PROVE  RefsOf(calls[i].key) = {r \in refs[calls[i].key] \ calls[i].todo : entry[r] = "value"}
  <1>1. DOMAIN calls = 1..Len(calls)
     BY LenProperties DEF StackInv, CompositeTypeOK
  <1>2. \A m \in 1..Len(calls) : m \in Frames("create", calls[i].key) <=> m = i
     BY <1>1, CreatedOnce DEF Frames
  <1>3. Frames("create", calls[i].key) = {i}
     BY <1>1, <1>2 DEF Frames
  <1>4. \E m \in DOMAIN calls : m \in Frames("create", calls[i].key)
     BY <1>1, <1>3
  <1>5. RefsOf(calls[i].key)
          = {r \in refs[calls[i].key] : entry[r] = "value" /\ \A m \in Frames("create", calls[i].key) : r \notin calls[m].todo}
     BY <1>4 DEF RefsOf
  <1> QED BY <1>3, <1>5

LEMMA DeleteRefs ==
  ASSUME StackInv, NEW i \in 1..Len(calls), calls[i].fn = "delete"
  PROVE  RefsOf(calls[i].key) = calls[i].todo
  <1>1. DOMAIN calls = 1..Len(calls)
     BY LenProperties DEF StackInv, CompositeTypeOK
  <1>2. \A m \in 1..Len(calls) : m \in Frames("delete", calls[i].key) <=> m = i
     BY <1>1 DEF Frames, StackInv, DeleteInv
  <1>3. \A m \in 1..Len(calls) : m \notin Frames("create", calls[i].key)
     BY DEF Frames, StackInv, CallInv
  <1>4. live[calls[i].key] /\ calls[i].todo \subseteq refs[calls[i].key]
     BY DEF StackInv, CallInv
  <1>5. Frames("delete", calls[i].key) = {i}
     BY <1>1, <1>2 DEF Frames
  <1>6. ~\E m \in DOMAIN calls : m \in Frames("create", calls[i].key)
     BY <1>1, <1>3
  <1>7. RefsOf(calls[i].key)
          = {r \in refs[calls[i].key] : \A m \in Frames("delete", calls[i].key) : r \in calls[m].todo}
     BY <1>4, <1>6 DEF RefsOf
  <1> QED BY <1>4, <1>5, <1>7

LEMMA OtherRefs ==
  ASSUME StackInv, NEW j \in Slot, ~Under("create", j), ~Under("delete", j)
  PROVE  RefsOf(j) = IF live[j] THEN refs[j] ELSE {}
  <1>1. DOMAIN calls = 1..Len(calls)
     BY LenProperties DEF StackInv, CompositeTypeOK
  <1>2. \A m \in 1..Len(calls) : m \notin Frames("create", j) /\ m \notin Frames("delete", j)
     BY DEF Frames, Under
  <1>3. ~\E m \in DOMAIN calls : m \in Frames("create", j)
     BY <1>1, <1>2
  <1>4. Frames("delete", j) = {}
     BY <1>1, <1>2 DEF Frames
  <1>5. RefsOf(j) = IF ~live[j] THEN {} ELSE {r \in refs[j] : \A m \in Frames("delete", j) : r \in calls[m].todo}
     BY <1>3 DEF RefsOf
  <1> QED BY <1>4, <1>5

(* Whatever is referred to is counted. *)
LEMMA Referred ==
  ASSUME CompositeTypeOK, CountsExact, NEW k \in Slot
  PROVE  /\ \A j \in Slot : k \in RefsOf(j) => hardRefs[k] > 0
         /\ k \in heldSlots => hardRefs[k] > 0
         /\ hardRefs[k] = 0 => Referrers(k) = {} /\ k \notin heldSlots
         /\ Referrers(k) \in SUBSET Slot /\ Cardinality(Referrers(k)) \in Nat
         /\ hardRefs[k] = Cardinality(Referrers(k)) + (IF k \in heldSlots THEN 1 ELSE 0)
  <1>1. Referrers(k) \in SUBSET Slot
     BY DEF Referrers
  <1>2. IsFiniteSet(Referrers(k)) /\ Cardinality(Referrers(k)) \in Nat
     BY <1>1, SlotsFinite
  <1>3. hardRefs[k] = Cardinality(Referrers(k)) + (IF k \in heldSlots THEN 1 ELSE 0)
     BY DEF CountsExact
  <1>4. Cardinality(Referrers(k)) = 0 <=> Referrers(k) = {}
     BY <1>2, FS_EmptySet
  <1>5. \A j \in Slot : k \in RefsOf(j) => Referrers(k) # {}
     BY DEF Referrers
  <1> QED BY <1>1, <1>2, <1>3, <1>4, <1>5

-------------------------------------------------------------------------------
(* Every step but those that create takes at most the top off the stack; it  *)
(* may take one value out of the table and one reference away, and it begins *)
(* the destructor of the value that this was the end of, unless that is in   *)
(* its destructor already.                                                   *)
CallerGoesOn(f, n) ==
  \/ /\ f.fn = "flush" /\ n = 0
     /\ 1 \in 1..Len(calls) => calls[1].fn = "flush"
  \/ /\ f.fn = "delete" /\ n + 1 \in 1..Len(calls) /\ calls[n + 1].fn = "delete"
     /\ f.key = calls[n + 1].key /\ f.todo \subseteq calls[n + 1].todo
DeleteBegins(f) == /\ f.fn = "delete" /\ f.key \in Slot /\ f.todo = refs[f.key]
                   /\ entry[f.key] = "value" \/ hardRefs[f.key] > 0
                   /\ entry'[f.key] = "none" /\ hardRefs'[f.key] = 0

KeyUnwinds(k, n, C, D) ==
  /\ \/ entry'[k] = entry[k]
     \/ /\ entry[k] = "value" /\ entry'[k] = "none"
        /\ hardRefs[k] = 0 \/ phase = "closing"
     \/ entry[k] = "failed" /\ entry'[k] = "none"
  /\ hardRefs'[k] = hardRefs[k] \/ (hardRefs[k] > 0 /\ hardRefs'[k] = hardRefs[k] - 1)
  /\ entry'[k] # entry[k] \/ hardRefs'[k] # hardRefs[k] =>
       entry[k] = "failed" \/ entry'[k] = "value" \/ hardRefs'[k] > 0 \/ \E f \in D : f.key = k
  /\ live'[k] = live[k] \/ (/\ ~live'[k] /\ C = {} /\ D = {} /\ n + 1 \in 1..Len(calls)
                            /\ calls[n + 1].fn = "delete" /\ calls[n + 1].key = k)

Unwinds(n, C, D) ==
  /\ n \in 0..Len(calls) /\ Stacked(calls', calls, n, C, D)
  /\ Len(calls) <= n + 1 /\ (Len(calls) = n + 1 => calls[n + 1].fn # "create")
  /\ \A f \in C : CallerGoesOn(f, n)
  /\ \A f \in D : DeleteBegins(f)
  /\ \A f, g \in D : f = g
  /\ \A k \in Slot : KeyUnwinds(k, n, C, D)
  /\ Len(calls) = n + 1 /\ calls[n + 1].fn = "delete" => C # {} \/ ~live'[calls[n + 1].key]
  /\ refs' = refs
  /\ phase' = phase \/ ~\E i \in 1..Len(calls) : calls[i].fn = "create"
  /\ phase' = "open" => phase = "open"

(* Where the calls on the new stack come from. *)
LEMMA UnwoundCalls ==
  ASSUME StackInv, CompositeTypeOK', NEW n, NEW C, NEW D, Unwinds(n, C, D), NEW i \in 1..Len(calls')
  PROVE  \/ i <= n /\ i \in 1..Len(calls) /\ calls'[i] = calls[i]
         \/ i > n /\ i = n + 1 /\ calls'[i] \in C /\ CallerGoesOn(calls'[i], n)
         \/ i > n /\ calls'[i] \in D /\ DeleteBegins(calls'[i])
         \/ i > n /\ Turning(calls'[i])
  <1>1. Len(calls) \in Nat /\ Len(calls') \in Nat
     BY LenProperties DEF StackInv, CompositeTypeOK
  <1>2. n \in 0..Len(calls) /\ (\A m \in 1..n : calls'[m] = calls[m])
     BY DEF Unwinds, Stacked
  <1>3. CASE i <= n
     BY <1>1, <1>2, <1>3
  <1>4. CASE i > n
     <2>1. calls'[i] \in C \/ calls'[i] \in D \/ Turning(calls'[i])
        BY <1>4 DEF Unwinds, Stacked
     <2>2. calls'[i] \in C => i = n + 1
        <3>1. i > n + 1 => calls'[i] \notin C
           BY DEF Unwinds, Stacked
        <3> QED BY <3>1, <1>4, <1>1, <1>2
     <2> QED BY <1>4, <2>1, <2>2 DEF Unwinds
  <1> QED BY <1>1, <1>2, <1>3, <1>4

(* Creations are not touched, and a value that is being created keeps what  *)
(* it got: that has a reference.                                            *)
LEMMA CreatesStay ==
  ASSUME StackInv, CompositeTypeOK', NEW n, NEW C, NEW D, Unwinds(n, C, D), NEW i \in 1..Len(calls')
  PROVE  calls'[i].fn = "create" <=> i \in 1..Len(calls) /\ calls[i].fn = "create"
  <1>1. Len(calls) \in Nat /\ Len(calls') \in Nat /\ n \in 0..Len(calls)
     BY LenProperties DEF StackInv, CompositeTypeOK, Unwinds
  <1>2. calls'[i].fn = "create" => i <= n /\ i \in 1..Len(calls) /\ calls'[i] = calls[i]
     BY UnwoundCalls DEF CallerGoesOn, DeleteBegins, Turning
  <1>3. ASSUME i \in 1..Len(calls), calls[i].fn = "create" PROVE i <= n
     BY <1>1, <1>3 DEF Unwinds
  <1>4. i <= n => calls'[i] = calls[i]
     BY <1>1 DEF Unwinds, Stacked
  <1> QED BY <1>2, <1>3, <1>4

LEMMA GotIsCounted ==
  ASSUME StackInv, CountsExact, NEW i \in 1..Len(calls), calls[i].fn = "create",
         NEW r \in refs[calls[i].key] \ calls[i].todo, entry[r] = "value"
  PROVE  r \in Slot /\ hardRefs[r] > 0
  <1>1. calls[i].key \in Slot /\ r \in Slot
     BY ElementOfSeq, LenProperties, FrameIs DEF StackInv, CompositeTypeOK
  <1>2. r \in RefsOf(calls[i].key)
     BY CreateRefs
  <1> QED BY <1>1, <1>2, Referred DEF StackInv

LEMMA CreatesUnwind ==
  ASSUME StackInv, CountsExact, CompositeTypeOK', NEW n, NEW C, NEW D, Unwinds(n, C, D)
  PROVE  /\ ChainInv' /\ GotInv'
         /\ \A i \in 1..Len(calls') : calls'[i].fn = "create" =>
               /\ phase' = "open" /\ entry'[calls'[i].key] = "progress"
               /\ calls'[i].todo \subseteq refs'[calls'[i].key]
         /\ \A k \in Slot : entry'[k] = "progress" => entry[k] = "progress" /\ Under("create", k)'
  <1>1. Len(calls) \in Nat /\ Len(calls') \in Nat /\ n \in 0..Len(calls) /\ n <= Len(calls')
     BY LenProperties DEF StackInv, CompositeTypeOK, Unwinds, Stacked
  <1>2. \A i \in 1..Len(calls) : calls[i].fn = "create" => i <= n /\ i \in 1..Len(calls') /\ calls'[i] = calls[i]
     BY <1>1 DEF Unwinds, Stacked
  <1>3. \A i \in 1..Len(calls') : calls'[i].fn = "create" => i \in 1..Len(calls) /\ calls[i].fn = "create" /\ calls'[i] = calls[i]
     BY <1>2, CreatesStay
  <1>4. refs' = refs
     BY DEF Unwinds
  <1>5. ChainInv'
     <2> SUFFICES ASSUME NEW i \in 1..Len(calls'), NEW j \in 1..Len(calls'), calls'[j].fn = "create", i < j
                  PROVE  /\ calls'[i].fn = "create"
                         /\ j = i + 1 => calls'[j].key \in refs'[calls'[i].key] \ calls'[i].todo
        BY DEF ChainInv
     <2>1. j \in 1..Len(calls) /\ calls[j].fn = "create" /\ calls'[j] = calls[j]
        BY <1>3
     <2>2. i \in 1..Len(calls)
        BY <2>1, <1>1
     <2>3. calls[i].fn = "create" /\ (j = i + 1 => calls[j].key \in refs[calls[i].key] \ calls[i].todo)
        BY <2>1, <2>2 DEF StackInv, ChainInv
     <2> QED BY <1>2, <1>4, <2>1, <2>2, <2>3
  <1>6. ASSUME NEW i \in 1..Len(calls), calls[i].fn = "create" PROVE phase = "open" /\ phase' = "open" /\ calls[i].key \in Slot
     BY <1>6, ElementOfSeq, FrameIs DEF StackInv, CallInv, Unwinds, CompositeTypeOK
  <1>7. ASSUME NEW i \in 1..Len(calls), calls[i].fn = "create", NEW r \in refs[calls[i].key] \ calls[i].todo, entry[r] = "value"
        PROVE  entry'[r] = "value"
     <2>1. r \in Slot /\ hardRefs[r] > 0 /\ hardRefs[r] # 0
        BY <1>7, GotIsCounted
     <2>2. phase # "closing"
        BY <1>6, <1>7
     <2> QED BY <1>7, <2>1, <2>2 DEF Unwinds, KeyUnwinds
  <1>8. GotInv'
     <2> SUFFICES ASSUME NEW i \in 1..Len(calls'), calls'[i].fn = "create", NEW r \in refs'[calls'[i].key] \ calls'[i].todo
                  PROVE  \/ entry'[r] = "value"
                         \/ \E j \in 1..Len(calls') : j = i + 1 /\ calls'[j].fn = "create" /\ calls'[j].key = r
        BY DEF GotInv
     <2>1. i \in 1..Len(calls) /\ calls[i].fn = "create" /\ calls'[i] = calls[i]
        BY <1>3
     <2>2. r \in refs[calls[i].key] \ calls[i].todo
        BY <2>1, <1>4
     <2>3. \/ entry[r] = "value"
           \/ \E j \in 1..Len(calls) : j = i + 1 /\ calls[j].fn = "create" /\ calls[j].key = r
        BY <2>1, <2>2 DEF StackInv, GotInv
     <2> QED BY <1>2, <1>7, <2>1, <2>2, <2>3
  <1>9. ASSUME NEW i \in 1..Len(calls'), calls'[i].fn = "create"
        PROVE  /\ phase' = "open" /\ entry'[calls'[i].key] = "progress"
               /\ calls'[i].todo \subseteq refs'[calls'[i].key]
     <2>1. i \in 1..Len(calls) /\ calls[i].fn = "create" /\ calls'[i] = calls[i]
        BY <1>3, <1>9
     <2>2. entry[calls[i].key] = "progress" /\ calls[i].todo \subseteq refs[calls[i].key]
        BY <2>1 DEF StackInv, CallInv
     <2>3. entry'[calls[i].key] = "progress"
        BY <1>6, <2>1, <2>2 DEF Unwinds, KeyUnwinds
     <2> QED BY <1>4, <1>6, <2>1, <2>2, <2>3
  <1>10. ASSUME NEW k \in Slot, entry'[k] = "progress" PROVE entry[k] = "progress" /\ Under("create", k)'
     <2>1. entry[k] = "progress"
        BY <1>10 DEF Unwinds, KeyUnwinds
     <2>2. PICK i \in 1..Len(calls) : calls[i].fn = "create" /\ calls[i].key = k
        BY <2>1 DEF StackInv, KeyInv, Under
     <2> QED BY <1>2, <2>1, <2>2 DEF Under
  <1> QED BY <1>5, <1>8, <1>9, <1>10

(* Destructors go on, and one that begins is the first of its value. *)
LEMMA DeletesUnwind ==
  ASSUME StackInv, CompositeTypeOK', NEW n, NEW C, NEW D, Unwinds(n, C, D)
  PROVE  /\ DeleteInv'
         /\ \A i \in 1..Len(calls') : calls'[i].fn = "delete" =>
               /\ entry'[calls'[i].key] = "none" /\ hardRefs'[calls'[i].key] = 0
               /\ live'[calls'[i].key] /\ calls'[i].todo \subseteq refs'[calls'[i].key]
         /\ \A k \in Slot : live'[k] => entry'[k] = "value" \/ hardRefs'[k] > 0 \/ Under("delete", k)'
  <1>1. Len(calls) \in Nat /\ Len(calls') \in Nat /\ n \in 0..Len(calls) /\ n <= Len(calls') /\ n \in Nat
     BY LenProperties DEF StackInv, CompositeTypeOK, Unwinds, Stacked
  <1>2. \A i \in 1..Len(calls) : calls[i] \in Frame
     BY ElementOfSeq DEF StackInv, CompositeTypeOK
  <1>3. refs' = refs
     BY DEF Unwinds
  (* A destructor of before, that goes on at the same place. *)
  <1> DEFINE Old(i) == /\ i \in 1..Len(calls) /\ i <= n + 1 /\ calls[i].fn = "delete" /\ calls'[i].key = calls[i].key
                       /\ calls'[i].todo \subseteq calls[i].todo /\ (i = n + 1 => calls'[i] \in C)
             Fresh(i) == i > n /\ calls'[i] \in D /\ DeleteBegins(calls'[i])
  <1>4. ASSUME NEW i \in 1..Len(calls'), calls'[i].fn = "delete" PROVE Old(i) \/ Fresh(i)
     <2>1. CASE i <= n /\ i \in 1..Len(calls) /\ calls'[i] = calls[i]
        BY <1>1, <1>4, <2>1
     <2>2. CASE i = n + 1 /\ calls'[i] \in C /\ CallerGoesOn(calls'[i], n)
        BY <1>1, <1>4, <2>2 DEF CallerGoesOn
     <2>3. CASE i > n /\ calls'[i] \in D /\ DeleteBegins(calls'[i])
        BY <2>3
     <2>4. ~Turning(calls'[i])
        BY <1>4 DEF Turning
     <2> QED BY <2>1, <2>2, <2>3, <2>4, UnwoundCalls
  <1>5. ASSUME NEW i \in 1..Len(calls'), Old(i)
        PROVE  /\ calls[i].key \in Slot /\ entry[calls[i].key] = "none" /\ hardRefs[calls[i].key] = 0 /\ live[calls[i].key]
               /\ calls[i].todo \subseteq refs[calls[i].key]
     BY <1>2, <1>5, FrameIs DEF StackInv, CallInv
  <1>6. ASSUME NEW i \in 1..Len(calls'), Old(i) PROVE live'[calls[i].key]
     <2>1. CASE live'[calls[i].key] = live[calls[i].key]
        BY <2>1, <1>5, <1>6
     <2>2. CASE /\ C = {} /\ n + 1 \in 1..Len(calls)
                /\ calls[n + 1].fn = "delete" /\ calls[n + 1].key = calls[i].key
        <3>1. i = n + 1
           BY <2>2, <1>6 DEF StackInv, DeleteInv
        <3> QED BY <3>1, <2>2, <1>6
     <2> QED BY <2>1, <2>2, <1>5, <1>6 DEF Unwinds, KeyUnwinds
  <1>7. ASSUME NEW i \in 1..Len(calls'), Fresh(i)
        PROVE  /\ calls'[i].key \in Slot /\ entry'[calls'[i].key] = "none" /\ hardRefs'[calls'[i].key] = 0
               /\ calls'[i].todo = refs[calls'[i].key] /\ live'[calls'[i].key]
               /\ entry[calls'[i].key] = "value" \/ hardRefs[calls'[i].key] > 0
     <2>1. PICK k : k = calls'[i].key
        OBVIOUS
     <2>2. /\ k \in Slot /\ entry'[k] = "none" /\ hardRefs'[k] = 0 /\ calls'[i].todo = refs[k]
           /\ entry[k] = "value" \/ hardRefs[k] > 0
        BY <1>7, <2>1 DEF DeleteBegins
     <2>3. live[k]
        BY <2>2 DEF StackInv, KeyInv
     <2>4. D # {}
        BY <1>7
     <2>5. live'[k]
        BY <2>2, <2>3, <2>4 DEF Unwinds, KeyUnwinds
     <2> QED BY <2>1, <2>2, <2>5
  <1>8. ASSUME NEW i \in 1..Len(calls'), calls'[i].fn = "delete"
        PROVE  /\ entry'[calls'[i].key] = "none" /\ hardRefs'[calls'[i].key] = 0
               /\ live'[calls'[i].key] /\ calls'[i].todo \subseteq refs'[calls'[i].key]
     <2>1. CASE Old(i)
        <3>1. PICK k : k = calls[i].key /\ k = calls'[i].key
           BY <2>1
        <3>2. k \in Slot /\ entry[k] = "none" /\ hardRefs[k] = 0 /\ live'[k] /\ calls[i].todo \subseteq refs[k]
           BY <3>1, <2>1, <1>5, <1>6
        <3>3. entry'[k] = "none"
           BY <3>2 DEF Unwinds, KeyUnwinds
        <3>4. hardRefs'[k] = 0
           BY <3>2 DEF Unwinds, KeyUnwinds
        <3> QED BY <3>1, <3>2, <3>3, <3>4, <1>3, <2>1
     <2>2. CASE Fresh(i)
        BY <2>2, <1>7, <1>3
     <2> QED BY <2>1, <2>2, <1>4, <1>8
  <1>9. DeleteInv'
     <2> SUFFICES ASSUME NEW i \in 1..Len(calls'), NEW j \in 1..Len(calls'), calls'[i].fn = "delete",
                         calls'[j].fn = "delete", calls'[i].key = calls'[j].key
                  PROVE  i = j
        BY DEF DeleteInv
     <2>1. CASE Old(i) /\ Old(j)
        BY <2>1 DEF StackInv, DeleteInv
     <2>2. CASE Fresh(i) /\ Fresh(j)
        <3>1. calls'[i] \in D /\ calls'[j] \in D /\ i > n /\ j > n
           BY <2>2
        <3> QED BY <3>1 DEF Unwinds, Stacked
     <2>3. ASSUME NEW a \in 1..Len(calls'), NEW b \in 1..Len(calls'), Old(a), Fresh(b) PROVE calls'[a].key # calls'[b].key
        BY <2>3, <1>5, <1>7
     <2> QED BY <2>1, <2>2, <2>3, <1>4
  <1>10. ASSUME NEW k \in Slot, live'[k] PROVE entry'[k] = "value" \/ hardRefs'[k] > 0 \/ Under("delete", k)'
     <2>1. live[k]
        BY <1>10 DEF Unwinds, KeyUnwinds
     <2>2. CASE entry'[k] # entry[k] \/ hardRefs'[k] # hardRefs[k]
        <3>0. entry[k] # "failed"
           BY <2>1 DEF StackInv, KeyInv
        <3>1. entry'[k] = "value" \/ hardRefs'[k] > 0 \/ \E f \in D : f.key = k
           BY <2>2, <3>0 DEF Unwinds, KeyUnwinds
        <3>2. ASSUME NEW f \in D, f.key = k PROVE Under("delete", k)'
           <4>1. PICK i \in 1..Len(calls') : calls'[i] = f
              BY DEF Unwinds, Stacked
           <4>2. f.fn = "delete"
              BY DEF Unwinds, DeleteBegins
           <4> QED BY <3>2, <4>1, <4>2 DEF Under
        <3> QED BY <3>1, <3>2
     <2>3. CASE entry'[k] = entry[k] /\ hardRefs'[k] = hardRefs[k]
        <3>1. entry[k] = "value" \/ hardRefs[k] > 0 \/ Under("delete", k)
           BY <2>1 DEF StackInv, KeyInv
        <3>2. ASSUME NEW i \in 1..Len(calls), calls[i].fn = "delete", calls[i].key = k PROVE Under("delete", k)'
           <4>1. CASE i <= n
              <5>1. i \in 1..Len(calls') /\ calls'[i] = calls[i]
                 BY <1>1, <4>1 DEF Unwinds, Stacked
              <5> QED BY <3>2, <5>1 DEF Under
           <4>2. CASE i > n
              <5>1. i = n + 1 /\ Len(calls) = n + 1
                 BY <1>1, <4>2 DEF Unwinds
              <5>2. C # {}
                 BY <5>1, <3>2, <1>10 DEF Unwinds
              <5>3. n + 1 \in 1..Len(calls') /\ calls'[n + 1] \in C
                 BY <1>1, <5>2 DEF Unwinds, Stacked
              <5>4. CallerGoesOn(calls'[n + 1], n)
                 BY <5>3 DEF Unwinds
              <5>5. calls[i].fn # "flush" /\ (n = 0 => i = 1)
                 BY <3>2, <5>1
              <5>6. /\ calls'[n + 1].fn = "delete" /\ calls'[n + 1].key = calls[n + 1].key
                 BY <3>2, <5>1, <5>4, <5>5 DEF CallerGoesOn
              <5> QED BY <3>2, <5>1, <5>3, <5>6 DEF Under
           <4> QED BY <1>1, <4>1, <4>2
        <3> QED BY <2>3, <3>1, <3>2 DEF Under
     <2> QED BY <2>2, <2>3
  <1> QED BY <1>8, <1>9, <1>10

-------------------------------------------------------------------------------
(* Such a step keeps what the calls know. *)
LEMMA UnwindInductive ==
  ASSUME StackInv, CountsExact, CompositeTypeOK', PhaseInv', NEW n, NEW C, NEW D, Unwinds(n, C, D)
  PROVE  StackInv'
  <1>1. Len(calls) \in Nat /\ Len(calls') \in Nat /\ n \in 0..Len(calls)
     BY LenProperties DEF StackInv, CompositeTypeOK, Unwinds
  <1>2. Acyclic(refs)'
     BY DEF StackInv, Unwinds
  <1>3. /\ ChainInv' /\ GotInv'
        /\ \A i \in 1..Len(calls') : calls'[i].fn = "create" =>
              /\ phase' = "open" /\ entry'[calls'[i].key] = "progress"
              /\ calls'[i].todo \subseteq refs'[calls'[i].key]
        /\ \A k \in Slot : entry'[k] = "progress" => entry[k] = "progress" /\ Under("create", k)'
     BY CreatesUnwind
  <1>4. /\ DeleteInv'
        /\ \A i \in 1..Len(calls') : calls'[i].fn = "delete" =>
              /\ entry'[calls'[i].key] = "none" /\ hardRefs'[calls'[i].key] = 0
              /\ live'[calls'[i].key] /\ calls'[i].todo \subseteq refs'[calls'[i].key]
        /\ \A k \in Slot : live'[k] => entry'[k] = "value" \/ hardRefs'[k] > 0 \/ Under("delete", k)'
     BY DeletesUnwind
  <1>5. ASSUME NEW i \in 1..Len(calls') PROVE CallInv(i)'
     <2>1. calls'[i].fn = "flush" => i = 1
        <3> HAVE calls'[i].fn = "flush"
        <3>1. CASE i <= n /\ i \in 1..Len(calls) /\ calls'[i] = calls[i]
           BY <3>1 DEF StackInv, CallInv
        <3>2. CASE i = n + 1 /\ CallerGoesOn(calls'[i], n)
           BY <3>2 DEF CallerGoesOn
        <3> QED BY <3>1, <3>2, UnwoundCalls DEF DeleteBegins, Turning
     <2>2. calls'[i].fn = "slice" => calls'[i].evict > 0 /\ calls'[i].visit > 0
        <3> HAVE calls'[i].fn = "slice"
        <3>1. CASE i <= n /\ i \in 1..Len(calls) /\ calls'[i] = calls[i]
           BY <3>1 DEF StackInv, CallInv
        <3>2. CASE Turning(calls'[i])
           BY <3>2 DEF Turning
        <3> QED BY <3>1, <3>2, UnwoundCalls DEF DeleteBegins, CallerGoesOn
     <2> QED BY <2>1, <2>2, <1>3, <1>4 DEF CallInv
  <1>6. ASSUME NEW k \in Slot PROVE KeyInv(k)'
     <2>0. /\ entry[k] \in {"none", "progress", "value", "failed"} /\ hardRefs[k] \in Nat /\ KeyInv(k) /\ KeyUnwinds(k, n, C, D)
        BY <1>6 DEF StackInv, CompositeTypeOK, Unwinds
     <2>1. entry'[k] = "value" \/ hardRefs'[k] > 0 => live'[k]
        <3>1. entry'[k] = "value" => entry[k] = "value"
           BY <2>0 DEF KeyUnwinds
        <3>2. hardRefs'[k] > 0 => hardRefs[k] > 0
           BY <2>0 DEF KeyUnwinds
        <3>3. entry[k] = "value" \/ hardRefs[k] > 0 => live[k]
           BY <2>0 DEF KeyInv
        <3>4. entry[k] = "value" \/ hardRefs[k] > 0 => live'[k] = live[k]
           <4>1. ASSUME n + 1 \in 1..Len(calls), calls[n + 1].fn = "delete", calls[n + 1].key = k
                 PROVE  entry[k] = "none" /\ hardRefs[k] = 0
              BY <4>1 DEF StackInv, CallInv
           <4> QED BY <4>1, <2>0 DEF KeyUnwinds
        <3> QED BY <3>1, <3>2, <3>3, <3>4
     <2>2. live'[k] => entry'[k] = "value" \/ hardRefs'[k] > 0 \/ Under("delete", k)'
        BY <1>4
     <2>3. entry'[k] = "progress" => hardRefs'[k] = 0 /\ ~live'[k] /\ Under("create", k)'
        <3> HAVE entry'[k] = "progress"
        <3>1. entry[k] = "progress" /\ Under("create", k)'
           BY <1>3
        <3>2. hardRefs[k] = 0 /\ ~live[k]
           BY <3>1, <2>0 DEF KeyInv
        <3>3. hardRefs'[k] = 0
           BY <3>2, <2>0 DEF KeyUnwinds
        <3>4. ~live'[k]
           BY <3>2, <2>0 DEF KeyUnwinds
        <3> QED BY <3>1, <3>3, <3>4
     <2>5. entry'[k] = "failed" => hardRefs'[k] = 0 /\ ~live'[k]
        <3> HAVE entry'[k] = "failed"
        <3>1. hardRefs[k] = 0 /\ ~live[k]
           BY <2>0 DEF KeyInv, KeyUnwinds
        <3> QED BY <3>1, <2>0 DEF KeyUnwinds
     <2>4. phase' = "open" /\ hardRefs'[k] > 0 => entry'[k] = "value"
        <3> HAVE phase' = "open" /\ hardRefs'[k] > 0
        <3>1. phase = "open" /\ hardRefs[k] > 0 /\ phase # "closing" /\ hardRefs[k] # 0
           BY <2>0 DEF Unwinds, KeyUnwinds
        <3>2. entry[k] = "value"
           BY <3>1, <2>0 DEF KeyInv
        <3> QED BY <3>1, <3>2, <2>0 DEF KeyUnwinds
     <2> QED BY <2>1, <2>2, <2>3, <2>4, <2>5 DEF KeyInv
  <1> QED BY <1>2, <1>3, <1>4, <1>5, <1>6 DEF StackInv

(* What values refer to, in the next state as well. *)
RefsAre ==
  /\ \A i \in 1..Len(calls) : calls[i].fn = "create" =>
        RefsOf(calls[i].key) = {r \in refs[calls[i].key] \ calls[i].todo : entry[r] = "value"}
  /\ \A i \in 1..Len(calls) : calls[i].fn = "delete" => RefsOf(calls[i].key) = calls[i].todo
  /\ \A j \in Slot : ~Under("create", j) /\ ~Under("delete", j)
        => RefsOf(j) = IF live[j] THEN refs[j] ELSE {}

LEMMA RefsAreThese == StackInv => RefsAre
  <1> SUFFICES ASSUME StackInv PROVE RefsAre
     OBVIOUS
  <1>1. ASSUME NEW i \in 1..Len(calls), calls[i].fn = "create"
        PROVE  RefsOf(calls[i].key) = {r \in refs[calls[i].key] \ calls[i].todo : entry[r] = "value"}
     BY <1>1, CreateRefs
  <1>2. ASSUME NEW i \in 1..Len(calls), calls[i].fn = "delete" PROVE RefsOf(calls[i].key) = calls[i].todo
     BY <1>2, DeleteRefs
  <1>3. ASSUME NEW j \in Slot, ~Under("create", j), ~Under("delete", j)
        PROVE  RefsOf(j) = IF live[j] THEN refs[j] ELSE {}
     BY <1>3, OtherRefs
  <1> QED BY <1>1, <1>2, <1>3 DEF RefsAre

(* And it leaves what a value refers to, but for the value in the destructor *)
(* at the top, which has what is still to be released.                       *)
RefsUnwound(j, n, C) ==
  IF n + 1 \in 1..Len(calls) /\ calls[n + 1].fn = "delete" /\ calls[n + 1].key = j
  THEN /\ RefsOf(j) = calls[n + 1].todo
       /\ C = {} => RefsOf(j)' = {}
       /\ C # {} => RefsOf(j)' = calls'[n + 1].todo
  ELSE RefsOf(j)' = RefsOf(j)

LEMMA UnwindRefs ==
  ASSUME StackInv, StackInv', CountsExact, NEW n, NEW C, NEW D, Unwinds(n, C, D), NEW j \in Slot
  PROVE  RefsUnwound(j, n, C)
  <1>0. CompositeTypeOK' /\ CompositeTypeOK
     BY DEF StackInv
  <1>1. Len(calls) \in Nat /\ Len(calls') \in Nat /\ n \in 0..Len(calls) /\ n <= Len(calls') /\ n \in Nat
     BY <1>0, LenProperties DEF CompositeTypeOK, Unwinds, Stacked
  <1>2. refs' = refs
     BY DEF Unwinds
  <1>r. RefsAre'
     BY RefsAreThese, PTL
  <1>3. ASSUME NEW i \in 1..Len(calls), calls[i].fn = "create", calls[i].key = j PROVE RefsOf(j)' = RefsOf(j)
     <2>1. i <= n
        BY <1>1, <1>3 DEF Unwinds
     <2>2. i \in 1..Len(calls') /\ calls'[i] = calls[i]
        BY <1>1, <2>1 DEF Unwinds, Stacked
     <2>3. PICK T : T = calls[i].todo
        OBVIOUS
     <2>4. RefsOf(j) = {r \in refs[j] \ T : entry[r] = "value"}
        BY <1>3, <2>3, CreateRefs
     <2>5. calls'[i].key = j /\ calls'[i].fn = "create" /\ calls'[i].todo = T
        BY <1>3, <2>2, <2>3
     <2>6. RefsOf(j)' = {r \in refs[j] \ T : entry'[r] = "value"}
        BY <1>2, <1>r, <2>2, <2>5 DEF RefsAre
     <2>7. ASSUME NEW r \in refs[j] \ T PROVE entry'[r] = "value" <=> entry[r] = "value"
        <3>1. r \in Slot
           BY <1>0, <2>7 DEF CompositeTypeOK
        <3>2. phase # "closing"
           BY <1>3 DEF StackInv, CallInv
        <3>3. entry[r] = "value" => hardRefs[r] > 0 /\ hardRefs[r] # 0
           BY <1>3, <2>3, <2>7, GotIsCounted
        <3> QED BY <3>1, <3>2, <3>3 DEF Unwinds, KeyUnwinds
     <2> QED BY <2>4, <2>6, <2>7
  <1>4. ASSUME NEW m \in 1..Len(calls'), calls'[m].fn = "delete", calls'[m].key = j PROVE RefsOf(j)' = calls'[m].todo
     BY <1>r, <1>4 DEF RefsAre
  <1>5. ~Under("create", j)' /\ ~Under("delete", j)' => RefsOf(j)' = IF live'[j] THEN refs[j] ELSE {}
     BY <1>2, <1>r DEF RefsAre
  <1>6. Under("create", j)' => Under("create", j)
     <2>1. ASSUME NEW i \in 1..Len(calls'), calls'[i].fn = "create", calls'[i].key = j PROVE Under("create", j)
        <3>1. calls[i].fn = "create" /\ i \in 1..Len(calls)
           BY <1>0, <2>1, CreatesStay
        <3>2. i <= n
           BY <1>1, <3>1 DEF Unwinds
        <3>3. calls'[i] = calls[i]
           BY <1>1, <3>2 DEF Unwinds, Stacked
        <3> QED BY <2>1, <3>1, <3>3 DEF Under
     <2> QED BY <2>1 DEF Under
  <1>7. ASSUME NEW i \in 1..Len(calls), calls[i].fn = "delete", calls[i].key = j PROVE RefsUnwound(j, n, C)
     <2>1. RefsOf(j) = calls[i].todo /\ live[j]
        BY <1>7, DeleteRefs DEF StackInv, CallInv
     <2>c. ~Under("create", j)
        BY <1>7 DEF Under, StackInv, CallInv
     <2>2. CASE i <= n
        <3>1. i \in 1..Len(calls') /\ calls'[i] = calls[i]
           BY <1>1, <2>2 DEF Unwinds, Stacked
        <3>2. ~(n + 1 \in 1..Len(calls) /\ calls[n + 1].fn = "delete" /\ calls[n + 1].key = j)
           BY <1>1, <1>7, <2>2 DEF StackInv, DeleteInv
        <3>3. RefsOf(j)' = calls[i].todo
           BY <3>1, <1>4, <1>7
        <3> QED BY <3>2, <3>3, <2>1 DEF RefsUnwound
     <2>3. CASE i > n
        <3>1. i = n + 1 /\ Len(calls) = n + 1
           BY <1>1, <2>3 DEF Unwinds
        <3>2. CASE C # {}
           <4>1. n + 1 \in 1..Len(calls') /\ calls'[n + 1] \in C
              BY <1>1, <3>2 DEF Unwinds, Stacked
           <4>2. CallerGoesOn(calls'[n + 1], n)
              BY <4>1 DEF Unwinds
           <4>3. n = 0 => calls[1].fn # "flush"
              BY <3>1, <1>7
           <4>4. calls'[n + 1].fn = "delete" /\ calls'[n + 1].key = calls[n + 1].key
              BY <1>7, <3>1, <4>2, <4>3 DEF CallerGoesOn
           <4>5. RefsOf(j)' = calls'[n + 1].todo
              BY <4>1, <4>4, <3>1, <1>7, <1>4
           <4> QED BY <3>1, <3>2, <4>5, <2>1, <1>7 DEF RefsUnwound
        <3>3. CASE C = {}
           <4>1. ~live'[j]
              BY <3>3, <3>1, <1>7 DEF Unwinds
           <4>2. ~Under("delete", j)'
              BY <4>1 DEF Under, StackInv, CallInv
           <4>3. RefsOf(j)' = {}
              BY <4>1, <4>2, <2>c, <1>5, <1>6
           <4> QED BY <3>1, <3>3, <4>3, <2>1, <1>7 DEF RefsUnwound
        <3> QED BY <3>2, <3>3
     <2> QED BY <1>1, <2>2, <2>3
  <1>8. ASSUME ~Under("create", j), ~Under("delete", j) PROVE RefsOf(j)' = RefsOf(j)
     <2>1. RefsOf(j) = IF live[j] THEN refs[j] ELSE {}
        BY <1>8, OtherRefs
     <2>2. live'[j] = live[j]
        BY <1>8 DEF Unwinds, KeyUnwinds, Under
     <2>3. CASE Under("delete", j)'
        <3>1. PICK i \in 1..Len(calls') : calls'[i].fn = "delete" /\ calls'[i].key = j
           BY <2>3 DEF Under
        <3>2. live'[j] /\ RefsOf(j)' = calls'[i].todo
           BY <3>1, <1>4 DEF StackInv, CallInv
        <3>3. ~(i <= n /\ i \in 1..Len(calls) /\ calls'[i] = calls[i])
           BY <3>1, <1>8 DEF Under
        <3>4. ~CallerGoesOn(calls'[i], n)
           BY <3>1, <1>8 DEF CallerGoesOn, Under
        <3>5. DeleteBegins(calls'[i])
           BY <1>0, <3>1, <3>3, <3>4, UnwoundCalls DEF Turning
        <3> QED BY <3>1, <3>2, <3>5, <2>1, <2>2 DEF DeleteBegins
     <2>4. CASE ~Under("delete", j)'
        BY <2>4, <1>5, <1>6, <1>8, <2>1, <2>2
     <2> QED BY <2>3, <2>4
  <1>9. RefsOf(j)' = RefsOf(j) \/ RefsUnwound(j, n, C)
     BY <1>3, <1>7, <1>8 DEF Under
  <1>10. CASE n + 1 \in 1..Len(calls) /\ calls[n + 1].fn = "delete" /\ calls[n + 1].key = j
     BY <1>7, <1>10
  <1>11. CASE ~(n + 1 \in 1..Len(calls) /\ calls[n + 1].fn = "delete" /\ calls[n + 1].key = j)
     BY <1>9, <1>11 DEF RefsUnwound
  <1> QED BY <1>10, <1>11

-------------------------------------------------------------------------------
(* Counts.  A set of slots with one more or one less. *)
LEMMA OneMore ==
  ASSUME NEW S \in SUBSET Slot, NEW x \in Slot, x \notin S
  PROVE  /\ Cardinality(S) \in Nat /\ S \cup {x} \in SUBSET Slot
         /\ Cardinality(S \cup {x}) = Cardinality(S) + 1
  <1>1. IsFiniteSet(S) /\ Cardinality(S) \in Nat
     BY SlotsFinite
  <1> QED BY <1>1, FS_AddElement

LEMMA OneLess ==
  ASSUME NEW S \in SUBSET Slot, NEW x \in S
  PROVE  /\ Cardinality(S) \in Nat /\ S \ {x} \in SUBSET Slot /\ Cardinality(S \ {x}) \in Nat
         /\ Cardinality(S \ {x}) = Cardinality(S) - 1
  <1>1. IsFiniteSet(S) /\ Cardinality(S) \in Nat /\ IsFiniteSet(S \ {x}) /\ Cardinality(S \ {x}) \in Nat
     BY SlotsFinite
  <1> QED BY <1>1, FS_RemoveElement

(* Who refers to k from where. *)
RefsSame == \A j \in Slot : RefsOf(j)' = RefsOf(j)
RefGone(k) ==
  \/ k \in heldSlots /\ heldSlots' = heldSlots \ {k} /\ RefsSame
  \/ /\ heldSlots' = heldSlots
     /\ \E j \in Slot : /\ k \in RefsOf(j) /\ RefsOf(j)' = RefsOf(j) \ {k}
                        /\ \A i \in Slot : i # j => RefsOf(i)' = RefsOf(i)
RefCome(k) ==
  \/ k \in Slot \ heldSlots /\ heldSlots' = heldSlots \cup {k} /\ RefsSame
  \/ /\ heldSlots' = heldSlots
     /\ \E j \in Slot : /\ k \notin RefsOf(j) /\ RefsOf(j)' = RefsOf(j) \cup {k}
                        /\ \A i \in Slot : i # j => RefsOf(i)' = RefsOf(i)

LEMMA CountsStay ==
  ASSUME CountsExact, RefsSame, heldSlots' = heldSlots, hardRefs' = hardRefs, slotItems' = slotItems
  PROVE  CountsExact'
  <1>1. ASSUME NEW k \in Slot PROVE Referrers(k)' = Referrers(k)
     BY DEF Referrers, RefsSame
  <1>2. {k \in Slot : hardRefs'[k] > 0} = {k \in Slot : hardRefs[k] > 0}
     OBVIOUS
  <1> QED BY <1>1, <1>2 DEF CountsExact

LEMMA CountsFall ==
  ASSUME CompositeTypeOK, CountsExact, NEW k \in Slot, RefGone(k),
         hardRefs' = [hardRefs EXCEPT ![k] = @ - 1],
         slotItems' = slotItems - (IF hardRefs[k] = 1 THEN 1 ELSE 0)
  PROVE  CountsExact' /\ hardRefs[k] > 0
  <1> DEFINE Held(i) == IF i \in heldSlots THEN 1 ELSE 0
             Used == {i \in Slot : hardRefs[i] > 0}
  <1>0. hardRefs \in [Slot -> Nat] /\ slotItems \in Int
     BY DEF CompositeTypeOK
  <1>c. \A i \in Slot : hardRefs[i] = Cardinality(Referrers(i)) + Held(i)
     BY DEF CountsExact
  <1>r. \A i \in Slot : Referrers(i) \in SUBSET Slot /\ Cardinality(Referrers(i)) \in Nat
     BY SlotsFinite DEF Referrers
  <1>1. ASSUME NEW i \in Slot, i # k
        PROVE  Referrers(i)' = Referrers(i) /\ (i \in heldSlots' <=> i \in heldSlots)
     BY <1>1 DEF Referrers, RefGone, RefsSame
  <1>2. hardRefs[k] - 1 = Cardinality(Referrers(k)') + (IF k \in heldSlots' THEN 1 ELSE 0)
     <2>1. CASE k \in heldSlots /\ heldSlots' = heldSlots \ {k} /\ RefsSame
        <3>1. Referrers(k)' = Referrers(k)
           BY <2>1 DEF Referrers, RefsSame
        <3>2. hardRefs[k] = Cardinality(Referrers(k)) + 1
           BY <2>1, <1>c
        <3> QED BY <3>1, <3>2, <2>1, <1>r
     <2>2. CASE /\ heldSlots' = heldSlots
                /\ \E j \in Slot : /\ k \in RefsOf(j) /\ RefsOf(j)' = RefsOf(j) \ {k}
                                   /\ \A i \in Slot : i # j => RefsOf(i)' = RefsOf(i)
        <3>1. PICK j \in Slot : /\ k \in RefsOf(j) /\ RefsOf(j)' = RefsOf(j) \ {k}
                                /\ \A i \in Slot : i # j => RefsOf(i)' = RefsOf(i)
           BY <2>2
        <3>2. j \in Referrers(k) /\ Referrers(k)' = Referrers(k) \ {j}
           BY <3>1 DEF Referrers
        <3>3. Cardinality(Referrers(k)') = Cardinality(Referrers(k)) - 1
           BY <3>2, <1>r, OneLess
        <3> QED BY <3>3, <2>2, <1>c, <1>r
     <2> QED BY <2>1, <2>2 DEF RefGone
  <1>3. hardRefs[k] > 0
     <2>1. Referrers(k)' \in SUBSET Slot
        BY DEF Referrers
     <2>2. Cardinality(Referrers(k)') \in Nat
        BY <2>1, SlotsFinite
     <2> QED BY <1>0, <1>2, <2>2
  <1>4. \A i \in Slot : hardRefs'[i] = Cardinality(Referrers(i)') + (IF i \in heldSlots' THEN 1 ELSE 0)
     <2> SUFFICES ASSUME NEW i \in Slot
                  PROVE  hardRefs'[i] = Cardinality(Referrers(i)') + (IF i \in heldSlots' THEN 1 ELSE 0)
        OBVIOUS
     <2>1. CASE i = k
        BY <2>1, <1>2, <1>0
     <2>2. CASE i # k
        BY <2>2, <1>1, <1>0, <1>c
     <2> QED BY <2>1, <2>2
  <1>5. slotItems' = Cardinality({i \in Slot : hardRefs'[i] > 0})
     <2>1. slotItems = Cardinality(Used)
        BY DEF CountsExact
     <2>2. CASE hardRefs[k] = 1
        <3>1. {i \in Slot : hardRefs'[i] > 0} = Used \ {k}
           BY <1>0, <2>2
        <3>2. Used \in SUBSET Slot /\ k \in Used
           BY <1>3
        <3> HIDE DEF Used
        <3>3. Cardinality(Used \ {k}) = Cardinality(Used) - 1
           BY <3>2, OneLess
        <3> QED BY <2>1, <2>2, <3>1, <3>3
     <2>3. CASE hardRefs[k] # 1
        <3>1. {i \in Slot : hardRefs'[i] > 0} = Used
           BY <1>0, <1>3, <2>3
        <3> HIDE DEF Used
        <3>2. slotItems' = slotItems
           BY <2>3, <1>0
        <3> QED BY <2>1, <3>1, <3>2
     <2> QED BY <2>2, <2>3
  <1> QED BY <1>3, <1>4, <1>5 DEF CountsExact

LEMMA CountsRise ==
  ASSUME CompositeTypeOK, CountsExact, NEW k \in Slot, RefCome(k),
         hardRefs' = [hardRefs EXCEPT ![k] = @ + 1],
         slotItems' = slotItems + (IF hardRefs[k] = 0 THEN 1 ELSE 0)
  PROVE  CountsExact'
  <1> DEFINE Held(i) == IF i \in heldSlots THEN 1 ELSE 0
             Used == {i \in Slot : hardRefs[i] > 0}
  <1>0. hardRefs \in [Slot -> Nat] /\ slotItems \in Int
     BY DEF CompositeTypeOK
  <1>c. \A i \in Slot : hardRefs[i] = Cardinality(Referrers(i)) + Held(i)
     BY DEF CountsExact
  <1>r. \A i \in Slot : Referrers(i) \in SUBSET Slot /\ Cardinality(Referrers(i)) \in Nat
     BY SlotsFinite DEF Referrers
  <1>1. ASSUME NEW i \in Slot, i # k
        PROVE  Referrers(i)' = Referrers(i) /\ (i \in heldSlots' <=> i \in heldSlots)
     BY <1>1 DEF Referrers, RefCome, RefsSame
  <1>2. hardRefs[k] + 1 = Cardinality(Referrers(k)') + (IF k \in heldSlots' THEN 1 ELSE 0)
     <2>1. CASE k \in Slot \ heldSlots /\ heldSlots' = heldSlots \cup {k} /\ RefsSame
        <3>1. Referrers(k)' = Referrers(k)
           BY <2>1 DEF Referrers, RefsSame
        <3>2. hardRefs[k] = Cardinality(Referrers(k)) + 0 /\ k \in heldSlots'
           BY <2>1, <1>c
        <3> QED BY <3>1, <3>2, <1>r
     <2>2. CASE /\ heldSlots' = heldSlots
                /\ \E j \in Slot : /\ k \notin RefsOf(j) /\ RefsOf(j)' = RefsOf(j) \cup {k}
                                   /\ \A i \in Slot : i # j => RefsOf(i)' = RefsOf(i)
        <3>1. PICK j \in Slot : /\ k \notin RefsOf(j) /\ RefsOf(j)' = RefsOf(j) \cup {k}
                                /\ \A i \in Slot : i # j => RefsOf(i)' = RefsOf(i)
           BY <2>2
        <3>2. j \notin Referrers(k) /\ Referrers(k)' = Referrers(k) \cup {j}
           BY <3>1 DEF Referrers
        <3>3. Cardinality(Referrers(k)') = Cardinality(Referrers(k)) + 1
           BY <3>2, <1>r, OneMore
        <3> QED BY <3>3, <2>2, <1>c, <1>r
     <2> QED BY <2>1, <2>2 DEF RefCome
  <1>4. \A i \in Slot : hardRefs'[i] = Cardinality(Referrers(i)') + (IF i \in heldSlots' THEN 1 ELSE 0)
     <2> SUFFICES ASSUME NEW i \in Slot
                  PROVE  hardRefs'[i] = Cardinality(Referrers(i)') + (IF i \in heldSlots' THEN 1 ELSE 0)
        OBVIOUS
     <2>1. CASE i = k
        BY <2>1, <1>2, <1>0
     <2>2. CASE i # k
        BY <2>2, <1>1, <1>0, <1>c
     <2> QED BY <2>1, <2>2
  <1>5. slotItems' = Cardinality({i \in Slot : hardRefs'[i] > 0})
     <2>1. slotItems = Cardinality(Used)
        BY DEF CountsExact
     <2>2. CASE hardRefs[k] = 0
        <3>1. {i \in Slot : hardRefs'[i] > 0} = Used \cup {k}
           BY <1>0, <2>2
        <3>2. Used \in SUBSET Slot /\ k \notin Used
           BY <2>2
        <3> HIDE DEF Used
        <3>3. Cardinality(Used \cup {k}) = Cardinality(Used) + 1
           BY <3>2, OneMore
        <3> QED BY <2>1, <2>2, <3>1, <3>3
     <2>3. CASE hardRefs[k] # 0
        <3>1. {i \in Slot : hardRefs'[i] > 0} = Used
           BY <1>0, <2>3
        <3> HIDE DEF Used
        <3> QED BY <2>1, <2>3, <3>1, <1>0
     <2> QED BY <2>2, <2>3
  <1> QED BY <1>4, <1>5 DEF CountsExact

-------------------------------------------------------------------------------
(* The steps. *)
StackAndCounts == StackInv /\ CountsExact

(* The stack as the steps see it. *)
LEMMA TheTop ==
  ASSUME StackInv, NEW fn, In(fn)
  PROVE  /\ calls # <<>> /\ Len(calls) \in Nat \ {0} /\ Len(calls) \in 1..Len(calls)
         /\ Top = calls[Len(calls)] /\ Top \in Frame /\ Top.fn = fn
         /\ Len(calls) - 1 \in Nat /\ Len(calls) - 1 \in 0..Len(calls)
         /\ Len(calls) - 1 + 1 = Len(calls)
  BY StackParts DEF StackInv, CompositeTypeOK, In, Top

LEMMA IdleIs ==
  ASSUME StackInv, Idle
  PROVE  /\ Len(calls) = 0 /\ phase = "open" /\ calls = <<>>
         /\ \A k \in Slot : /\ entry[k] # "progress" /\ (hardRefs[k] > 0 => entry[k] = "value")
                            /\ (live[k] => entry[k] = "value")
  <1>1. Len(calls) = 0 /\ phase = "open" /\ calls = <<>>
     BY EmptySeq DEF Idle
  <1>2. \A k \in Slot : ~Under("create", k) /\ ~Under("delete", k)
     BY <1>1 DEF Under
  <1> QED BY <1>1, <1>2 DEF StackInv, KeyInv

(* The cache opens, closes and flushes only between other calls. *)
LEMMA PhaseUnwinds ==
  ASSUME StackInv, CompositeTypeOK', NEW n, NEW C, NEW D, Unwinds(n, C, D), phase' = phase,
         \/ Len(calls) = n + 1 /\ (n = 0 => calls[1].fn # "flush")
         \/ Len(calls) = 0 /\ C = {} /\ phase = "open"
  PROVE  PhaseInv'
  <1>1. Len(calls) \in Nat /\ Len(calls') \in Nat /\ n \in Nat /\ n <= Len(calls')
     BY LenProperties DEF StackInv, CompositeTypeOK, Unwinds, Stacked
  <1>2. CASE n > 0
     <2>0. PICK l \in Nat : l = Len(calls) /\ l > 1 /\ Len(calls') > 0
        <3>1. Len(calls) = n + 1
           BY <1>1, <1>2 DEF Unwinds
        <3> QED BY <3>1, <1>1, <1>2
     <2>1. calls'[1] = calls[1]
        BY <1>1, <1>2 DEF Unwinds, Stacked
     <2>2. /\ phase = "closing" => calls[1].fn = "flush"
           /\ phase # "closed"
           /\ calls[1].fn = "flush" => (calls[1].all => phase = "closing") /\ (calls[1].result \/ calls[1].all)
        <3>1. PhaseInv
           BY DEF StackInv
        <3>2. Len(calls) > 0 /\ ~(Len(calls) = 0) /\ ~(Len(calls) = 1)
           BY <2>0
        <3> QED BY <3>1, <3>2 DEF PhaseInv
     <2>3. phase' = phase
        OBVIOUS
     <2>4. ~(Len(calls') = 0) /\ Len(calls') > 0
        BY <2>0
     <2> QED BY <2>1, <2>2, <2>3, <2>4 DEF PhaseInv
  <1>3. CASE n = 0
     <2>1. ASSUME Len(calls') > 0 PROVE calls'[1].fn # "flush"
        <3>1. 1 \in 1..Len(calls')
           BY <2>1, <1>1
        <3>2. \/ calls'[1] \in C /\ CallerGoesOn(calls'[1], n)
              \/ DeleteBegins(calls'[1]) \/ Turning(calls'[1])
           BY <3>1, <1>3, UnwoundCalls
        <3>3. ASSUME calls'[1] \in C, CallerGoesOn(calls'[1], n) PROVE calls'[1].fn # "flush"
           BY <3>3, <1>1, <1>3 DEF CallerGoesOn
        <3> QED BY <3>2, <3>3 DEF DeleteBegins, Turning
     <2>2. phase # "closing" /\ phase # "closed"
        BY <1>1, <1>3 DEF StackInv, PhaseInv
     <2>3. phase' # "closing" /\ phase' # "closed"
        BY <2>2
     <2> QED BY <2>1, <2>3 DEF PhaseInv
  <1> QED BY <1>1, <1>2, <1>3

(* Such a step is in no flush, or the flush goes on below it. *)
BaseStays ==
  /\ phase' # "closed"
  /\ \/ ~(Len(calls') > 0 /\ calls'[1].fn = "flush")
     \/ Len(calls) > 1 /\ calls'[1] = calls[1] /\ Table' \subseteq Table

LEMMA BaseUnwinds ==
  ASSUME StackInv, CompositeTypeOK', NEW n, NEW C, NEW D, Unwinds(n, C, D), phase' = phase,
         \/ Len(calls) = n + 1 /\ (n = 0 => calls[1].fn # "flush")
         \/ Len(calls) = 0 /\ C = {} /\ phase = "open"
  PROVE  BaseStays
  <1>1. Len(calls) \in Nat /\ Len(calls') \in Nat /\ n \in Nat /\ n <= Len(calls')
     BY LenProperties DEF StackInv, CompositeTypeOK, Unwinds, Stacked
  <1>c. phase' # "closed"
     <2>1. Len(calls) # 0 \/ phase = "open"
        BY <1>1
     <2> QED BY <2>1 DEF StackInv, PhaseInv
  <1>2. CASE n > 0
     <2>1. calls'[1] = calls[1] /\ Len(calls) > 1
        BY <1>1, <1>2 DEF Unwinds, Stacked
     <2>2. Table' \subseteq Table
        BY DEF Table, Unwinds, KeyUnwinds
     <2> QED BY <2>1, <2>2, <1>c DEF BaseStays
  <1>3. CASE n = 0
     <2>1. ASSUME Len(calls') > 0 PROVE calls'[1].fn # "flush"
        <3>1. 1 \in 1..Len(calls')
           BY <2>1, <1>1
        <3>2. \/ calls'[1] \in C /\ CallerGoesOn(calls'[1], n)
              \/ DeleteBegins(calls'[1]) \/ Turning(calls'[1])
           BY <3>1, <1>3, UnwoundCalls
        <3>3. ASSUME calls'[1] \in C, CallerGoesOn(calls'[1], n) PROVE calls'[1].fn # "flush"
           BY <3>3, <1>1, <1>3 DEF CallerGoesOn
        <3> QED BY <3>2, <3>3 DEF DeleteBegins, Turning
     <2> QED BY <2>1, <1>c DEF BaseStays
  <1> QED BY <1>1, <1>2, <1>3

(* A step that leaves the values, the references and the calls. *)
LEMMA StackUnchanged ==
  ASSUME StackAndCounts, CompositeTypeOK',
         UNCHANGED <<refs, entry, slotItems, hardRefs, live, heldSlots, calls, phase>>
  PROVE  StackAndCounts'
  <1>1. /\ refs' = refs /\ entry' = entry /\ slotItems' = slotItems /\ hardRefs' = hardRefs /\ live' = live
        /\ heldSlots' = heldSlots /\ calls' = calls /\ phase' = phase
     OBVIOUS
  <1>2. Acyclic(refs)' /\ ChainInv' /\ GotInv' /\ DeleteInv' /\ PhaseInv'
     BY <1>1 DEF StackAndCounts, StackInv, ChainInv, GotInv, DeleteInv, PhaseInv
  <1>3. \A i \in 1..Len(calls') : CallInv(i)'
     BY <1>1 DEF StackAndCounts, StackInv, CallInv
  <1>4. \A k \in Slot : KeyInv(k)'
     BY <1>1 DEF StackAndCounts, StackInv, KeyInv, Under
  <1>5. \A j \in Slot : RefsOf(j)' = RefsOf(j)
     BY <1>1 DEF RefsOf, Frames
  <1>6. CountsExact'
     BY <1>1, <1>5, CountsStay DEF RefsSame, StackAndCounts
  <1> QED BY <1>2, <1>3, <1>4, <1>6 DEF StackAndCounts, StackInv

(* What is left is what the step does to the stack, the table, the counts.   *)
LEMMA Unwound ==
  ASSUME StackAndCounts, CompositeTypeOK', PhaseInv', NEW n, NEW C, NEW D, Unwinds(n, C, D)
  PROVE  /\ StackInv'
         /\ \A j \in Slot : RefsUnwound(j, n, C)
         /\ (\A i \in 1..Len(calls) : i = n + 1 => calls[i].fn # "delete") => RefsSame
  <1>1. StackInv'
     BY UnwindInductive DEF StackAndCounts
  <1>2. ASSUME NEW j \in Slot PROVE RefsUnwound(j, n, C)
     BY <1>1, UnwindRefs DEF StackAndCounts
  <1>3. ASSUME \A i \in 1..Len(calls) : i = n + 1 => calls[i].fn # "delete", NEW j \in Slot PROVE RefsOf(j)' = RefsOf(j)
     BY <1>2, <1>3 DEF RefsUnwound
  <1> QED BY <1>1, <1>2, <1>3 DEF RefsSame

(* What removeRef puts on the stack. *)
LEMMA ReleaseCalls ==
  ASSUME CompositeTypeOK, NEW k \in Slot
  PROVE  LET inUse == slotItems - (IF hardRefs[k] = 1 THEN 1 ELSE 0)
             slice == IF hardRefs[k] = 1 THEN Slice(Table, inUse) ELSE <<>>
         IN  /\ inUse \in Int /\ slice \in Seq(Frame) /\ Len(slice) \in {0, 1}
             /\ Len(slice) = 1 => Turning(slice[1])
  <1> DEFINE inUse == slotItems - (IF hardRefs[k] = 1 THEN 1 ELSE 0)
  <1>1. inUse \in Int
     BY DEF CompositeTypeOK
  <1> HIDE DEF inUse
  <1>2. /\ Slice(Table, inUse) \in Seq(Frame) /\ Len(Slice(Table, inUse)) \in {0, 1}
        /\ Len(Slice(Table, inUse)) = 1 => Turning(Slice(Table, inUse)[1])
     BY <1>1, SliceIs
  <1>3. <<>> \in Seq(Frame) /\ Len(<<>>) = 0
     BY EmptySeq
  <1> QED BY <1>1, <1>2, <1>3 DEF inUse

LEMMA ClientReleasesKeeps ==
  ASSUME StackAndCounts, NEW k \in Slot, ClientReleases(k)
  PROVE  StackAndCounts' /\ BaseStays
  <1>1. /\ Idle /\ k \in heldSlots /\ heldSlots' = heldSlots \ {k} /\ RemoveHardRef(k, <<>>)
        /\ UNCHANGED <<refs, unused, entry, evictPos, live, phase, crashed>>
     BY DEF ClientReleases
  <1>t. CompositeTypeOK /\ StackInv /\ CountsExact
     BY DEF StackAndCounts, StackInv
  <1>2. /\ Len(calls) = 0 /\ phase = "open" /\ calls = <<>>
        /\ \A i \in Slot : hardRefs[i] > 0 => entry[i] = "value"
     BY <1>1, <1>t, IdleIs
  <1>3. hardRefs[k] > 0 /\ entry[k] = "value" /\ hardRefs[k] \in Nat
     BY <1>1, <1>2, <1>t, Referred DEF CompositeTypeOK
  <1>4. PICK inUse : inUse = slotItems - (IF hardRefs[k] = 1 THEN 1 ELSE 0)
     OBVIOUS
  <1>5. PICK slice : slice = IF hardRefs[k] = 1 THEN Slice(Table, inUse) ELSE <<>>
     OBVIOUS
  <1>6. inUse \in Int /\ slice \in Seq(Frame) /\ Len(slice) \in {0, 1} /\ (Len(slice) = 1 => Turning(slice[1]))
     BY <1>4, <1>5, <1>t, ReleaseCalls
  <1>7. hardRefs' = [hardRefs EXCEPT ![k] = @ - 1] /\ slotItems' = inUse /\ calls' = slice
     <2>1. hardRefs' = [hardRefs EXCEPT ![k] = @ - 1] /\ slotItems' = inUse
        BY <1>1, <1>4 DEF RemoveHardRef
     <2>2. calls' = <<>> \o <<>> \o slice
        BY <1>1, <1>3, <1>4, <1>5 DEF RemoveHardRef
     <2> QED BY <2>1, <2>2, <1>6, ConcatEmptySeq, EmptySeq
  <1>8. CompositeTypeOK'
     BY <1>1, <1>3, <1>6, <1>7, <1>t DEF CompositeTypeOK
  <1>9. PICK n, C : n = 0 /\ C = {}
     OBVIOUS
  <1>10. Unwinds(n, C, C)
     <2>1. Stacked(slice, <<>>, 0, {}, {})
        BY <1>6, StackedFromNothing
     <2>2. Stacked(calls', calls, n, C, C)
        BY <2>1, <1>2, <1>7, <1>9
     <2>3. ASSUME NEW i \in Slot PROVE KeyUnwinds(i, n, C, C)
        BY <1>1, <1>3, <1>7, <1>t DEF KeyUnwinds, CompositeTypeOK
     <2>4. n \in 0..Len(calls) /\ Len(calls) <= n + 1 /\ Len(calls) # n + 1
        BY <1>2, <1>9
     <2> QED BY <2>2, <2>3, <2>4, <1>1, <1>9 DEF Unwinds
  <1>11. PhaseInv'
     BY <1>10, <1>1, <1>2, <1>8, <1>9, <1>t, PhaseUnwinds
  <1>12. StackInv' /\ RefsSame
     BY <1>2, <1>8, <1>10, <1>11, Unwound
  <1>13. RefGone(k)
     BY <1>1, <1>12 DEF RefGone
  <1>14. CountsExact'
     BY <1>4, <1>7, <1>13, <1>t, CountsFall
  <1>15. BaseStays
     BY <1>10, <1>1, <1>2, <1>8, <1>9, <1>t, BaseUnwinds
  <1> QED BY <1>12, <1>14, <1>15 DEF StackAndCounts

LEMMA DeleteReleasesKeeps ==
  ASSUME StackAndCounts, NEW r \in Slot, DeleteReleases(r)
  PROVE  StackAndCounts' /\ BaseStays
  <1>1. /\ In("delete") /\ r \in Top.todo
        /\ RemoveHardRef(r, Append(Front(calls), [Top EXCEPT !.todo = @ \ {r}]))
        /\ UNCHANGED <<refs, unused, entry, evictPos, live, heldSlots, phase, crashed>>
     BY DEF DeleteReleases
  <1>t. CompositeTypeOK /\ StackInv /\ CountsExact
     BY DEF StackAndCounts, StackInv
  <1>2. PICK n \in Nat : n = Len(calls) - 1
     BY <1>1, <1>t, TheTop
  <1>3. /\ calls # <<>> /\ n + 1 = Len(calls) /\ n + 1 \in 1..Len(calls) /\ n \in 0..Len(calls)
        /\ Top = calls[n + 1] /\ Top \in Frame /\ Top.fn = "delete"
     BY <1>1, <1>2, <1>t, TheTop
  <1>4. PICK j \in Slot : j = Top.key
     BY <1>3, FrameIs
  <1>5. RefsOf(j) = Top.todo /\ hardRefs[j] = 0 /\ entry[j] = "none"
     <2>1. RefsOf(calls[n + 1].key) = calls[n + 1].todo
        BY <1>3, <1>t, DeleteRefs
     <2>2. CallInv(n + 1)
        BY <1>3, <1>t DEF StackInv
     <2> QED BY <2>1, <2>2, <1>3, <1>4 DEF CallInv
  <1>6. hardRefs[r] > 0 /\ r # j /\ hardRefs[r] \in Nat
     BY <1>1, <1>5, <1>t, Referred DEF CompositeTypeOK
  <1>7. PICK f : f = [Top EXCEPT !.todo = @ \ {r}]
     OBVIOUS
  <1>8. f \in Frame /\ f.fn = "delete" /\ f.key = j /\ f.todo = Top.todo \ {r}
     BY <1>3, <1>4, <1>7, LessTodo
  <1>9. PICK inUse : inUse = slotItems - (IF hardRefs[r] = 1 THEN 1 ELSE 0)
     OBVIOUS
  <1>10. PICK slice : slice = IF hardRefs[r] = 1 THEN Slice(Table, inUse) ELSE <<>>
     OBVIOUS
  <1>11. inUse \in Int /\ slice \in Seq(Frame) /\ Len(slice) \in {0, 1} /\ (Len(slice) = 1 => Turning(slice[1]))
     BY <1>9, <1>10, <1>t, ReleaseCalls
  <1>12. PICK x : x = IF hardRefs[r] = 1 /\ entry[r] = "none" THEN <<Destroy(r)>> ELSE <<>>
     OBVIOUS
  <1>13. PICK D : D = IF hardRefs[r] = 1 /\ entry[r] = "none" THEN {Destroy(r)} ELSE {}
     OBVIOUS
  <1>14. PICK C : C = {f}
     OBVIOUS
  <1>15. Holds(x, D) /\ \A g \in D : g = Destroy(r) /\ hardRefs[r] = 1 /\ entry[r] = "none"
     <2>1. Destroy(r) \in Frame
        BY <1>t, DestroyIs
     <2>2. Holds(<<Destroy(r)>>, {Destroy(r)}) /\ Holds(<<>>, {})
        BY <2>1, EmptySeq DEF Holds
     <2> QED BY <2>2, <1>12, <1>13
  <1>16. /\ Destroy(r).fn = "delete" /\ Destroy(r).key = r /\ Destroy(r).todo = refs[r]
     BY <1>t, DestroyIs
  <1>17. hardRefs' = [hardRefs EXCEPT ![r] = @ - 1] /\ slotItems' = inUse
     BY <1>1, <1>9 DEF RemoveHardRef
  <1>18. calls' = Append(Front(calls), f) \o x \o slice
     BY <1>1, <1>7, <1>9, <1>10, <1>12 DEF RemoveHardRef
  <1>19. Stacked(calls', calls, n, C, D)
     <2>1. f \notin D /\ ~Turning(f) /\ \A g \in D : ~Turning(g)
        BY <1>6, <1>8, <1>15, <1>16 DEF Turning
     <2>2. calls \in Seq(Frame)
        BY <1>t DEF CompositeTypeOK
     <2>3. Stacked(Append(Front(calls), f) \o x \o slice, calls, Len(calls) - 1, {f}, D)
        BY <2>1, <2>2, <1>3, <1>8, <1>11, <1>15, StackedOnTop
     <2> QED BY <2>3, <1>2, <1>14, <1>18
  <1>20. CompositeTypeOK'
     <2>1. calls' \in Seq(Frame)
        BY <1>19 DEF Stacked
     <2> QED BY <2>1, <1>1, <1>6, <1>11, <1>17, <1>t DEF CompositeTypeOK
  <1>21. Unwinds(n, C, D)
     <2>1. \A g \in C : CallerGoesOn(g, n)
        <3>1. CallerGoesOn(f, n)
           BY <1>3, <1>4, <1>8 DEF CallerGoesOn
        <3> QED BY <3>1, <1>14
     <2>2. \A g \in D : DeleteBegins(g)
        BY <1>1, <1>6, <1>15, <1>16, <1>17, <1>t DEF DeleteBegins, CompositeTypeOK
     <2>3. ASSUME NEW i \in Slot PROVE KeyUnwinds(i, n, C, D)
        <3>1. CASE i # r
           <4>1. hardRefs'[i] = hardRefs[i] /\ entry'[i] = entry[i] /\ live'[i] = live[i]
              BY <3>1, <1>1, <1>17, <1>t DEF CompositeTypeOK
           <4> QED BY <4>1 DEF KeyUnwinds
        <3>2. CASE i = r
           <4>1. hardRefs'[r] = hardRefs[r] - 1 /\ entry'[r] = entry[r] /\ live'[r] = live[r]
              BY <1>1, <1>17, <1>t DEF CompositeTypeOK
           <4>2. entry[r] \in {"none", "value"}
              <5>1. KeyInv(r) /\ entry[r] \in {"none", "progress", "value", "failed"}
                 BY <1>t DEF CompositeTypeOK, StackInv
              <5> QED BY <5>1, <1>6 DEF KeyInv
           <4>3. hardRefs[r] = 1 /\ entry[r] = "none" => \E g \in D : g.key = r
              BY <1>13, <1>16
           <4>4. entry'[r] = "value" \/ hardRefs'[r] > 0 \/ \E g \in D : g.key = r
              BY <4>1, <4>2, <4>3, <1>6
           <4> QED BY <3>2, <4>1, <4>4, <1>6 DEF KeyUnwinds
        <3> QED BY <3>1, <3>2
     <2>4. \A g, h \in D : g = h
        BY <1>15
     <2>5. C # {} /\ calls[n + 1].fn # "create"
        BY <1>3, <1>14
     <2> QED BY <2>1, <2>2, <2>3, <2>4, <2>5, <1>1, <1>3, <1>19 DEF Unwinds
  <1>22. PhaseInv'
     BY <1>1, <1>3, <1>20, <1>21, <1>t, PhaseUnwinds
  <1>23. StackInv' /\ \A i \in Slot : RefsUnwound(i, n, C)
     BY <1>20, <1>21, <1>22, Unwound
  <1>24. RefGone(r)
     <2>1. calls'[n + 1] = f
        BY <1>14, <1>19 DEF Stacked
     <2>2. RefsOf(j)' = RefsOf(j) \ {r}
        BY <2>1, <1>3, <1>4, <1>5, <1>8, <1>14, <1>23 DEF RefsUnwound
     <2>3. \A i \in Slot : i # j => RefsOf(i)' = RefsOf(i)
        BY <1>3, <1>4, <1>23 DEF RefsUnwound
     <2> QED BY <2>2, <2>3, <1>1, <1>5 DEF RefGone
  <1>25. CountsExact'
     BY <1>9, <1>17, <1>24, <1>t, CountsFall
  <1>26. BaseStays
     BY <1>1, <1>3, <1>20, <1>21, <1>t, BaseUnwinds
  <1> QED BY <1>23, <1>25, <1>26 DEF StackAndCounts

LEMMA DeleteEndsKeeps ==
  ASSUME StackAndCounts, DeleteEnds
  PROVE  StackAndCounts' /\ BaseStays
  <1>1. /\ In("delete") /\ Top.todo = {} /\ live' = [live EXCEPT ![Top.key] = FALSE] /\ calls' = Front(calls)
        /\ UNCHANGED <<refs, unused, entry, evictPos, slotItems, hardRefs, heldSlots, phase, crashed>>
     BY DEF DeleteEnds
  <1>t. CompositeTypeOK /\ StackInv /\ CountsExact
     BY DEF StackAndCounts, StackInv
  <1>2. PICK n \in Nat : n = Len(calls) - 1
     BY <1>1, <1>t, TheTop
  <1>3. /\ calls # <<>> /\ n + 1 = Len(calls) /\ n + 1 \in 1..Len(calls) /\ n \in 0..Len(calls)
        /\ Top = calls[n + 1] /\ Top \in Frame /\ Top.fn = "delete"
     BY <1>1, <1>2, <1>t, TheTop
  <1>4. PICK j \in Slot : j = Top.key
     BY <1>3, FrameIs
  <1>5. PICK C : C = {}
     OBVIOUS
  <1>6. Stacked(calls', calls, n, C, C)
     <2>1. calls \in Seq(Frame) /\ Len(calls) \in Nat
        BY <1>t, LenProperties DEF CompositeTypeOK
     <2>2. calls' \in Seq(Frame) /\ Len(calls') = n /\ \A i \in 1..n : calls'[i] = calls[i]
        BY <2>1, <1>1, <1>2, <1>3, StackParts
     <2>3. Stacked(calls', calls, n, {}, {})
        BY <2>1, <2>2, <1>3, NothingAbove
     <2> QED BY <2>3, <1>5
  <1>7. CompositeTypeOK'
     <2>1. calls' \in Seq(Frame)
        BY <1>6 DEF Stacked
     <2> QED BY <2>1, <1>1, <1>4, <1>t DEF CompositeTypeOK
  <1>8. Unwinds(n, C, C)
     <2>1. ASSUME NEW i \in Slot PROVE KeyUnwinds(i, n, C, C)
        <3>1. live'[i] = IF i = j THEN FALSE ELSE live[i]
           BY <1>1, <1>4, <1>t DEF CompositeTypeOK
        <3>2. CASE i # j
           BY <3>1, <3>2, <1>1 DEF KeyUnwinds
        <3>3. CASE i = j
           <4>1. ~live'[i] /\ calls[n + 1].fn = "delete" /\ calls[n + 1].key = i
              BY <3>1, <3>3, <1>3, <1>4
           <4> QED BY <4>1, <1>1, <1>3, <1>5 DEF KeyUnwinds
        <3> QED BY <3>2, <3>3
     <2>2. ~live'[calls[n + 1].key]
        BY <1>1, <1>3, <1>4, <1>t DEF CompositeTypeOK
     <2> QED BY <2>1, <2>2, <1>1, <1>3, <1>5, <1>6 DEF Unwinds
  <1>9. PhaseInv'
     BY <1>1, <1>3, <1>7, <1>8, <1>t, PhaseUnwinds
  <1>10. StackInv' /\ \A i \in Slot : RefsUnwound(i, n, C)
     BY <1>7, <1>8, <1>9, Unwound
  <1>11. ASSUME NEW i \in Slot PROVE RefsOf(i)' = RefsOf(i)
     <2>1. CASE i = j
        BY <2>1, <1>1, <1>3, <1>4, <1>5, <1>10 DEF RefsUnwound
     <2>2. CASE i # j
        BY <2>2, <1>3, <1>4, <1>10 DEF RefsUnwound
     <2> QED BY <2>1, <2>2
  <1>12. CountsExact'
     BY <1>1, <1>11, <1>t, CountsStay DEF RefsSame
  <1>13. BaseStays
     BY <1>1, <1>3, <1>7, <1>8, <1>t, BaseUnwinds
  <1> QED BY <1>10, <1>12, <1>13 DEF StackAndCounts

-------------------------------------------------------------------------------
(* A loop over the table: one entry goes, if any. *)
Visiting(goes, k) ==
  /\ k \in Slot /\ goes \in BOOLEAN
  /\ goes => entry[k] = "failed" \/ (entry[k] = "value" /\ (hardRefs[k] = 0 \/ phase = "closing"))
  /\ evictPos' = k /\ entry' = IF goes THEN [entry EXCEPT ![k] = "none"] ELSE entry
  /\ UNCHANGED <<refs, unused, slotItems, hardRefs, live, heldSlots, phase, crashed>>

(* The destructor of a value whose last reference was its entry. *)
Deleted(goes, k) == IF goes /\ entry[k] = "value" /\ hardRefs[k] = 0 THEN {Destroy(k)} ELSE {}

LEMMA DeletedIs ==
  ASSUME CompositeTypeOK, NEW k \in Slot, NEW goes \in BOOLEAN,
         NEW x, x = IF goes /\ entry[k] = "value" /\ hardRefs[k] = 0 THEN <<Destroy(k)>> ELSE <<>>
  PROVE  /\ Holds(x, Deleted(goes, k))
         /\ \A g \in Deleted(goes, k) : /\ g = Destroy(k) /\ goes /\ entry[k] = "value" /\ hardRefs[k] = 0
                                        /\ g.fn = "delete" /\ ~Turning(g)
  <1>1. Destroy(k) \in Frame /\ Destroy(k).fn = "delete"
     BY DestroyIs
  <1>2. Holds(<<Destroy(k)>>, {Destroy(k)}) /\ Holds(<<>>, {})
     BY <1>1, EmptySeq DEF Holds
  <1>3. ~Turning(Destroy(k))
     BY <1>1 DEF Turning
  <1> QED BY <1>1, <1>2, <1>3 DEF Deleted

LEMMA VisitUnwinds ==
  ASSUME StackAndCounts, NEW k, NEW goes, Visiting(goes, k), NEW n, NEW C,
         Len(calls) = n + 1, n + 1 \in 1..Len(calls), calls[n + 1].fn \in {"slice", "flush"},
         Stacked(calls', calls, n, C, Deleted(goes, k)), \A f \in C : CallerGoesOn(f, n)
  PROVE  Unwinds(n, C, Deleted(goes, k))
  <1>t. CompositeTypeOK
     BY DEF StackAndCounts, StackInv
  <1>0. k \in Slot /\ goes \in BOOLEAN
     BY DEF Visiting
  <1>1. PICK D : D = Deleted(goes, k)
     OBVIOUS
  <1>2. \A f \in D : f = Destroy(k) /\ goes /\ entry[k] = "value" /\ hardRefs[k] = 0
     BY <1>1 DEF Deleted
  <1>3. entry' = IF goes THEN [entry EXCEPT ![k] = "none"] ELSE entry
     BY DEF Visiting
  <1>4. Destroy(k).fn = "delete" /\ Destroy(k).key = k /\ Destroy(k).todo = refs[k]
     BY <1>t, <1>0, DestroyIs
  <1>5. goes => /\ entry[k] = "failed" \/ (entry[k] = "value" /\ (hardRefs[k] = 0 \/ phase = "closing"))
                /\ entry'[k] = "none"
     BY <1>0, <1>3, <1>t DEF Visiting, CompositeTypeOK
  <1>6. /\ refs' = refs /\ hardRefs' = hardRefs /\ live' = live /\ phase' = phase
     BY DEF Visiting
  <1>7. ASSUME NEW f \in D PROVE DeleteBegins(f)
     BY <1>0, <1>2, <1>4, <1>5, <1>6 DEF DeleteBegins
  <1>8. ASSUME NEW i \in Slot PROVE KeyUnwinds(i, n, C, D)
     <2>1. CASE i = k /\ goes
        <3>1. entry[k] = "value" /\ hardRefs[k] = 0 => \E f \in D : f.key = k
           BY <2>1, <1>1, <1>4 DEF Deleted
        <3>2. hardRefs'[k] = hardRefs[k] /\ live'[k] = live[k] /\ hardRefs[k] \in Nat
           BY <1>0, <1>6, <1>t DEF CompositeTypeOK
        <3> QED BY <3>1, <3>2, <2>1, <1>5 DEF KeyUnwinds
     <2>2. CASE i # k \/ ~goes
        <3>1. entry'[i] = entry[i] /\ hardRefs'[i] = hardRefs[i] /\ live'[i] = live[i]
           BY <2>2, <1>3, <1>6, <1>t DEF CompositeTypeOK
        <3> QED BY <3>1 DEF KeyUnwinds
     <2> QED BY <2>1, <2>2, <1>0
  <1>9. n \in 0..Len(calls) /\ Stacked(calls', calls, n, C, D)
     BY <1>1 DEF Stacked
  <1>10. \A f, g \in D : f = g
     BY <1>2
  <1>11. Len(calls) <= n + 1 /\ calls[n + 1].fn # "create" /\ calls[n + 1].fn # "delete"
     <2>1. Len(calls) \in Nat
        BY <1>t, LenProperties DEF CompositeTypeOK
     <2> QED BY <2>1
  <1> QED BY <1>1, <1>6, <1>7, <1>8, <1>9, <1>10, <1>11 DEF Unwinds

LEMMA VisitKeeps ==
  ASSUME StackAndCounts, CompositeTypeOK', PhaseInv', NEW k, NEW goes, Visiting(goes, k), NEW n, NEW C,
         calls[n + 1].fn \in {"slice", "flush"}, Unwinds(n, C, Deleted(goes, k))
  PROVE  StackAndCounts'
  <1>1. \A i \in 1..Len(calls) : i = n + 1 => calls[i].fn # "delete"
     OBVIOUS
  <1>2. StackInv' /\ RefsSame
     BY <1>1, Unwound
  <1>3. CountsExact'
     BY <1>2, CountsStay DEF Visiting, StackAndCounts
  <1> QED BY <1>2, <1>3 DEF StackAndCounts

LEMMA VisitType ==
  ASSUME CompositeTypeOK, NEW k, NEW goes, Visiting(goes, k), calls' \in Seq(Frame)
  PROVE  CompositeTypeOK'
  <1>1. entry' \in [Slot -> {"none", "progress", "value", "failed"}]
     BY DEF Visiting, CompositeTypeOK
  <1>2. evictPos' \in 0..Slots
     BY SlotAssumption DEF Visiting, Slot
  <1> QED BY <1>1, <1>2 DEF Visiting, CompositeTypeOK

LEMMA SliceTurnKeeps ==
  ASSUME StackAndCounts, SliceTurn
  PROVE  StackAndCounts' /\ BaseStays
  <1>t. CompositeTypeOK /\ StackInv /\ CountsExact
     BY DEF StackAndCounts, StackInv
  <1>1. In("slice") /\ UNCHANGED <<refs, unused, slotItems, hardRefs, live, heldSlots, phase>>
     BY DEF SliceTurn
  <1>2. CASE Table = {}
     <2>1. VisitNull
        BY <1>2 DEF SliceTurn
     <2>2. CompositeTypeOK'
        BY <2>1, <1>1, <1>t DEF VisitNull, CompositeTypeOK
     <2>3. StackAndCounts'
        BY <2>1, <2>2, <1>1, StackUnchanged DEF VisitNull
     <2>4. Top.fn = "slice" /\ Top = calls[Len(calls)] /\ Len(calls) \in Nat \ {0}
        BY <1>1, <1>t, TheTop
     <2>5. calls' = calls /\ Table' = Table /\ phase' = phase
        BY <2>1, <1>1 DEF VisitNull, Table
     <2>6. phase # "closed"
        BY <2>4, <1>t DEF StackInv, PhaseInv
     <2>7. calls[1].fn # "flush" \/ Len(calls) > 1
        BY <2>4
     <2> QED BY <2>3, <2>5, <2>6, <2>7 DEF BaseStays
  <1>3. CASE Table # {}
     <2>1. PICK k : k = NextElement
        OBVIOUS
     <2>2. k \in Slot
        BY <2>1, <1>3, <1>t, NextElementIs, TableIs
     <2>3. PICK goes \in BOOLEAN : goes = Evictable(k)
        BY DEF Evictable
     <2>4. PICK n \in Nat : n = Len(calls) - 1
        BY <1>1, <1>t, TheTop
     <2>5. /\ calls # <<>> /\ n + 1 = Len(calls) /\ n + 1 \in 1..Len(calls) /\ n \in 0..Len(calls)
           /\ Top = calls[n + 1] /\ Top \in Frame /\ Top.fn = "slice"
        BY <1>1, <2>4, <1>t, TheTop
     <2>6. PICK next : next = [Top EXCEPT !.evict = IF goes THEN @ - 1 ELSE @, !.visit = @ - 1]
        OBVIOUS
     <2>7. PICK x : x = IF next.evict = 0 \/ next.visit = 0 THEN <<>> ELSE <<next>>
        OBVIOUS
     <2>8. PICK y : y = IF goes /\ entry[k] = "value" /\ hardRefs[k] = 0 THEN <<Destroy(k)>> ELSE <<>>
        OBVIOUS
     <2>9. /\ evictPos' = k /\ entry' = IF goes THEN [entry EXCEPT ![k] = "none"] ELSE entry
           /\ calls' = Front(calls) \o x \o y /\ UNCHANGED crashed
        BY <1>3, <2>1, <2>3, <2>6, <2>7, <2>8 DEF SliceTurn, Visit
     <2>10. Visiting(goes, k)
        BY <1>1, <2>2, <2>3, <2>9 DEF Visiting, Evictable
     <2>11. next \in Frame /\ (next.evict # 0 /\ next.visit # 0 => Turning(next))
        <3>1. Top.evict \in Nat /\ Top.visit \in Nat /\ Top.evict > 0 /\ Top.visit > 0
           BY <2>5, <1>t, FrameIs DEF StackInv, CallInv
        <3>2. Top \in [fn : {"slice"}, evict : Nat, visit : Nat]
           BY <2>5 DEF Frame
        <3>3. /\ next.fn = "slice" /\ next.evict = (IF goes THEN Top.evict - 1 ELSE Top.evict) /\ next.visit = Top.visit - 1
              /\ next \in [fn : {"slice"}, evict : Nat, visit : Nat]
           <4>1. next = [fn |-> "slice", evict |-> IF goes THEN Top.evict - 1 ELSE Top.evict, visit |-> Top.visit - 1]
              BY <2>6, <3>2, <2>5
           <4>2. (IF goes THEN Top.evict - 1 ELSE Top.evict) \in Nat /\ Top.visit - 1 \in Nat
              BY <3>1
           <4> QED BY <4>1, <4>2
        <3>4. next \in Frame
           BY <3>3 DEF Frame
        <3> QED BY <3>1, <3>3, <3>4 DEF Turning
     <2>12. x \in Seq(Frame) /\ Len(x) \in {0, 1} /\ (Len(x) = 1 => Turning(x[1]))
        <3>1. CASE next.evict = 0 \/ next.visit = 0
           <4>1. x = <<>>
              BY <3>1, <2>7
           <4> QED BY <4>1, EmptySeq
        <3>2. CASE ~(next.evict = 0 \/ next.visit = 0)
           <4>1. x = <<next>> /\ Turning(next)
              BY <3>2, <2>7, <2>11
           <4>2. <<next>> \in Seq(Frame) /\ Len(<<next>>) = 1 /\ <<next>>[1] = next
              BY <2>11
           <4> QED BY <4>1, <4>2
        <3> QED BY <3>1, <3>2
     <2>13. PICK C, D : C = {} /\ D = Deleted(goes, k)
        OBVIOUS
     <2>14. Stacked(calls', calls, n, C, D)
        <3>1. Holds(y, D) /\ \A g \in D : g.fn = "delete" /\ ~Turning(g)
           BY <2>2, <2>8, <2>13, <1>t, DeletedIs
        <3>2. Len(x) = 1 => x[1] \notin D
           BY <3>1, <2>12
        <3>3. calls \in Seq(Frame)
           BY <1>t DEF CompositeTypeOK
        <3>4. Stacked(Front(calls) \o x \o y, calls, Len(calls) - 1, C, D)
           BY <3>1, <3>2, <3>3, <2>5, <2>12, <2>13, StackedOnFront
        <3> QED BY <3>4, <2>4, <2>9
     <2>15. CompositeTypeOK'
        <3>1. calls' \in Seq(Frame)
           BY <2>14 DEF Stacked
        <3> QED BY <3>1, <2>10, <1>t, VisitType
     <2>16. Unwinds(n, C, D)
        BY <2>5, <2>10, <2>13, <2>14, VisitUnwinds
     <2>17. PhaseInv'
        BY <1>1, <1>t, <2>5, <2>15, <2>16, PhaseUnwinds
     <2>18. BaseStays
        BY <1>1, <1>t, <2>5, <2>15, <2>16, BaseUnwinds
     <2> QED BY <2>5, <2>10, <2>13, <2>15, <2>16, <2>17, <2>18, VisitKeeps
  <1> QED BY <1>2, <1>3

(* A flush is the first call, and it is the cache's destructor's when it     *)
(* takes what is in use: no value is under construction then.                *)
LEMMA FlushIs ==
  ASSUME StackInv, In("flush")
  PROVE  /\ Len(calls) = 1 /\ calls # <<>> /\ Top = calls[1] /\ Top \in Frame /\ Top.fn = "flush" /\ calls \in Seq(Frame)
         /\ Top.left \in Nat /\ Top.result \in BOOLEAN /\ Top.all \in BOOLEAN
         /\ Top.all => phase = "closing"
         /\ phase # "closed"
         /\ \A k \in Slot : entry[k] # "progress"
  <1>1. /\ calls # <<>> /\ Len(calls) \in Nat \ {0} /\ Len(calls) \in 1..Len(calls)
        /\ Top = calls[Len(calls)] /\ Top \in Frame /\ Top.fn = "flush"
     BY TheTop
  <1>2. Len(calls) = 1
     BY <1>1 DEF StackInv, CallInv
  <1>3. (Top.all => phase = "closing") /\ phase # "closed"
     BY <1>1, <1>2 DEF StackInv, PhaseInv
  <1>4. ASSUME NEW k \in Slot PROVE entry[k] # "progress"
     <2>1. ~Under("create", k)
        BY <1>1, <1>2 DEF Under
     <2> QED BY <2>1 DEF StackInv, KeyInv
  <1> QED BY <1>1, <1>2, <1>3, <1>4, FrameIs DEF StackInv, CompositeTypeOK

(* What a turn of a flush does. *)
FlushTurned(k) ==
  \/ Table = {} /\ UNCHANGED <<entry, calls, evictPos>>
  \/ /\ Table # {} /\ Len(calls') > 0
     /\ calls'[1].fn = "flush" /\ calls'[1].left = Top.left - 1
     /\ calls'[1].all <=> Top.all
     /\ calls'[1].result <=> Top.result \/ Top.all \/ Evictable(k)
     /\ evictPos' = k
     /\ Top.all \/ Evictable(k) => entry' = [entry EXCEPT ![k] = "none"]
     /\ ~(Top.all \/ Evictable(k)) => entry' = entry

LEMMA FlushTurnKeeps ==
  ASSUME StackAndCounts, FlushTurn
  PROVE  StackAndCounts' /\ FlushTurned(NextElement)
  <1>t. CompositeTypeOK /\ StackInv /\ CountsExact
     BY DEF StackAndCounts, StackInv
  <1>1. In("flush") /\ Top.left > 0 /\ UNCHANGED <<refs, unused, slotItems, hardRefs, live, heldSlots, phase>>
     BY DEF FlushTurn
  <1>2. CASE Table = {}
     <2>1. VisitNull
        BY <1>2 DEF FlushTurn
     <2>2. CompositeTypeOK'
        BY <2>1, <1>1, <1>t DEF VisitNull, CompositeTypeOK
     <2> QED BY <2>1, <2>2, <1>1, <1>2, StackUnchanged DEF VisitNull, FlushTurned
  <1>3. CASE Table # {}
     <2>1. PICK k : k = NextElement
        OBVIOUS
     <2>2. k \in Slot /\ k \in Table
        BY <2>1, <1>3, <1>t, NextElementIs, TableIs
     <2>5. /\ Len(calls) = 1 /\ calls # <<>> /\ Top = calls[1] /\ Top \in Frame /\ Top.fn = "flush" /\ calls \in Seq(Frame)
           /\ Top.left \in Nat /\ Top.result \in BOOLEAN /\ Top.all \in BOOLEAN /\ (Top.all => phase = "closing") /\ phase # "closed"
           /\ entry[k] # "progress"
        BY <1>1, <1>t, <2>2, FlushIs
     <2>3. PICK goes \in BOOLEAN : goes = (Top.all \/ Evictable(k))
        BY <2>5 DEF Evictable
     <2>6. PICK next : next = [Top EXCEPT !.left = @ - 1, !.result = @ \/ goes]
        OBVIOUS
     <2>7. PICK x : x = <<next>>
        OBVIOUS
     <2>8. PICK y : y = IF goes /\ entry[k] = "value" /\ hardRefs[k] = 0 THEN <<Destroy(k)>> ELSE <<>>
        OBVIOUS
     <2>9. /\ evictPos' = k /\ entry' = IF goes THEN [entry EXCEPT ![k] = "none"] ELSE entry
           /\ calls' = Front(calls) \o x \o y /\ UNCHANGED crashed
        BY <1>3, <2>1, <2>3, <2>6, <2>7, <2>8 DEF FlushTurn, Visit
     <2>10. Visiting(goes, k)
        <3>1. goes => entry[k] = "failed" \/ (entry[k] = "value" /\ (hardRefs[k] = 0 \/ phase = "closing"))
           BY <2>2, <2>3, <2>5, <1>t DEF Evictable, Table, CompositeTypeOK
        <3> QED BY <3>1, <1>1, <2>2, <2>9 DEF Visiting
     <2>11. /\ next \in Frame /\ next.fn = "flush" /\ next.all = Top.all /\ next.result = (Top.result \/ goes)
            /\ next.left = Top.left - 1
        <3>1. Top \in [fn : {"flush"}, left : Nat, result : BOOLEAN, all : BOOLEAN]
           BY <2>5 DEF Frame
        <3>2. next \in [fn : {"flush"}, left : Nat, result : BOOLEAN, all : BOOLEAN]
           <4>1. next = [fn |-> "flush", left |-> Top.left - 1, result |-> Top.result \/ goes, all |-> Top.all]
              BY <2>6, <3>1, <2>5
           <4>2. Top.left - 1 \in Nat /\ (Top.result \/ goes) \in BOOLEAN
              BY <1>1, <2>5
           <4> QED BY <4>1, <4>2, <2>5
        <3> QED BY <3>1, <3>2, <2>6 DEF Frame
     <2>13. PICK n, C, D : n = 0 /\ C = {next} /\ D = Deleted(goes, k)
        OBVIOUS
     <2>12. Holds(x, C)
        <3>1. <<next>> \in Seq(Frame) /\ Len(<<next>>) = 1 /\ <<next>>[1] = next
           BY <2>11
        <3> QED BY <3>1, <2>7, <2>13 DEF Holds
     <2>y. Holds(y, D) /\ \A g \in D : goes /\ g.fn = "delete" /\ ~Turning(g)
        BY <2>2, <2>8, <2>13, <1>t, DeletedIs
     <2>14. Stacked(calls', calls, n, C, D)
        <3>1. \A g \in D : g \notin C
           BY <2>y, <2>11, <2>13
        <3>2. Len(x) = 1 => x[1] \notin D
           BY <2>y, <2>7, <2>11
        <3>3. x \in Seq(Frame)
           BY <2>12 DEF Holds
        <3>4. Stacked(Front(calls) \o x \o y, calls, Len(calls) - 1, C, D)
           BY <3>1, <3>2, <3>3, <2>y, <2>5, <2>12, StackedOnFront
        <3>5. Len(calls) - 1 = n
           BY <2>5, <2>13
        <3> QED BY <3>4, <3>5, <2>9
     <2>15. CompositeTypeOK'
        <3>1. calls' \in Seq(Frame)
           BY <2>14 DEF Stacked
        <3> QED BY <3>1, <2>10, <1>t, VisitType
     <2>n. Len(calls) = n + 1 /\ n + 1 \in 1..Len(calls) /\ n + 1 = 1
        BY <2>5, <2>13
     <2>16. Unwinds(n, C, D)
        <3>1. \A f \in C : CallerGoesOn(f, n)
           BY <2>5, <2>11, <2>13 DEF CallerGoesOn
        <3>2. calls[n + 1].fn \in {"slice", "flush"}
           BY <2>5, <2>n
        <3> QED BY <3>1, <3>2, <2>n, <2>10, <2>13, <2>14, VisitUnwinds
     <2>c. calls'[1] = next /\ Len(calls') > 0
        <3>1. C # {} => n + 1 <= Len(calls') /\ calls'[n + 1] \in C
           BY <2>14 DEF Stacked
        <3> QED BY <3>1, <2>13, <2>n, <2>15, LenProperties DEF CompositeTypeOK
     <2>17. PhaseInv'
        <3>2. ~goes => Len(calls') = 1
           <4> HAVE ~goes
           <4>1. D = {} /\ Len(y) = 0 /\ Len(x) = 1
              <5>1. D = {}
                 BY <2>y
              <5> QED BY <5>1, <2>y, <2>12, <2>13 DEF Holds
           <4>2. Front(calls) \in Seq(Frame) /\ Len(Front(calls)) = 0
              BY <2>5, StackParts
           <4>3. x \in Seq(Frame) /\ y \in Seq(Frame)
              BY <2>12, <2>y DEF Holds
           <4>4. On(Front(calls) \o x \o y, Front(calls), x, y)
              BY <4>2, <4>3, TwoOn
           <4> QED BY <4>1, <4>2, <4>4, <2>9 DEF On
        <3>3. phase' = phase
           BY <1>1
        <3> QED BY <2>c, <3>2, <3>3, <2>5, <2>11 DEF PhaseInv
     <2>18. calls[n + 1].fn \in {"slice", "flush"}
        BY <2>5, <2>n
     <2>19. FlushTurned(k)
        <3>1. calls'[1].all <=> Top.all
           BY <2>c, <2>11
        <3>2. calls'[1].result <=> Top.result \/ Top.all \/ Evictable(k)
           BY <2>c, <2>3, <2>11
        <3>3. (Top.all \/ Evictable(k) => entry' = [entry EXCEPT ![k] = "none"])
              /\ (~(Top.all \/ Evictable(k)) => entry' = entry)
           BY <2>3, <2>9
        <3> QED BY <3>1, <3>2, <3>3, <2>c, <2>9, <2>11, <1>3 DEF FlushTurned
     <2>20. StackAndCounts'
        BY <2>10, <2>13, <2>15, <2>16, <2>17, <2>18, VisitKeeps
     <2> QED BY <2>1, <2>19, <2>20
  <1> QED BY <1>2, <1>3

-------------------------------------------------------------------------------
(* A flush begins, makes another pass or ends. *)
LEMMA PassKeeps ==
  ASSUME StackAndCounts, CompositeTypeOK', PhaseInv', NEW C, Holds(calls', C), \A f \in C : f.fn = "flush",
         Len(calls) = 0 \/ (Len(calls) = 1 /\ calls[1].fn = "flush"), phase' = "open" => phase = "open",
         UNCHANGED <<refs, entry, slotItems, hardRefs, live, heldSlots>>
  PROVE  StackAndCounts'
  <1>t. CompositeTypeOK /\ CountsExact /\ calls \in Seq(Frame) /\ calls' \in Seq(Frame)
     BY DEF StackAndCounts, StackInv, CompositeTypeOK
  <1>1. PICK n, D : n = 0 /\ D = {}
     OBVIOUS
  <1>2. PICK t : t = calls'
     OBVIOUS
  <1>3. n \in 0..Len(calls) /\ n + 1 = 1 /\ (\A i \in 1..n : t[i] = calls[i]) /\ t \in Seq(Frame)
     BY <1>1, <1>2, <1>t
  <1>4. Stacked(t, calls, n, C, D)
     <2>1. CASE Len(t) = 0
        <3>1. C = {} /\ Len(t) = n
           BY <2>1, <1>1, <1>2 DEF Holds
        <3>2. Stacked(t, calls, n, {}, {})
           BY <3>1, <1>3, <1>t, NothingAbove
        <3> QED BY <3>1, <3>2, <1>1
     <2>2. CASE Len(t) = 1
        <3>1. C = {t[n + 1]} /\ Len(t) = n + 1
           BY <2>2, <1>2, <1>3 DEF Holds
        <3> QED BY <3>1, <1>1, <1>3, <1>t, OneAbove
     <2> QED BY <2>1, <2>2, <1>2 DEF Holds
  <1>5. Unwinds(n, C, D)
     <2>1. ASSUME NEW i \in Slot PROVE KeyUnwinds(i, n, C, D)
        BY DEF KeyUnwinds
     <2>2. \A f \in C : CallerGoesOn(f, n)
        BY <1>1 DEF CallerGoesOn
     <2>3. \A i \in 1..Len(calls) : calls[i].fn # "create" /\ calls[i].fn # "delete"
        OBVIOUS
     <2>4. Len(calls) <= n + 1 /\ (Len(calls) = n + 1 => n + 1 \in 1..Len(calls))
        BY <1>1
     <2> QED BY <2>1, <2>2, <2>3, <2>4, <1>1, <1>2, <1>3, <1>4 DEF Unwinds
  <1>6. \A i \in 1..Len(calls) : i = n + 1 => calls[i].fn # "delete"
     OBVIOUS
  <1>7. StackInv' /\ RefsSame
     BY <1>5, <1>6, Unwound
  <1>8. CountsExact'
     BY <1>7, <1>t, CountsStay
  <1> QED BY <1>7, <1>8 DEF StackAndCounts

(* A pass that has just begun. *)
NewPass(t, all) == /\ t \in Seq(Frame) /\ Len(t) = 1 /\ t[1].fn = "flush" /\ Holds(t, {t[1]})
                   /\ t[1].left = Cardinality(Table) /\ t[1].result = FALSE /\ t[1].all = all

LEMMA PassBegins ==
  ASSUME CompositeTypeOK, NEW all \in BOOLEAN
  PROVE  NewPass(<<FlushPass(Table, all)>>, all)
  <1>1. PICK f : f = FlushPass(Table, all)
     OBVIOUS
  <1>2. f \in Frame /\ f.fn = "flush" /\ f.left = Cardinality(Table) /\ f.result = FALSE /\ f.all = all
     BY <1>1, FlushPassIs
  <1>3. <<f>> \in Seq(Frame) /\ Len(<<f>>) = 1 /\ <<f>>[1] = f
     BY <1>2
  <1>4. NewPass(<<f>>, all)
     BY <1>2, <1>3 DEF NewPass, Holds
  <1> QED BY <1>1, <1>4

LEMMA ClientFlushesKeeps ==
  ASSUME StackAndCounts, ClientFlushes \/ ClientCloses
  PROVE  StackAndCounts' /\ NewPass(calls', FALSE) /\ phase' # "closed" /\ entry' = entry /\ evictPos' = evictPos
  <1>t. CompositeTypeOK /\ StackInv
     BY DEF StackAndCounts, StackInv
  <1>1. /\ Idle /\ calls' = <<FlushPass(Table, FALSE)>> /\ (phase' = phase \/ phase' = "closing")
        /\ UNCHANGED <<refs, unused, entry, evictPos, slotItems, hardRefs, live, heldSlots, crashed>>
     BY DEF ClientFlushes, ClientCloses
  <1>2. Len(calls) = 0 /\ phase = "open"
     BY <1>1, <1>t, IdleIs
  <1>3. NewPass(calls', FALSE)
     BY <1>1, <1>t, PassBegins
  <1>4. CompositeTypeOK'
     BY <1>1, <1>2, <1>3, <1>t DEF CompositeTypeOK, NewPass
  <1>5. PhaseInv'
     <2>1. Len(calls') = 1 /\ calls'[1].fn = "flush" /\ ~calls'[1].all
        BY <1>3 DEF NewPass
     <2>2. phase' # "closed"
        BY <1>1, <1>2
     <2> QED BY <2>1, <2>2 DEF PhaseInv
  <1>6. PICK C : C = {calls'[1]}
     OBVIOUS
  <1>7. Holds(calls', C) /\ \A f \in C : f.fn = "flush"
     BY <1>3, <1>6 DEF NewPass
  <1>8. StackAndCounts'
     BY <1>1, <1>2, <1>4, <1>5, <1>7, PassKeeps
  <1> QED BY <1>1, <1>2, <1>3, <1>8

(* What the end of a pass is followed by. *)
PassEnd ==
  \/ ~Top.all /\ NewPass(calls', FALSE) /\ phase' = phase
  \/ phase = "closing" /\ ~Top.all /\ ~Top.result /\ NewPass(calls', TRUE) /\ phase' = phase
  \/ /\ phase = "closing" => Top.all
     /\ ~Top.result \/ Top.all
     /\ calls' = <<>>
     /\ phase' = IF phase = "closing" THEN "closed" ELSE phase

LEMMA TurnsEnd ==
  ASSUME StackInv, FlushTurnsEnd
  PROVE  /\ In("flush") /\ Top.left = 0 /\ PassEnd
         /\ UNCHANGED <<refs, unused, entry, evictPos, slotItems, hardRefs, live, heldSlots, crashed>>
  <1>t. CompositeTypeOK
     BY DEF StackInv
  <1>1. /\ In("flush") /\ Top.left = 0
        /\ UNCHANGED <<refs, unused, entry, evictPos, slotItems, hardRefs, live, heldSlots, crashed>>
     BY DEF FlushTurnsEnd
  <1>2. CASE Top.result /\ ~Top.all
     <2>1. calls' = <<FlushPass(Table, FALSE)>> /\ phase' = phase
        BY <1>2 DEF FlushTurnsEnd
     <2>2. NewPass(calls', FALSE)
        BY <2>1, <1>t, PassBegins
     <2> QED BY <1>1, <1>2, <2>1, <2>2 DEF PassEnd
  <1>3. CASE ~(Top.result /\ ~Top.all) /\ phase = "closing" /\ ~Top.all
     <2>1. calls' = <<FlushPass(Table, TRUE)>> /\ phase' = phase
        BY <1>3 DEF FlushTurnsEnd
     <2>2. NewPass(calls', TRUE)
        BY <2>1, <1>t, PassBegins
     <2> QED BY <1>1, <1>3, <2>1, <2>2 DEF PassEnd
  <1>4. CASE ~(Top.result /\ ~Top.all) /\ ~(phase = "closing" /\ ~Top.all)
     <2>1. calls' = <<>> /\ phase' = IF phase = "closing" THEN "closed" ELSE phase
        BY <1>4 DEF FlushTurnsEnd
     <2> QED BY <1>1, <1>4, <2>1 DEF PassEnd
  <1> QED BY <1>2, <1>3, <1>4

LEMMA FlushTurnsEndKeeps ==
  ASSUME StackAndCounts, FlushTurnsEnd
  PROVE  StackAndCounts'
  <1>t. CompositeTypeOK /\ StackInv
     BY DEF StackAndCounts, StackInv
  <1>1. /\ In("flush") /\ Top.left = 0 /\ PassEnd
        /\ UNCHANGED <<refs, unused, entry, evictPos, slotItems, hardRefs, live, heldSlots, crashed>>
     BY <1>t, TurnsEnd
  <1>2. Len(calls) = 1 /\ calls[1].fn = "flush" /\ Top = calls[1] /\ phase # "closed" /\ (Top.all => phase = "closing")
     BY <1>1, <1>t, FlushIs
  <1>p. phase \in {"open", "closing", "closed"}
     BY <1>t DEF CompositeTypeOK
  <1>3. CASE (NewPass(calls', FALSE) \/ (phase = "closing" /\ NewPass(calls', TRUE))) /\ phase' = phase
     <2>1. CompositeTypeOK'
        BY <1>1, <1>3, <1>t DEF CompositeTypeOK, NewPass
     <2>2. PhaseInv'
        BY <1>2, <1>3 DEF PhaseInv, NewPass
     <2>3. PICK C : C = {calls'[1]}
        OBVIOUS
     <2>4. Holds(calls', C) /\ \A f \in C : f.fn = "flush"
        BY <1>3, <2>3 DEF NewPass
     <2> QED BY <1>1, <1>2, <1>3, <2>1, <2>2, <2>4, PassKeeps
  <1>4. CASE calls' = <<>> /\ phase' = IF phase = "closing" THEN "closed" ELSE phase
     <2>1. calls' \in Seq(Frame) /\ Len(calls') = 0
        BY <1>4, EmptySeq
     <2>2. CompositeTypeOK'
        BY <1>1, <1>4, <2>1, <1>p, <1>t DEF CompositeTypeOK
     <2>3. PhaseInv'
        BY <1>2, <1>4, <2>1, <1>p DEF PhaseInv
     <2>4. PICK C : C = {}
        OBVIOUS
     <2>5. Holds(calls', C) /\ \A f \in C : f.fn = "flush"
        BY <2>1, <2>4 DEF Holds
     <2>6. phase' = "open" => phase = "open"
        BY <1>4
     <2> QED BY <1>1, <1>2, <2>2, <2>3, <2>5, <2>6, PassKeeps
  <1> QED BY <1>1, <1>3, <1>4 DEF PassEnd

LEMMA ClientSetsPolicyKeeps ==
  ASSUME StackAndCounts, ClientSetsPolicy
  PROVE  StackAndCounts' /\ BaseStays
  <1>1. /\ \E m \in Unused \ {unused} : unused' = m
        /\ UNCHANGED <<refs, entry, evictPos, slotItems, hardRefs, live, heldSlots, calls, phase, crashed>>
     BY DEF ClientSetsPolicy
  <1>2. CompositeTypeOK'
     BY <1>1 DEF StackAndCounts, StackInv, CompositeTypeOK
  <1>3. Idle /\ StackInv
     BY DEF ClientSetsPolicy, StackAndCounts
  <1>4. Len(calls') = 0 /\ phase' # "closed"
     BY <1>1, <1>3, IdleIs
  <1> QED BY <1>1, <1>2, <1>4, StackUnchanged DEF BaseStays

-------------------------------------------------------------------------------
(* While values are created nothing is being destroyed: the m innermost      *)
(* calls are creations, with at most slices above them, and every value is   *)
(* in the table.                                                             *)
CreateInv(i, m) ==
  /\ calls[i].fn = "create" /\ entry[calls[i].key] = "progress" /\ calls[i].todo \subseteq refs[calls[i].key]
  /\ \A j \in 1..m : j = i + 1 => calls[j].key \in refs[calls[i].key] \ calls[i].todo
  /\ \A r \in refs[calls[i].key] \ calls[i].todo : entry[r] = "value" \/ \E j \in 1..m : j = i + 1 /\ calls[j].key = r
CreateKeyInv(k, m) ==
  /\ entry[k] = "value" <=> live[k]
  /\ hardRefs[k] > 0 => entry[k] = "value"
  /\ entry[k] = "progress" => \E i \in 1..m : calls[i].key = k
Creating(m) ==
  /\ CompositeTypeOK /\ Acyclic(refs) /\ phase = "open" /\ m <= Len(calls)
  /\ \A i \in 1..m : CreateInv(i, m)
  /\ \A i \in 1..Len(calls) : i > m => Turning(calls[i])
  /\ \A k \in Slot : CreateKeyInv(k, m)

CreateRefsAre(m) ==
  /\ \A i \in 1..m : RefsOf(calls[i].key) = {r \in refs[calls[i].key] \ calls[i].todo : entry[r] = "value"}
  /\ \A k \in Slot : (\A i \in 1..m : calls[i].key # k) => RefsOf(k) = IF entry[k] = "value" THEN refs[k] ELSE {}

CreatingFacts == \A m \in Nat : Creating(m) => /\ StackInv /\ CreateRefsAre(m)
                                               /\ \A i \in 1..Len(calls) : calls[i].fn # "flush"

LEMMA CreatingIsStack == CreatingFacts
  <1> SUFFICES ASSUME NEW m \in Nat, Creating(m) PROVE /\ StackInv /\ CreateRefsAre(m)
                                                         /\ \A i \in 1..Len(calls) : calls[i].fn # "flush"
     BY DEF CreatingFacts
  <1>1. /\ CompositeTypeOK /\ Acyclic(refs) /\ phase = "open" /\ m <= Len(calls)
        /\ \A i \in 1..m : CreateInv(i, m)
        /\ \A i \in 1..Len(calls) : i > m => Turning(calls[i])
        /\ \A k \in Slot : CreateKeyInv(k, m)
     BY DEF Creating
  <1>2. Len(calls) \in Nat
     BY <1>1, LenProperties DEF CompositeTypeOK
  <1>3. ASSUME NEW i \in 1..Len(calls)
        PROVE  /\ calls[i].fn = "create" => i \in 1..m
               /\ i \in 1..m => calls[i].fn = "create"
               /\ i \notin 1..m => Turning(calls[i])
               /\ calls[i].fn # "delete" /\ calls[i].fn # "flush"
     <2>1. i \notin 1..m => Turning(calls[i])
        BY <1>1, <1>2
     <2>2. i \in 1..m => calls[i].fn = "create"
        BY <1>1 DEF CreateInv
     <2> QED BY <2>1, <2>2 DEF Turning
  <1>4. \A i \in 1..m : i \in 1..Len(calls)
     BY <1>1, <1>2
  <1>5. ASSUME NEW i \in 1..Len(calls) PROVE CallInv(i)
     <2>1. CASE i \in 1..m
        BY <2>1, <1>1, <1>3 DEF CreateInv, CallInv
     <2>2. CASE i \notin 1..m
        BY <2>2, <1>3 DEF Turning, CallInv
     <2> QED BY <2>1, <2>2
  <1>6. ChainInv
     <2> SUFFICES ASSUME NEW i \in 1..Len(calls), NEW j \in 1..Len(calls), calls[j].fn = "create", i < j
                  PROVE  /\ calls[i].fn = "create"
                         /\ j = i + 1 => calls[j].key \in refs[calls[i].key] \ calls[i].todo
        BY DEF ChainInv
     <2>1. j \in 1..m
        BY <1>3
     <2>2. i \in 1..m
        BY <2>1
     <2> QED BY <1>1, <1>3, <2>1, <2>2 DEF CreateInv
  <1>7. GotInv
     <2> SUFFICES ASSUME NEW i \in 1..Len(calls), calls[i].fn = "create", NEW r \in refs[calls[i].key] \ calls[i].todo
                  PROVE  \/ entry[r] = "value"
                         \/ \E j \in 1..Len(calls) : j = i + 1 /\ calls[j].fn = "create" /\ calls[j].key = r
        BY DEF GotInv
     <2>1. i \in 1..m
        BY <1>3
     <2>2. entry[r] = "value" \/ \E j \in 1..m : j = i + 1 /\ calls[j].key = r
        BY <1>1, <2>1 DEF CreateInv
     <2> QED BY <2>2, <1>3, <1>4
  <1>8. DeleteInv /\ PhaseInv
     BY <1>1, <1>2, <1>3 DEF DeleteInv, PhaseInv
  <1>9. ASSUME NEW k \in Slot PROVE KeyInv(k)
     <2>1. CreateKeyInv(k, m) /\ hardRefs[k] \in Nat /\ live[k] \in BOOLEAN
        BY <1>1 DEF CompositeTypeOK
     <2>2. entry[k] = "progress" => hardRefs[k] = 0 /\ ~live[k] /\ Under("create", k)
        BY <2>1, <1>3, <1>4 DEF CreateKeyInv, Under
     <2>3. entry[k] = "value" \/ hardRefs[k] > 0 => live[k]
        BY <2>1 DEF CreateKeyInv
     <2>4. entry[k] = "failed" => hardRefs[k] = 0 /\ ~live[k]
        BY <2>1 DEF CreateKeyInv
     <2> QED BY <2>1, <2>2, <2>3, <2>4 DEF KeyInv, CreateKeyInv
  <1>10. StackInv
     BY <1>1, <1>5, <1>6, <1>7, <1>8, <1>9 DEF StackInv
  <1>11. CreateRefsAre(m)
     <2>1. RefsAre
        BY <1>10, RefsAreThese
     <2>2. \A i \in 1..m : RefsOf(calls[i].key) = {r \in refs[calls[i].key] \ calls[i].todo : entry[r] = "value"}
        BY <2>1, <1>3, <1>4 DEF RefsAre
     <2>3. ASSUME NEW k \in Slot, \A i \in 1..m : calls[i].key # k
           PROVE  RefsOf(k) = IF entry[k] = "value" THEN refs[k] ELSE {}
        <3>1. ~Under("create", k) /\ ~Under("delete", k)
           BY <1>3, <2>3 DEF Under
        <3>2. entry[k] = "value" <=> live[k]
           BY <1>1 DEF CreateKeyInv
        <3>3. RefsOf(k) = IF live[k] THEN refs[k] ELSE {}
           BY <2>1, <3>1 DEF RefsAre
        <3> QED BY <3>2, <3>3
     <2> QED BY <2>2, <2>3 DEF CreateRefsAre
  <1> QED BY <1>3, <1>10, <1>11

(* So it is when the client calls, and in a creation. *)
LEMMA CreatingNow ==
  ASSUME StackInv, Idle \/ In("create")
  PROVE  Creating(Len(calls))
  <1>1. Len(calls) \in Nat /\ CompositeTypeOK
     BY LenProperties DEF StackInv, CompositeTypeOK
  <1>2. \A i \in 1..Len(calls) : calls[i].fn = "create"
     <2>1. CASE Idle
        BY <2>1, IdleIs
     <2>2. CASE In("create")
        <3>1. PICK n \in 1..Len(calls) : n = Len(calls) /\ calls[n].fn = "create"
           BY <2>2, TheTop
        <3>2. \A i \in 1..Len(calls) : i < n \/ i = n
           BY <1>1, <3>1
        <3> QED BY <3>1, <3>2 DEF StackInv, ChainInv
     <2> QED BY <2>1, <2>2
  <1>3. phase = "open"
     <2>1. CASE Idle
        BY <2>1, IdleIs
     <2>2. CASE In("create")
        <3>1. PICK n \in 1..Len(calls) : n = Len(calls) /\ calls[n].fn = "create"
           BY <2>2, TheTop
        <3> QED BY <3>1 DEF StackInv, CallInv
     <2> QED BY <2>1, <2>2
  <1>4. ASSUME NEW i \in 1..Len(calls) PROVE CreateInv(i, Len(calls))
     <2>1. CallInv(i) /\ calls[i].fn = "create"
        BY <1>2 DEF StackInv
     <2>2. \A j \in 1..Len(calls) : j = i + 1 => calls[j].key \in refs[calls[i].key] \ calls[i].todo
        BY <1>2 DEF StackInv, ChainInv
     <2>3. \A r \in refs[calls[i].key] \ calls[i].todo :
              entry[r] = "value" \/ \E j \in 1..Len(calls) : j = i + 1 /\ calls[j].key = r
        BY <2>1 DEF StackInv, GotInv
     <2> QED BY <2>1, <2>2, <2>3 DEF CreateInv, CallInv
  <1>5. ASSUME NEW k \in Slot PROVE CreateKeyInv(k, Len(calls))
     <2>1. KeyInv(k) /\ ~Under("delete", k)
        BY <1>2 DEF StackInv, Under
     <2>2. entry[k] = "progress" => \E i \in 1..Len(calls) : calls[i].key = k
        BY <2>1 DEF KeyInv, Under
     <2>3. hardRefs[k] > 0 => entry[k] = "value"
        BY <2>1, <1>3 DEF KeyInv
     <2>4. entry[k] = "value" <=> live[k]
        BY <2>1, <2>3 DEF KeyInv
     <2> QED BY <2>2, <2>3, <2>4 DEF CreateKeyInv
  <1>6. \A i \in 1..Len(calls) : ~(i > Len(calls))
     BY <1>1
  <1>7. Len(calls) <= Len(calls) /\ Acyclic(refs)
     BY <1>1 DEF StackInv
  <1> QED BY <1>1, <1>3, <1>4, <1>5, <1>6, <1>7 DEF Creating

LEMMA CreatingNext ==
  ASSUME NEW m \in Nat, Creating(m)'
  PROVE  StackInv' /\ CreateRefsAre(m)' /\ BaseStays
  <1>1. CreatingFacts'
     BY CreatingIsStack, PTL
  <1>2. StackInv' /\ CreateRefsAre(m)' /\ \A i \in 1..Len(calls') : calls'[i].fn # "flush"
     BY <1>1 DEF CreatingFacts
  <1>3. Len(calls') \in Nat /\ phase' = "open"
     BY LenProperties DEF Creating, CompositeTypeOK
  <1>4. ~(Len(calls') > 0 /\ calls'[1].fn = "flush")
     BY <1>2, <1>3
  <1> QED BY <1>2, <1>3, <1>4 DEF BaseStays

(* A hit. *)
LEMMA ClientGetsHit ==
  ASSUME StackAndCounts, NEW k \in Slot, ClientGets(k), entry[k] = "value"
  PROVE  StackAndCounts' /\ BaseStays
  <1>t. CompositeTypeOK /\ StackInv /\ CountsExact
     BY DEF StackAndCounts, StackInv
  <1>1. /\ Idle /\ k \notin heldSlots /\ AddHardRef(k) /\ heldSlots' = heldSlots \cup {k}
        /\ UNCHANGED <<refs, unused, entry, evictPos, live, calls, phase, crashed>>
     BY DEF ClientGets
  <1>2. PICK m : m = 0
     OBVIOUS
  <1>3. Creating(m) /\ calls = <<>> /\ Len(calls) = m /\ m \in Nat
     BY <1>1, <1>2, <1>t, IdleIs, CreatingNow
  <1>4. /\ hardRefs' = [hardRefs EXCEPT ![k] = @ + 1]
        /\ slotItems' = slotItems + (IF hardRefs[k] = 0 THEN 1 ELSE 0)
     BY <1>1 DEF AddHardRef
  <1>5. CompositeTypeOK'
     BY <1>1, <1>4, <1>t DEF CompositeTypeOK
  <1>6. Creating(m)'
     <2>1. ASSUME NEW i \in Slot PROVE CreateKeyInv(i, m)'
        BY <1>1, <1>3, <1>4, <1>t DEF CreateKeyInv, Creating, CompositeTypeOK
     <2> QED BY <2>1, <1>1, <1>2, <1>3, <1>5 DEF Creating
  <1>7. StackInv' /\ CreateRefsAre(m)' /\ CreateRefsAre(m) /\ BaseStays
     BY <1>3, <1>6, CreatingNext, CreatingIsStack DEF CreatingFacts
  <1>8. RefsSame
     BY <1>1, <1>2, <1>7 DEF RefsSame, CreateRefsAre
  <1>9. CountsExact'
     BY <1>1, <1>4, <1>8, <1>t, CountsRise DEF RefCome
  <1> QED BY <1>7, <1>9 DEF StackAndCounts

(* A miss. *)
LEMMA ClientGetsMiss ==
  ASSUME StackAndCounts, NEW k \in Slot, ClientGets(k), entry[k] # "value"
  PROVE  StackAndCounts' /\ BaseStays
  <1>t. CompositeTypeOK /\ StackInv /\ CountsExact
     BY DEF StackAndCounts, StackInv
  <1>1. /\ Idle /\ entry' = [entry EXCEPT ![k] = "progress"]
        /\ calls' = <<Create(k)>>
        /\ UNCHANGED <<refs, unused, evictPos, slotItems, hardRefs, live, heldSlots, phase, crashed>>
     BY DEF ClientGets
  <1>2. PICK m, l : m = 0 /\ l = 1
     OBVIOUS
  <1>3. Creating(m) /\ calls = <<>> /\ Len(calls) = m /\ m \in Nat
     BY <1>1, <1>2, <1>t, IdleIs, CreatingNow
  <1>4. PICK g : g = Create(k)
     OBVIOUS
  <1>5. g \in Frame /\ g.fn = "create" /\ g.key = k /\ g.todo = refs[k]
     BY <1>4, <1>t, CreateIs
  <1>6. calls' \in Seq(Frame) /\ Len(calls') = l /\ calls'[l] = g
     BY <1>1, <1>2, <1>4, <1>5
  <1>7. CompositeTypeOK'
     BY <1>1, <1>6, <1>t DEF CompositeTypeOK
  <1>8. ~live[k] /\ ~(hardRefs[k] > 0)
     BY <1>3 DEF Creating, CreateKeyInv
  <1>9. \A i \in 1..l : i = l /\ calls'[i] = g
     BY <1>2, <1>6
  <1>10. Creating(l)'
     <2>1. ASSUME NEW i \in 1..l PROVE CreateInv(i, l)'
        <3>1. \A j \in 1..l : j # i + 1
           BY <1>2
        <3>2. calls'[i] = g /\ entry'[k] = "progress" /\ refs'[k] = refs[k]
           BY <1>1, <1>9, <1>t DEF CompositeTypeOK
        <3> QED BY <3>1, <3>2, <1>5 DEF CreateInv
     <2>2. ASSUME NEW i \in Slot PROVE CreateKeyInv(i, l)'
        <3>0. hardRefs' = hardRefs /\ live' = live
           BY <1>1
        <3>1. CASE i = k
           <4>1. entry'[k] = "progress"
              BY <1>1, <1>t DEF CompositeTypeOK
           <4>2. l \in 1..l /\ calls'[l].key = k
              BY <1>2, <1>5, <1>6
           <4> QED BY <3>0, <3>1, <4>1, <4>2, <1>8 DEF CreateKeyInv
        <3>2. CASE i # k
           <4>1. entry'[i] = entry[i]
              BY <3>2, <1>1, <1>t DEF CompositeTypeOK
           <4>2. CreateKeyInv(i, m) /\ \A j \in 1..m : FALSE
              BY <1>2, <1>3 DEF Creating
           <4> QED BY <3>0, <4>1, <4>2 DEF CreateKeyInv
        <3> QED BY <3>1, <3>2
     <2>3. \A i \in 1..Len(calls') : ~(i > l)
        BY <1>2, <1>6
     <2>4. phase' = "open" /\ Acyclic(refs)' /\ l <= Len(calls')
        BY <1>1, <1>2, <1>3, <1>6 DEF Creating
     <2> QED BY <2>1, <2>2, <2>3, <2>4, <1>7 DEF Creating
  <1>11. StackInv' /\ CreateRefsAre(l)' /\ CreateRefsAre(m) /\ BaseStays
     BY <1>2, <1>3, <1>10, CreatingNext, CreatingIsStack DEF CreatingFacts
  <1>12. ASSUME NEW j \in Slot PROVE RefsOf(j)' = RefsOf(j)
     <2>1. RefsOf(j) = IF entry[j] = "value" THEN refs[j] ELSE {}
        BY <1>2, <1>11 DEF CreateRefsAre
     <2>2. CASE j = k
        <3>1. calls'[l].key = k /\ calls'[l].todo = refs'[k] /\ l \in 1..l
           BY <1>1, <1>2, <1>5, <1>6
        <3>2. RefsOf(k)' = {}
           BY <3>1, <1>11 DEF CreateRefsAre
        <3> QED BY <2>1, <2>2, <3>2
     <2>3. CASE j # k
        <3>1. \A i \in 1..l : calls'[i].key # j
           BY <2>3, <1>5, <1>9
        <3>2. RefsOf(j)' = IF entry'[j] = "value" THEN refs'[j] ELSE {}
           BY <3>1, <1>11 DEF CreateRefsAre
        <3> QED BY <2>1, <2>3, <3>2, <1>1, <1>t DEF CompositeTypeOK
     <2> QED BY <2>2, <2>3
  <1>13. CountsExact'
     BY <1>1, <1>12, <1>t, CountsStay DEF RefsSame
  <1> QED BY <1>11, <1>13 DEF StackAndCounts

-------------------------------------------------------------------------------
(* createObject at the top of the stack. *)
LEMMA CreateTop ==
  ASSUME StackInv, In("create"), NEW n, n = Len(calls)
  PROVE  /\ n \in Nat \ {0} /\ n \in 1..n /\ calls # <<>> /\ Creating(n) /\ CreateRefsAre(n)
         /\ Top = calls[n] /\ Top \in Frame /\ Top.fn = "create" /\ Top.key \in Slot
         /\ Top.todo \subseteq refs[Top.key] /\ entry[Top.key] = "progress"
         /\ \A i, j \in 1..n : calls[i].key = calls[j].key => i = j
         /\ \A i \in 1..n : calls[i].key \notin refs[Top.key]
         /\ \A i \in 1..n : calls[i].key \in Slot /\ calls[i] \in Frame
  <1>1. /\ calls # <<>> /\ n \in Nat \ {0} /\ n \in 1..n
        /\ Top = calls[n] /\ Top \in Frame /\ Top.fn = "create"
     BY TheTop
  <1>2. Creating(n) /\ CreateRefsAre(n)
     BY <1>1, CreatingNow, CreatingIsStack DEF CreatingFacts
  <1>3. \A i \in 1..n : CreateInv(i, n)
     BY <1>2 DEF Creating
  <1>4. Top.todo \subseteq refs[Top.key] /\ entry[Top.key] = "progress"
     BY <1>1, <1>3 DEF CreateInv
  <1>5. \A i, j \in 1..n : calls[i].key = calls[j].key => i = j
     BY <1>3, CreatedOnce DEF CreateInv
  <1>6. \A i \in 1..n : i <= n
     BY <1>1
  <1>7. \A i \in 1..n : calls[i].key \notin refs[Top.key]
     BY <1>1, <1>6, NoCycle DEF StackInv
  <1>8. \A i \in 1..n : calls[i] \in Frame
     BY ElementOfSeq DEF StackInv, CompositeTypeOK
  <1>9. \A i \in 1..n : calls[i].key \in Slot
     BY <1>3, <1>8, FrameIs DEF CreateInv
  <1> QED BY <1>1, <1>2, <1>4, <1>5, <1>7, <1>8, <1>9

(* It gets a value that is there. *)
LEMMA CreateGetsHit ==
  ASSUME StackAndCounts, NEW r \in Slot, CreateGets(r), entry[r] = "value"
  PROVE  StackAndCounts' /\ BaseStays
  <1>t. CompositeTypeOK /\ StackInv /\ CountsExact
     BY DEF StackAndCounts, StackInv
  <1>1. /\ In("create") /\ r \in Top.todo /\ AddHardRef(r)
        /\ calls' = Append(Front(calls), [Top EXCEPT !.todo = @ \ {r}])
        /\ UNCHANGED <<refs, unused, entry, evictPos, live, heldSlots, phase, crashed>>
     BY DEF CreateGets
  <1>2. PICK n : n = Len(calls)
     OBVIOUS
  <1>3. /\ n \in Nat \ {0} /\ n \in 1..n /\ calls # <<>> /\ Creating(n) /\ CreateRefsAre(n)
        /\ Top = calls[n] /\ Top \in Frame /\ Top.fn = "create" /\ Top.key \in Slot
        /\ Top.todo \subseteq refs[Top.key] /\ entry[Top.key] = "progress"
        /\ \A i, j \in 1..n : calls[i].key = calls[j].key => i = j
        /\ \A i \in 1..n : calls[i].key \in Slot /\ calls[i] \in Frame
     BY <1>1, <1>2, <1>t, CreateTop
  <1>4. PICK f : f = [Top EXCEPT !.todo = @ \ {r}]
     OBVIOUS
  <1>5. f \in Frame /\ f.fn = "create" /\ f.key = Top.key /\ f.todo = Top.todo \ {r}
     BY <1>3, <1>4, LessTodo
  <1>6. calls' \in Seq(Frame) /\ Len(calls') = n /\ calls'[n] = f /\ \A i \in 1..(n - 1) : calls'[i] = calls[i]
     <2>1. Goes(Append(Front(calls), f), calls, f)
        BY <1>3, <1>5, <1>t, TopGoes DEF CompositeTypeOK
     <2> QED BY <2>1, <1>1, <1>2, <1>4 DEF Goes
  <1>7. \A i \in 1..n : i = n \/ calls'[i] = calls[i]
     BY <1>3, <1>6
  <1>8. \A i \in 1..n : calls'[i].key = calls[i].key /\ calls'[i].fn = calls[i].fn
     BY <1>3, <1>5, <1>6, <1>7
  <1>9. /\ hardRefs' = [hardRefs EXCEPT ![r] = @ + 1]
        /\ slotItems' = slotItems + (IF hardRefs[r] = 0 THEN 1 ELSE 0)
     BY <1>1 DEF AddHardRef
  <1>10. CompositeTypeOK'
     BY <1>1, <1>6, <1>9, <1>t DEF CompositeTypeOK
  <1>e. entry' = entry /\ refs' = refs /\ live' = live
     BY <1>1
  <1>11. Creating(n)'
     <2>1. ASSUME NEW i \in 1..n PROVE CreateInv(i, n)'
        <3>0. CreateInv(i, n)
           BY <1>3 DEF Creating
        <3>1. CASE i = n
           <4>1. \A j \in 1..n : j # i + 1
              BY <1>3, <3>1
           <4>2. \A x \in refs[Top.key] \ f.todo : entry[x] = "value"
              <5>1. ASSUME NEW x \in refs[Top.key] \ f.todo PROVE entry[x] = "value"
                 <6>1. CASE x = r
                    BY <6>1
                 <6>2. CASE x # r
                    <7>1. x \in refs[calls[i].key] \ calls[i].todo
                       BY <6>2, <3>1, <1>3, <1>5
                    <7> QED BY <7>1, <4>1, <3>0 DEF CreateInv
                 <6> QED BY <6>1, <6>2
              <5> QED BY <5>1
           <4>3. f.todo \subseteq refs[Top.key]
              BY <1>3, <1>5
           <4>4. calls'[i] = f
              BY <3>1, <1>6
           <4> QED BY <4>1, <4>2, <4>3, <4>4, <1>e, <1>3, <1>5 DEF CreateInv
        <3>2. CASE i # n
           <4>1. calls'[i] = calls[i]
              BY <3>2, <1>7
           <4> QED BY <3>0, <4>1, <1>e, <1>8 DEF CreateInv
        <3> QED BY <3>1, <3>2
     <2>2. ASSUME NEW i \in Slot PROVE CreateKeyInv(i, n)'
        <3>0. CreateKeyInv(i, n)
           BY <1>3 DEF Creating
        <3>1. hardRefs'[i] > 0 => entry[i] = "value"
           BY <3>0, <1>9, <1>t DEF CompositeTypeOK, CreateKeyInv
        <3> QED BY <3>0, <3>1, <1>e, <1>8 DEF CreateKeyInv
     <2>3. \A i \in 1..Len(calls') : ~(i > n)
        BY <1>3, <1>6
     <2>4. phase' = "open" /\ Acyclic(refs)' /\ n <= Len(calls')
        BY <1>1, <1>3, <1>6 DEF Creating
     <2> QED BY <2>1, <2>2, <2>3, <2>4, <1>10 DEF Creating
  <1>12. StackInv' /\ CreateRefsAre(n)' /\ BaseStays
     BY <1>3, <1>11, CreatingNext
  <1>13. RefCome(r)
     <2>1. PICK j \in Slot : j = Top.key
        BY <1>3
     <2>2. RefsOf(j) = {x \in refs[j] \ Top.todo : entry[x] = "value"}
        BY <2>1, <1>3 DEF CreateRefsAre
     <2>3. RefsOf(j)' = {x \in refs[j] \ f.todo : entry[x] = "value"}
        <3>1. calls'[n].key = j /\ calls'[n].todo = f.todo
           BY <2>1, <1>5, <1>6
        <3> QED BY <3>1, <1>3, <1>12, <1>e DEF CreateRefsAre
     <2>4. r \notin RefsOf(j) /\ RefsOf(j)' = RefsOf(j) \cup {r}
        BY <2>1, <2>2, <2>3, <1>1, <1>3, <1>5
     <2>5. ASSUME NEW i \in Slot, i # j PROVE RefsOf(i)' = RefsOf(i)
        <3>1. CASE \E l \in 1..n : calls[l].key = i
           <4>1. PICK l \in 1..n : calls[l].key = i
              BY <3>1
           <4>2. l # n
              BY <4>1, <2>1, <2>5, <1>3
           <4>3. calls'[l].key = i /\ calls'[l].todo = calls[l].todo
              BY <4>1, <4>2, <1>7
           <4>4. RefsOf(i) = {x \in refs[i] \ calls[l].todo : entry[x] = "value"}
              BY <4>1, <1>3 DEF CreateRefsAre
           <4>5. RefsOf(i)' = {x \in refs[i] \ calls[l].todo : entry[x] = "value"}
              BY <4>1, <4>3, <1>12, <1>e DEF CreateRefsAre
           <4> QED BY <4>4, <4>5
        <3>2. CASE \A l \in 1..n : calls[l].key # i
           <4>1. RefsOf(i) = IF entry[i] = "value" THEN refs[i] ELSE {}
              BY <3>2, <1>3 DEF CreateRefsAre
           <4>2. \A l \in 1..n : calls'[l].key # i
              BY <3>2, <1>8
           <4>3. RefsOf(i)' = IF entry[i] = "value" THEN refs[i] ELSE {}
              BY <4>2, <1>12, <1>e DEF CreateRefsAre
           <4> QED BY <4>1, <4>3
        <3> QED BY <3>1, <3>2
     <2> QED BY <2>4, <2>5, <1>1 DEF RefCome
  <1>14. CountsExact'
     BY <1>9, <1>13, <1>t, CountsRise
  <1> QED BY <1>12, <1>14 DEF StackAndCounts

(* It gets one that has to be created first. *)
LEMMA CreateGetsMiss ==
  ASSUME StackAndCounts, NEW r \in Slot, CreateGets(r), entry[r] \notin {"value", "failed"}
  PROVE  StackAndCounts' /\ BaseStays
  <1>t. CompositeTypeOK /\ StackInv /\ CountsExact
     BY DEF StackAndCounts, StackInv
  <1>1. /\ In("create") /\ r \in Top.todo /\ entry' = [entry EXCEPT ![r] = "progress"]
        /\ calls' = Append(Append(Front(calls), [Top EXCEPT !.todo = @ \ {r}]), Create(r))
        /\ UNCHANGED <<refs, unused, evictPos, slotItems, hardRefs, live, heldSlots, phase, crashed>>
     BY DEF CreateGets
  <1>2. PICK n : n = Len(calls)
     OBVIOUS
  <1>3. /\ n \in Nat \ {0} /\ n \in 1..n /\ calls # <<>> /\ Creating(n) /\ CreateRefsAre(n)
        /\ Top = calls[n] /\ Top \in Frame /\ Top.fn = "create" /\ Top.key \in Slot
        /\ Top.todo \subseteq refs[Top.key] /\ entry[Top.key] = "progress"
        /\ \A i, j \in 1..n : calls[i].key = calls[j].key => i = j
        /\ \A i \in 1..n : calls[i].key \notin refs[Top.key]
        /\ \A i \in 1..n : calls[i].key \in Slot /\ calls[i] \in Frame
     BY <1>1, <1>2, <1>t, CreateTop
  <1>4. PICK f : f = [Top EXCEPT !.todo = @ \ {r}]
     OBVIOUS
  <1>5. f \in Frame /\ f.fn = "create" /\ f.key = Top.key /\ f.todo = Top.todo \ {r}
     <2>1. Top \in Frame /\ Top.fn \in {"create", "delete"} /\ Top.fn = "create"
        BY <1>3
     <2> QED BY <2>1, <1>4, LessTodo
  <1>g. PICK g : g = Create(r)
     OBVIOUS
  <1>h. g \in Frame /\ g.fn = "create" /\ g.key = r /\ g.todo = refs[r]
     BY <1>g, <1>t, CreateIs
  <1>m. PICK m \in Nat : m = n + 1
     BY <1>3
  <1>6. /\ calls' \in Seq(Frame) /\ Len(calls') = m /\ calls'[n] = f /\ calls'[m] = g
        /\ \A i \in 1..(n - 1) : calls'[i] = calls[i]
     <2>1. PICK c : c = Append(Front(calls), f)
        OBVIOUS
     <2>2. Goes(c, calls, f)
        BY <2>1, <1>3, <1>5, <1>t, TopGoes DEF CompositeTypeOK
     <2>3. c \in Seq(Frame) /\ Len(c) = n /\ c[n] = f /\ \A i \in 1..(n - 1) : c[i] = calls[i]
        BY <2>2, <1>2 DEF Goes
     <2>4. calls' = Append(c, g)
        BY <2>1, <1>1, <1>4, <1>g
     <2>5. /\ Append(c, g) \in Seq(Frame) /\ Len(Append(c, g)) = Len(c) + 1
           /\ \A i \in 1..(Len(c) + 1) : Append(c, g)[i] = IF i <= Len(c) THEN c[i] ELSE g
        BY <2>3, <1>h
     <2>6. /\ n \in 1..(n + 1) /\ m \in 1..(n + 1) /\ ~(m <= n) /\ n <= n
           /\ \A i \in 1..(n - 1) : i \in 1..(n + 1) /\ i <= n
        BY <1>3, <1>m
     <2> QED BY <2>3, <2>4, <2>5, <2>6, <1>m
  <1>7. \A i \in 1..m : i = m \/ i \in 1..n
     BY <1>3, <1>m
  <1>i. (\A i \in 1..n : i \in 1..m /\ i # m) /\ m \in 1..m /\ n <= m
     BY <1>3, <1>m
  <1>8. \A i \in 1..n : i = n \/ calls'[i] = calls[i]
     BY <1>3, <1>6
  <1>9. \A i \in 1..n : calls'[i].key = calls[i].key /\ calls'[i].fn = calls[i].fn
     BY <1>3, <1>5, <1>6, <1>8
  <1>10. CompositeTypeOK'
     BY <1>1, <1>6, <1>t DEF CompositeTypeOK
  <1>e. refs' = refs /\ live' = live /\ hardRefs' = hardRefs
     BY <1>1
  <1>11. entry[r] # "progress" /\ entry'[r] = "progress" /\ \A i \in Slot : i # r => entry'[i] = entry[i]
     <2>1. \A i \in 1..n : calls[i].key # r
        BY <1>1, <1>3
     <2>2. CreateKeyInv(r, n)
        BY <1>3 DEF Creating
     <2>3. entry[r] # "progress"
        BY <2>1, <2>2 DEF CreateKeyInv
     <2> QED BY <2>3, <1>1, <1>t DEF CompositeTypeOK
  <1>v. \A i \in Slot : entry'[i] = "value" <=> entry[i] = "value"
     BY <1>11
  <1>12. Creating(m)'
     <2>1. ASSUME NEW i \in 1..m PROVE CreateInv(i, m)'
        <3>1. CASE i = m
           <4>1. \A j \in 1..m : j # i + 1
              BY <1>m, <3>1
           <4>2. calls'[i] = g
              BY <3>1, <1>6
           <4> QED BY <4>1, <4>2, <1>h, <1>e, <1>11 DEF CreateInv
        <3>2. CASE i = n
           <4>0. CreateInv(n, n) /\ calls'[n] = f
              BY <1>3, <1>6 DEF Creating
           <4>1. \A x \in refs[Top.key] \ Top.todo : entry[x] = "value"
              <5>1. \A j \in 1..n : j # n + 1
                 BY <1>3
              <5> QED BY <4>0, <5>1, <1>3 DEF CreateInv
           <4>2. \A x \in refs[Top.key] \ f.todo : x \in Slot /\ (x = r \/ entry[x] = "value")
              BY <4>1, <1>5, <1>3, <1>t DEF CompositeTypeOK
           <4>3. \A x \in refs[Top.key] \ f.todo : entry'[x] = "value" \/ \E j \in 1..m : j = n + 1 /\ calls'[j].key = x
              <5>1. calls'[m].key = r /\ m \in 1..m /\ m = n + 1
                 BY <1>6, <1>h, <1>i, <1>m
              <5> QED BY <4>2, <5>1, <1>v
           <4>4. \A j \in 1..m : j = n + 1 => calls'[j].key \in refs[Top.key] \ f.todo
              <5>1. \A j \in 1..m : j = n + 1 => calls'[j].key = r
                 BY <1>6, <1>h, <1>m
              <5> QED BY <5>1, <1>1, <1>3, <1>5
           <4>5. f.todo \subseteq refs[Top.key]
              BY <1>3, <1>5
           <4>6. entry'[Top.key] = "progress"
              BY <1>3, <1>11
           <4> QED BY <3>2, <4>0, <4>3, <4>4, <4>5, <4>6, <1>e, <1>5 DEF CreateInv
        <3>3. CASE i \in 1..n /\ i # n
           <4>0. CreateInv(i, n)
              BY <3>3, <1>3 DEF Creating
           <4>1. calls'[i] = calls[i]
              BY <3>3, <1>8
           <4>2. \A j \in 1..m : j = i + 1 => j \in 1..n
              BY <3>3, <1>3, <1>m
           <4>3. \A j \in 1..m : j = i + 1 => calls'[j].key \in refs[calls[i].key] \ calls[i].todo
              BY <4>0, <4>2, <1>9 DEF CreateInv
           <4>4. \A x \in refs[calls[i].key] \ calls[i].todo :
                    entry'[x] = "value" \/ \E j \in 1..m : j = i + 1 /\ calls'[j].key = x
              <5>1. ASSUME NEW x \in refs[calls[i].key] \ calls[i].todo
                    PROVE  entry'[x] = "value" \/ \E j \in 1..m : j = i + 1 /\ calls'[j].key = x
                 <6>1. x \in Slot
                    BY <3>3, <1>3, <1>t DEF CompositeTypeOK
                 <6>2. entry[x] = "value" \/ \E j \in 1..n : j = i + 1 /\ calls[j].key = x
                    BY <4>0 DEF CreateInv
                 <6> QED BY <6>1, <6>2, <1>v, <1>9, <1>i
              <5> QED BY <5>1
           <4>5. entry'[calls[i].key] = "progress"
              BY <3>3, <4>0, <1>3, <1>11 DEF CreateInv
           <4> QED BY <4>0, <4>1, <4>3, <4>4, <4>5, <1>e DEF CreateInv
        <3> QED BY <3>1, <3>2, <3>3, <1>7
     <2>2. ASSUME NEW i \in Slot PROVE CreateKeyInv(i, m)'
        <3>0. CreateKeyInv(i, n)
           BY <1>3 DEF Creating
        <3>1. CASE i = r
           <4>1. calls'[m].key = r
              BY <1>6, <1>h
           <4>2. ~live[r] /\ ~(hardRefs[r] > 0)
              BY <3>0, <3>1 DEF CreateKeyInv
           <4> QED BY <3>1, <4>1, <4>2, <1>e, <1>i, <1>11 DEF CreateKeyInv
        <3>2. CASE i # r
           <4>1. entry'[i] = entry[i]
              BY <3>2, <1>11
           <4>2. entry[i] = "progress" => \E j \in 1..m : calls'[j].key = i
              BY <3>0, <1>9, <1>i DEF CreateKeyInv
           <4> QED BY <3>0, <4>1, <4>2, <1>e DEF CreateKeyInv
        <3> QED BY <3>1, <3>2
     <2>3. \A i \in 1..Len(calls') : ~(i > m)
        BY <1>m, <1>6
     <2>4. phase' = "open" /\ Acyclic(refs)' /\ m <= Len(calls')
        BY <1>1, <1>3, <1>m, <1>6 DEF Creating
     <2> QED BY <2>1, <2>2, <2>3, <2>4, <1>10 DEF Creating
  <1>13. StackInv' /\ CreateRefsAre(m)' /\ BaseStays
     BY <1>m, <1>12, CreatingNext
  <1>14. ASSUME NEW i \in Slot PROVE RefsOf(i)' = RefsOf(i)
     <2>1. CASE i = r
        <3>1. RefsOf(r) = IF entry[r] = "value" THEN refs[r] ELSE {}
           BY <1>1, <1>3 DEF CreateRefsAre
        <3>2. calls'[m].key = r /\ calls'[m].todo = refs'[r]
           BY <1>6, <1>h, <1>e
        <3>3. RefsOf(r)' = {x \in refs'[r] \ refs'[r] : entry'[x] = "value"}
           BY <3>2, <1>i, <1>13 DEF CreateRefsAre
        <3> QED BY <2>1, <3>1, <3>3
     <2>2. CASE \E l \in 1..n : calls[l].key = i
        <3>1. PICK l \in 1..n : calls[l].key = i
           BY <2>2
        <3>2. RefsOf(i) = {x \in refs[i] \ calls[l].todo : entry[x] = "value"}
           BY <3>1, <1>3 DEF CreateRefsAre
        <3>3. calls'[l].key = i /\ l \in 1..m
           BY <3>1, <1>9, <1>i
        <3>4. RefsOf(i)' = {x \in refs[i] \ calls'[l].todo : entry'[x] = "value"}
           BY <3>3, <1>13, <1>e DEF CreateRefsAre
        <3>5. \A x \in refs[i] : x \in Slot
           BY <1>t DEF CompositeTypeOK
        <3>6. CASE l # n
           <4>1. calls'[l] = calls[l]
              BY <3>6, <1>8
           <4> QED BY <4>1, <3>2, <3>4, <3>5, <1>v
        <3>7. CASE l = n
           <4>1. calls'[l].todo = calls[l].todo \ {r}
              BY <3>7, <1>3, <1>5, <1>6
           <4> QED BY <4>1, <3>2, <3>4, <3>5, <1>v
        <3> QED BY <3>6, <3>7
     <2>3. CASE i # r /\ \A l \in 1..n : calls[l].key # i
        <3>1. RefsOf(i) = IF entry[i] = "value" THEN refs[i] ELSE {}
           BY <2>3, <1>3 DEF CreateRefsAre
        <3>2. \A l \in 1..m : calls'[l].key # i
           BY <2>3, <1>6, <1>7, <1>9, <1>h
        <3>3. RefsOf(i)' = IF entry'[i] = "value" THEN refs[i] ELSE {}
           BY <3>2, <1>13, <1>e DEF CreateRefsAre
        <3> QED BY <3>1, <3>3, <1>v
     <2> QED BY <2>1, <2>2, <2>3
  <1>15. CountsExact'
     BY <1>1, <1>14, <1>t, CountsStay DEF RefsSame
  <1> QED BY <1>13, <1>15 DEF StackAndCounts

(* It returns. *)
LEMMA CreateEndsKeeps ==
  ASSUME StackAndCounts, CreateEnds
  PROVE  StackAndCounts' /\ BaseStays
  <1>t. CompositeTypeOK /\ StackInv /\ CountsExact
     BY DEF StackAndCounts, StackInv
  <1>k. PICK k : k = Top.key
     OBVIOUS
  <1>1. /\ In("create") /\ Top.todo = {} /\ entry' = [entry EXCEPT ![k] = "value"]
        /\ hardRefs' = [hardRefs EXCEPT ![k] = 1] /\ live' = [live EXCEPT ![k] = TRUE]
        /\ slotItems' = slotItems + 1
        /\ heldSlots' = IF Len(calls) = 1 THEN heldSlots \cup {k} ELSE heldSlots
        /\ calls' = Front(calls) \o Slice(Table, slotItems + 1)
        /\ UNCHANGED <<refs, unused, evictPos, phase, crashed>>
     BY <1>k DEF CreateEnds
  <1>2. PICK n : n = Len(calls)
     OBVIOUS
  <1>3. /\ n \in Nat \ {0} /\ n \in 1..n /\ calls # <<>> /\ Creating(n) /\ CreateRefsAre(n)
        /\ Top = calls[n] /\ Top \in Frame /\ Top.fn = "create" /\ k \in Slot
        /\ entry[k] = "progress"
        /\ \A i, j \in 1..n : calls[i].key = calls[j].key => i = j
        /\ \A i \in 1..n : calls[i].key \in Slot /\ calls[i] \in Frame
     BY <1>1, <1>2, <1>k, <1>t, CreateTop
  <1>m. PICK m \in Nat : m = n - 1
     BY <1>3
  <1>4. (\A i \in 1..m : i \in 1..n /\ i # n) /\ (\A i \in 1..n : i = n \/ i \in 1..m) /\ n \notin 1..m
     BY <1>3, <1>m
  <1>5. PICK slice : slice = Slice(Table, slotItems + 1)
     OBVIOUS
  <1>6. slice \in Seq(Frame) /\ Len(slice) \in {0, 1} /\ (Len(slice) = 1 => Turning(slice[1]))
     <2>1. slotItems + 1 \in Int
        BY <1>t DEF CompositeTypeOK
     <2> QED BY <2>1, <1>5, <1>t, SliceIs
  <1>7. /\ calls' \in Seq(Frame) /\ m <= Len(calls') /\ (\A i \in 1..m : calls'[i] = calls[i])
        /\ \A i \in 1..Len(calls') : i > m => Turning(calls'[i])
     <2>1. PICK p : p = Front(calls)
        OBVIOUS
     <2>2. p \in Seq(Frame) /\ Len(p) = m /\ \A i \in 1..m : p[i] = calls[i]
        BY <2>1, <1>2, <1>3, <1>m, <1>t, StackParts DEF CompositeTypeOK
     <2>3. On(calls', p, slice, <<>>)
        BY <2>1, <2>2, <1>1, <1>5, <1>6, OneOn
     <2>4. calls' \in Seq(Frame) /\ Len(calls') = m + Len(slice) + 0 /\ \A i \in 1..m : calls'[i] = calls[i]
        BY <2>2, <2>3, EmptySeq DEF On
     <2>5. ASSUME NEW i \in 1..Len(calls'), i > m PROVE Turning(calls'[i])
        <3>1. Len(slice) = 1 /\ i = m + 1
           <4>1. Len(calls') = m + Len(slice)
              BY <2>4, <1>6
           <4>2. Len(slice) = 0 => ~(i > m)
              BY <4>1, <1>m
           <4>3. Len(slice) = 1 => Len(calls') = m + 1
              BY <4>1
           <4> QED BY <4>2, <4>3, <2>5, <1>6, <1>m
        <3>2. calls'[m + 1] = slice[1]
           BY <3>1, <2>2, <2>3 DEF On
        <3> QED BY <3>1, <3>2, <1>6
     <2>6. m <= Len(calls')
        BY <2>4, <1>6
     <2> QED BY <2>4, <2>5, <2>6
  <1>8. ~live[k] /\ hardRefs[k] = 0
     BY <1>3, <1>t DEF Creating, CreateKeyInv, CompositeTypeOK
  <1>9. /\ entry'[k] = "value" /\ live'[k] /\ hardRefs'[k] = 1 /\ refs' = refs
        /\ \A i \in Slot : i # k => entry'[i] = entry[i] /\ live'[i] = live[i] /\ hardRefs'[i] = hardRefs[i]
     BY <1>1, <1>3, <1>t DEF CompositeTypeOK
  <1>10. CompositeTypeOK'
     <2>1. slotItems' \in Int /\ hardRefs' \in [Slot -> Nat]
        <3>1. slotItems \in Int /\ hardRefs \in [Slot -> Nat]
           BY <1>t DEF CompositeTypeOK
        <3>2. slotItems' = slotItems + 1 /\ hardRefs' = [hardRefs EXCEPT ![k] = 1]
           BY <1>1
        <3>3. slotItems' \in Int
           BY <3>1, <3>2
        <3>4. hardRefs' \in [Slot -> Nat]
           BY <3>1, <3>2
        <3> QED BY <3>3, <3>4
     <2>2. heldSlots' \subseteq Slot
        BY <1>1, <1>3, <1>t DEF CompositeTypeOK
     <2> QED BY <2>1, <2>2, <1>1, <1>7, <1>t DEF CompositeTypeOK
  <1>11. \A i \in 1..m : calls[i].key # k
     BY <1>3, <1>4, <1>k
  <1>12. Creating(m)'
     <2>1. ASSUME NEW i \in 1..m PROVE CreateInv(i, m)'
        <3>0. CreateInv(i, n)
           BY <1>3, <1>4 DEF Creating
        <3>1. calls'[i] = calls[i]
           BY <1>7
        <3>2. entry'[calls[i].key] = "progress"
           BY <3>0, <1>3, <1>4, <1>9, <1>11 DEF CreateInv
        <3>3. \A j \in 1..m : j = i + 1 => calls'[j].key \in refs[calls[i].key] \ calls[i].todo
           BY <3>0, <1>4, <1>7 DEF CreateInv
        <3>4. ASSUME NEW x \in refs[calls[i].key] \ calls[i].todo
              PROVE  entry'[x] = "value" \/ \E j \in 1..m : j = i + 1 /\ calls'[j].key = x
           <4>1. x \in Slot
              BY <1>3, <1>4, <1>t DEF CompositeTypeOK
           <4>2. CASE entry[x] = "value"
              BY <4>1, <4>2, <1>9
           <4>3. CASE \E j \in 1..n : j = i + 1 /\ calls[j].key = x
              <5>1. PICK j \in 1..n : j = i + 1 /\ calls[j].key = x
                 BY <4>3
              <5>2. CASE j = n
                 BY <5>1, <5>2, <1>3, <1>9, <1>k
              <5>3. CASE j \in 1..m
                 BY <5>1, <5>3, <1>7
              <5> QED BY <5>2, <5>3, <1>4
           <4> QED BY <4>2, <4>3, <3>0 DEF CreateInv
        <3> QED BY <3>0, <3>1, <3>2, <3>3, <3>4, <1>9 DEF CreateInv
     <2>2. ASSUME NEW i \in Slot PROVE CreateKeyInv(i, m)'
        <3>0. CreateKeyInv(i, n)
           BY <1>3 DEF Creating
        <3>1. CASE i = k
           BY <3>1, <1>9 DEF CreateKeyInv
        <3>2. CASE i # k
           <4>1. entry'[i] = entry[i] /\ live'[i] = live[i] /\ hardRefs'[i] = hardRefs[i]
              BY <3>2, <1>9
           <4>2. entry[i] = "progress" => \E j \in 1..m : calls'[j].key = i
              <5> HAVE entry[i] = "progress"
              <5>1. PICK j \in 1..n : calls[j].key = i
                 BY <3>0 DEF CreateKeyInv
              <5>2. j \in 1..m
                 BY <5>1, <3>2, <1>3, <1>4, <1>k
              <5> QED BY <5>1, <5>2, <1>7
           <4> QED BY <3>0, <4>1, <4>2 DEF CreateKeyInv
        <3> QED BY <3>1, <3>2
     <2>3. phase' = "open" /\ Acyclic(refs)'
        BY <1>1, <1>3 DEF Creating
     <2> QED BY <2>1, <2>2, <2>3, <1>7, <1>10 DEF Creating
  <1>13. StackInv' /\ CreateRefsAre(m)' /\ BaseStays
     BY <1>m, <1>12, CreatingNext
  <1>14. RefsOf(k)' = RefsOf(k)
     <2>1. CreateInv(n, n) /\ \A j \in 1..n : j # n + 1
        BY <1>3 DEF Creating
     <2>2. \A x \in refs[k] : entry[x] = "value"
        BY <2>1, <1>1, <1>3, <1>k DEF CreateInv
     <2>3. RefsOf(k) = {x \in refs[k] \ {} : entry[x] = "value"}
        BY <1>1, <1>3, <1>k DEF CreateRefsAre
     <2>4. \A i \in 1..m : calls'[i].key # k
        BY <1>7, <1>11
     <2>5. RefsOf(k)' = refs[k]
        BY <2>4, <1>3, <1>9, <1>13 DEF CreateRefsAre
     <2> QED BY <2>2, <2>3, <2>5
  <1>15. ASSUME NEW i \in Slot, i # k, \A j \in 1..m : calls[j].key # i PROVE RefsOf(i)' = RefsOf(i)
     <2>1. \A j \in 1..n : calls[j].key # i
        BY <1>15, <1>3, <1>4, <1>k
     <2>2. RefsOf(i) = IF entry[i] = "value" THEN refs[i] ELSE {}
        BY <2>1, <1>3 DEF CreateRefsAre
     <2>3. \A j \in 1..m : calls'[j].key # i
        BY <1>15, <1>7
     <2>4. RefsOf(i)' = IF entry'[i] = "value" THEN refs[i] ELSE {}
        BY <2>3, <1>9, <1>13 DEF CreateRefsAre
     <2> QED BY <2>2, <2>4, <1>15, <1>9
  <1>16. ASSUME NEW i \in 1..m
         PROVE  /\ RefsOf(calls[i].key) = {x \in refs[calls[i].key] \ calls[i].todo : entry[x] = "value"}
                /\ \A j \in Slot : j = calls[i].key => RefsOf(j)' = {x \in refs[j] \ calls[i].todo : entry'[x] = "value"}
     <2>1. RefsOf(calls[i].key) = {x \in refs[calls[i].key] \ calls[i].todo : entry[x] = "value"}
        BY <1>3, <1>4 DEF CreateRefsAre
     <2>2. ASSUME NEW j \in Slot, j = calls[i].key PROVE RefsOf(j)' = {x \in refs[j] \ calls[i].todo : entry'[x] = "value"}
        <3>1. calls'[i].key = j /\ calls'[i].todo = calls[i].todo
           BY <2>2, <1>7
        <3> QED BY <3>1, <1>9, <1>13 DEF CreateRefsAre
     <2> QED BY <2>1, <2>2
  <1>17. RefCome(k)
     <2>1. CASE n = 1
        <3>1. \A i \in 1..m : FALSE
           BY <2>1, <1>m
        <3>2. RefsSame
           BY <3>1, <1>14, <1>15 DEF RefsSame
        <3>3. heldSlots' = heldSlots \cup {k}
           BY <2>1, <1>1, <1>2
        <3>4. k \notin heldSlots
           BY <1>3, <1>8, <1>t, Referred
        <3> QED BY <3>2, <3>3, <3>4, <1>3 DEF RefCome
     <2>2. CASE n # 1
        <3>1. m \in 1..m /\ m + 1 = n /\ m \in 1..n
           BY <2>2, <1>3, <1>m
        <3>2. PICK j \in Slot : j = calls[m].key
           BY <3>1, <1>3
        <3>3. k \in refs[j] \ calls[m].todo
           <4>1. CreateInv(m, n)
              BY <3>1, <1>3 DEF Creating
           <4> QED BY <4>1, <3>1, <3>2, <1>3, <1>k DEF CreateInv
        <3>4. RefsOf(j) = {x \in refs[j] \ calls[m].todo : entry[x] = "value"}
           BY <3>1, <3>2, <1>16
        <3>5. RefsOf(j)' = {x \in refs[j] \ calls[m].todo : entry'[x] = "value"}
           BY <3>1, <3>2, <1>16
        <3>6. \A x \in refs[j] : x \in Slot
           BY <1>t DEF CompositeTypeOK
        <3>7. k \notin RefsOf(j) /\ RefsOf(j)' = RefsOf(j) \cup {k}
           BY <3>3, <3>4, <3>5, <3>6, <1>3, <1>9
        <3>8. ASSUME NEW i \in Slot, i # j PROVE RefsOf(i)' = RefsOf(i)
           <4>1. CASE i = k
              BY <4>1, <1>14
           <4>2. CASE i # k /\ \A l \in 1..m : calls[l].key # i
              BY <4>2, <1>15
           <4>3. CASE \E l \in 1..m : calls[l].key = i
              <5>1. PICK l \in 1..m : calls[l].key = i
                 BY <4>3
              <5>2. l # m
                 BY <5>1, <3>2, <3>8
              <5>3. k \notin refs[i] \ calls[l].todo
                 <6> SUFFICES ASSUME k \in refs[i] \ calls[l].todo PROVE FALSE
                    OBVIOUS
                 <6>1. CreateInv(l, n)
                    BY <1>3, <1>4 DEF Creating
                 <6>2. PICK h \in 1..n : h = l + 1 /\ calls[h].key = k
                    BY <5>1, <6>1, <1>3 DEF CreateInv
                 <6>3. h = n
                    BY <6>2, <1>3, <1>k
                 <6> QED BY <6>2, <6>3, <5>2, <1>m, <1>3
              <5>4. RefsOf(i) = {x \in refs[i] \ calls[l].todo : entry[x] = "value"}
                 BY <5>1, <1>16
              <5>5. RefsOf(i)' = {x \in refs[i] \ calls[l].todo : entry'[x] = "value"}
                 BY <5>1, <1>16
              <5>6. \A x \in refs[i] : x \in Slot
                 BY <1>t DEF CompositeTypeOK
              <5> QED BY <5>3, <5>4, <5>5, <5>6, <1>9
           <4> QED BY <4>1, <4>2, <4>3
        <3>9. heldSlots' = heldSlots
           BY <2>2, <1>1, <1>2
        <3> QED BY <3>7, <3>8, <3>9 DEF RefCome
     <2> QED BY <2>1, <2>2
  <1>18. CountsExact'
     <2>1. hardRefs' = [hardRefs EXCEPT ![k] = @ + 1]
        BY <1>1, <1>8, <1>3, <1>t DEF CompositeTypeOK
     <2>2. slotItems' = slotItems + (IF hardRefs[k] = 0 THEN 1 ELSE 0)
        BY <1>1, <1>8
     <2> QED BY <2>1, <2>2, <1>3, <1>17, <1>t, CountsRise
  <1> QED BY <1>13, <1>18 DEF StackAndCounts

-------------------------------------------------------------------------------
(* A creation that fails gives its references back, one by one. *)
LEMMA SliceOn ==
  ASSUME NEW p \in Seq(Frame), NEW x \in Seq(Frame), Len(x) \in {0, 1}, Len(x) = 1 => Turning(x[1])
  PROVE  /\ p \o x \in Seq(Frame) /\ Len(p) <= Len(p \o x)
         /\ \A i \in 1..Len(p) : (p \o x)[i] = p[i]
         /\ \A i \in 1..Len(p \o x) : i > Len(p) => Turning((p \o x)[i])
  <1>1. On(p \o x, p, x, <<>>) /\ Len(p) \in Nat
     BY OneOn, LenProperties
  <1>2. PICK t : t = p \o x
     OBVIOUS
  <1>3. /\ t \in Seq(Frame) /\ Len(t) = Len(p) + Len(x) /\ (\A i \in 1..Len(p) : t[i] = p[i])
        /\ Len(x) = 1 => t[Len(p) + 1] = x[1]
     BY <1>1, <1>2, EmptySeq DEF On
  <1>4. \A i \in 1..Len(t) : i > Len(p) => Len(x) = 1 /\ i = Len(p) + 1
     <2>1. CASE Len(x) = 0
        BY <2>1, <1>1, <1>3
     <2>2. CASE Len(x) = 1
        BY <2>2, <1>1, <1>3
     <2> QED BY <2>1, <2>2
  <1>5. \A i \in 1..Len(t) : i > Len(p) => Turning(t[i])
     BY <1>3, <1>4
  <1> QED BY <1>1, <1>2, <1>3, <1>5

LEMMA CreateFailsKeeps ==
  ASSUME StackAndCounts, In("create"),
         calls' = Append(Front(calls), [Top EXCEPT !.fails = TRUE]),
         UNCHANGED <<refs, unused, entry, evictPos, slotItems, hardRefs, live, heldSlots, phase, crashed>>
  PROVE  StackAndCounts' /\ BaseStays
  <1>t. CompositeTypeOK /\ StackInv /\ CountsExact
     BY DEF StackAndCounts, StackInv
  <1>2. PICK n : n = Len(calls)
     OBVIOUS
  <1>3. /\ n \in Nat \ {0} /\ calls # <<>> /\ Creating(n) /\ CreateRefsAre(n)
        /\ Top = calls[n] /\ Top \in Frame /\ Top.fn = "create" /\ Top.key \in Slot
     BY <1>2, <1>t, CreateTop
  <1>4. PICK f : f = [Top EXCEPT !.fails = TRUE]
     OBVIOUS
  <1>5. f \in Frame /\ f.fn = "create" /\ f.key = Top.key /\ f.todo = Top.todo
     BY <1>3, <1>4, FailIs
  <1>6. calls' \in Seq(Frame) /\ Len(calls') = n /\ calls'[n] = f /\ \A i \in 1..(n - 1) : calls'[i] = calls[i]
     <2>1. Goes(Append(Front(calls), f), calls, f)
        BY <1>3, <1>5, <1>t, TopGoes DEF CompositeTypeOK
     <2> QED BY <2>1, <1>2, <1>4 DEF Goes
  <1>7. \A i \in 1..n : i = n \/ calls'[i] = calls[i]
     BY <1>3, <1>6
  <1>8. \A i \in 1..n : calls'[i].fn = calls[i].fn /\ calls'[i].key = calls[i].key /\ calls'[i].todo = calls[i].todo
     BY <1>3, <1>5, <1>6, <1>7
  <1>e. entry' = entry /\ refs' = refs /\ live' = live /\ hardRefs' = hardRefs
     OBVIOUS
  <1>9. Creating(n)'
     <2>1. ASSUME NEW i \in 1..n PROVE CreateInv(i, n)'
        <3>1. CreateInv(i, n)
           BY <1>3 DEF Creating
        <3>2. calls'[i].fn = calls[i].fn /\ calls'[i].key = calls[i].key /\ calls'[i].todo = calls[i].todo
           BY <1>8
        <3>3. \A j \in 1..n : j = i + 1 => calls'[j].key \in refs[calls[i].key] \ calls[i].todo
           BY <3>1, <1>8 DEF CreateInv
        <3>4. \A x \in refs[calls[i].key] \ calls[i].todo :
                 entry[x] = "value" \/ \E j \in 1..n : j = i + 1 /\ calls'[j].key = x
           <4> TAKE x \in refs[calls[i].key] \ calls[i].todo
           <4>1. CASE entry[x] = "value"
              BY <4>1
           <4>2. CASE \E j \in 1..n : j = i + 1 /\ calls[j].key = x
              <5>1. PICK j \in 1..n : j = i + 1 /\ calls[j].key = x
                 BY <4>2
              <5>2. calls'[j].key = x
                 BY <5>1, <1>8
              <5> QED BY <5>1, <5>2
           <4> QED BY <3>1, <4>1, <4>2 DEF CreateInv
        <3> QED BY <3>1, <3>2, <3>3, <3>4, <1>e DEF CreateInv
     <2>2. ASSUME NEW k \in Slot PROVE CreateKeyInv(k, n)'
        <3>1. CreateKeyInv(k, n)
           BY <1>3 DEF Creating
        <3> QED BY <3>1, <1>8, <1>e DEF CreateKeyInv
     <2>3. CompositeTypeOK'
        BY <1>6, <1>t DEF CompositeTypeOK
     <2>4. /\ phase' = "open" /\ Acyclic(refs)' /\ n <= Len(calls')
           /\ \A i \in 1..Len(calls') : ~(i > n)
        BY <1>3, <1>6 DEF Creating
     <2> QED BY <2>1, <2>2, <2>3, <2>4 DEF Creating
  <1>10. StackInv' /\ CreateRefsAre(n)' /\ BaseStays
     BY <1>3, <1>9, CreatingNext
  <1>11. ASSUME NEW j \in Slot PROVE RefsOf(j)' = RefsOf(j)
     <2>1. CASE \E i \in 1..n : calls[i].key = j
        <3>1. PICK i \in 1..n : calls[i].key = j
           BY <2>1
        <3>2. RefsOf(j) = {x \in refs[j] \ calls[i].todo : entry[x] = "value"}
           BY <3>1, <1>3 DEF CreateRefsAre
        <3>3. calls'[i].key = j /\ calls'[i].todo = calls[i].todo
           BY <3>1, <1>8
        <3>4. RefsOf(j)' = {x \in refs[j] \ calls[i].todo : entry[x] = "value"}
           BY <3>3, <1>10, <1>e DEF CreateRefsAre
        <3> QED BY <3>2, <3>4
     <2>2. CASE \A i \in 1..n : calls[i].key # j
        <3>1. RefsOf(j) = IF entry[j] = "value" THEN refs[j] ELSE {}
           BY <2>2, <1>3 DEF CreateRefsAre
        <3>2. \A i \in 1..n : calls'[i].key # j
           BY <2>2, <1>8
        <3>3. RefsOf(j)' = IF entry[j] = "value" THEN refs[j] ELSE {}
           BY <3>2, <1>10, <1>e DEF CreateRefsAre
        <3> QED BY <3>1, <3>3
     <2> QED BY <2>1, <2>2
  <1>12. CountsExact'
     BY <1>11, <1>t, CountsStay DEF RefsSame
  <1> QED BY <1>10, <1>12 DEF StackAndCounts

LEMMA CreateReleasesKeeps ==
  ASSUME StackAndCounts, NEW r \in Slot, CreateReleases(r)
  PROVE  StackAndCounts' /\ BaseStays
  <1>t. CompositeTypeOK /\ StackInv /\ CountsExact
     BY DEF StackAndCounts, StackInv
  <1>1. /\ In("create") /\ r \in refs[Top.key] \ Top.todo
        /\ RemoveHardRef(r, Append(Front(calls), [Top EXCEPT !.todo = @ \cup {r}]))
        /\ UNCHANGED <<refs, unused, entry, evictPos, live, heldSlots, phase, crashed>>
     BY DEF CreateReleases
  <1>2. PICK n : n = Len(calls)
     OBVIOUS
  <1>3. /\ n \in Nat \ {0} /\ n \in 1..n /\ calls # <<>> /\ Creating(n) /\ CreateRefsAre(n)
        /\ Top = calls[n] /\ Top \in Frame /\ Top.fn = "create" /\ Top.key \in Slot
        /\ Top.todo \subseteq refs[Top.key]
        /\ \A i, j \in 1..n : calls[i].key = calls[j].key => i = j
     BY <1>1, <1>2, <1>t, CreateTop
  <1>4. PICK f : f = [Top EXCEPT !.todo = @ \cup {r}]
     OBVIOUS
  <1>5. f \in Frame /\ f.fn = "create" /\ f.key = Top.key /\ f.todo = Top.todo \cup {r}
     <2>1. Top \in Frame /\ Top.fn = "create" /\ r \in Slot
        BY <1>3
     <2> QED BY <2>1, <1>4, FailIs
  <1>6. entry[r] = "value"
     <2>1. CreateInv(n, n) /\ \A j \in 1..n : j # n + 1
        BY <1>3 DEF Creating
     <2> QED BY <2>1, <1>1, <1>3 DEF CreateInv
  <1>7. hardRefs[r] > 0 /\ hardRefs[r] \in Nat
     BY <1>1, <1>2, <1>3, <1>6, <1>t, GotIsCounted DEF CompositeTypeOK
  <1>8. PICK inUse : inUse = slotItems - (IF hardRefs[r] = 1 THEN 1 ELSE 0)
     OBVIOUS
  <1>9. PICK slice : slice = IF hardRefs[r] = 1 THEN Slice(Table, inUse) ELSE <<>>
     OBVIOUS
  <1>10. inUse \in Int /\ slice \in Seq(Frame) /\ Len(slice) \in {0, 1} /\ (Len(slice) = 1 => Turning(slice[1]))
     BY <1>8, <1>9, <1>t, ReleaseCalls
  <1>11. hardRefs' = [hardRefs EXCEPT ![r] = @ - 1] /\ slotItems' = inUse
     BY <1>1, <1>8 DEF RemoveHardRef
  <1>12. /\ calls' \in Seq(Frame) /\ n <= Len(calls') /\ calls'[n] = f /\ (\A i \in 1..(n - 1) : calls'[i] = calls[i])
         /\ \A i \in 1..Len(calls') : i > n => Turning(calls'[i])
     <2>1. PICK c : c = Append(Front(calls), f)
        OBVIOUS
     <2>2. Goes(c, calls, f)
        BY <2>1, <1>3, <1>5, <1>t, TopGoes DEF CompositeTypeOK
     <2>3. c \in Seq(Frame) /\ Len(c) = n /\ c[n] = f /\ \A i \in 1..(n - 1) : c[i] = calls[i]
        BY <2>2, <1>2 DEF Goes
     <2>4. c \o <<>> = c
        BY <2>3, ConcatEmptySeq
     <2>5. calls' = c \o <<>> \o slice
        BY <2>1, <1>1, <1>4, <1>6, <1>8, <1>9 DEF RemoveHardRef
     <2>6. calls' = c \o slice
        BY <2>4, <2>5
     <2>7. /\ calls' \in Seq(Frame) /\ n <= Len(calls') /\ (\A i \in 1..n : calls'[i] = c[i])
           /\ \A i \in 1..Len(calls') : i > n => Turning(calls'[i])
        BY <2>3, <2>6, <1>10, SliceOn
     <2>8. \A i \in 1..(n - 1) : i \in 1..n
        BY <1>3
     <2> QED BY <2>3, <2>7, <2>8, <1>3
  <1>13. \A i \in 1..n : i = n \/ calls'[i] = calls[i]
     BY <1>3, <1>12
  <1>14. \A i \in 1..n : calls'[i].key = calls[i].key /\ calls'[i].fn = calls[i].fn
     BY <1>3, <1>5, <1>12, <1>13
  <1>15. CompositeTypeOK'
     <2>1. hardRefs' \in [Slot -> Nat]
        BY <1>7, <1>11, <1>t DEF CompositeTypeOK
     <2> QED BY <2>1, <1>1, <1>10, <1>11, <1>12, <1>t DEF CompositeTypeOK
  <1>e. entry' = entry /\ refs' = refs /\ live' = live
     BY <1>1
  <1>16. Creating(n)'
     <2>1. ASSUME NEW i \in 1..n PROVE CreateInv(i, n)'
        <3>0. CreateInv(i, n)
           BY <1>3 DEF Creating
        <3>1. CASE i = n
           <4>1. \A j \in 1..n : j # i + 1
              BY <1>3, <3>1
           <4>2. \A x \in refs[Top.key] \ f.todo : entry[x] = "value"
              BY <3>0, <3>1, <4>1, <1>3, <1>5 DEF CreateInv
           <4>3. f.todo \subseteq refs[Top.key]
              BY <1>1, <1>3, <1>5
           <4>4. calls'[i] = f /\ entry[Top.key] = "progress"
              BY <3>0, <3>1, <1>3, <1>12 DEF CreateInv
           <4> QED BY <4>1, <4>2, <4>3, <4>4, <1>e, <1>5 DEF CreateInv
        <3>2. CASE i # n
           <4>1. calls'[i] = calls[i]
              BY <3>2, <1>13
           <4> QED BY <3>0, <4>1, <1>e, <1>14 DEF CreateInv
        <3> QED BY <3>1, <3>2
     <2>2. ASSUME NEW i \in Slot PROVE CreateKeyInv(i, n)'
        <3>0. CreateKeyInv(i, n)
           BY <1>3 DEF Creating
        <3>1. hardRefs'[i] > 0 => entry[i] = "value"
           BY <3>0, <1>6, <1>11, <1>t DEF CompositeTypeOK, CreateKeyInv
        <3> QED BY <3>0, <3>1, <1>e, <1>14 DEF CreateKeyInv
     <2>3. phase' = "open" /\ Acyclic(refs)'
        BY <1>1, <1>3 DEF Creating
     <2> QED BY <2>1, <2>2, <2>3, <1>12, <1>15 DEF Creating
  <1>17. StackInv' /\ CreateRefsAre(n)' /\ BaseStays
     BY <1>3, <1>16, CreatingNext
  <1>18. RefGone(r)
     <2>1. PICK j \in Slot : j = Top.key
        BY <1>3
     <2>2. RefsOf(j) = {x \in refs[j] \ Top.todo : entry[x] = "value"}
        BY <2>1, <1>3 DEF CreateRefsAre
     <2>3. RefsOf(j)' = {x \in refs[j] \ f.todo : entry[x] = "value"}
        <3>1. calls'[n].key = j /\ calls'[n].todo = f.todo
           BY <2>1, <1>5, <1>12
        <3> QED BY <3>1, <1>3, <1>17, <1>e DEF CreateRefsAre
     <2>4. r \in RefsOf(j) /\ RefsOf(j)' = RefsOf(j) \ {r}
        BY <2>1, <2>2, <2>3, <1>1, <1>5, <1>6
     <2>5. ASSUME NEW i \in Slot, i # j PROVE RefsOf(i)' = RefsOf(i)
        <3>1. CASE \E l \in 1..n : calls[l].key = i
           <4>1. PICK l \in 1..n : calls[l].key = i
              BY <3>1
           <4>2. l # n
              BY <4>1, <2>1, <2>5, <1>3
           <4>3. calls'[l].key = i /\ calls'[l].todo = calls[l].todo
              BY <4>1, <4>2, <1>13
           <4>4. RefsOf(i) = {x \in refs[i] \ calls[l].todo : entry[x] = "value"}
              BY <4>1, <1>3 DEF CreateRefsAre
           <4>5. RefsOf(i)' = {x \in refs[i] \ calls[l].todo : entry[x] = "value"}
              BY <4>1, <4>3, <1>17, <1>e DEF CreateRefsAre
           <4> QED BY <4>4, <4>5
        <3>2. CASE \A l \in 1..n : calls[l].key # i
           <4>1. RefsOf(i) = IF entry[i] = "value" THEN refs[i] ELSE {}
              BY <3>2, <1>3 DEF CreateRefsAre
           <4>2. \A l \in 1..n : calls'[l].key # i
              BY <3>2, <1>14
           <4>3. RefsOf(i)' = IF entry[i] = "value" THEN refs[i] ELSE {}
              BY <4>2, <1>17, <1>e DEF CreateRefsAre
           <4> QED BY <4>1, <4>3
        <3> QED BY <3>1, <3>2
     <2> QED BY <2>4, <2>5, <1>1 DEF RefGone
  <1>19. CountsExact'
     BY <1>8, <1>11, <1>18, <1>t, CountsFall
  <1> QED BY <1>17, <1>19 DEF StackAndCounts

(* It returns NULL, and the creation that called get, if any, fails as well. *)
LEMMA CreateFailEndsKeeps ==
  ASSUME StackAndCounts, CreateFailEnds
  PROVE  StackAndCounts' /\ BaseStays
  <1>t. CompositeTypeOK /\ StackInv /\ CountsExact
     BY DEF StackAndCounts, StackInv
  <1>k. PICK k : k = Top.key
     OBVIOUS
  <1>c. PICK caller : caller = Last(Front(calls))
     OBVIOUS
  <1>g. PICK g : g = [caller EXCEPT !.fails = TRUE, !.todo = @ \cup {k}]
     OBVIOUS
  <1>1. /\ In("create") /\ Top.todo = refs[k] /\ entry' = [entry EXCEPT ![k] = "failed"]
        /\ calls' = (IF Len(calls) = 1 THEN <<>> ELSE Append(Front(Front(calls)), g)) \o Slice(Table, slotItems)
        /\ UNCHANGED <<refs, unused, evictPos, slotItems, hardRefs, live, heldSlots, phase, crashed>>
     BY <1>k, <1>c, <1>g DEF CreateFailEnds
  <1>2. PICK n : n = Len(calls)
     OBVIOUS
  <1>3. /\ n \in Nat \ {0} /\ n \in 1..n /\ calls # <<>> /\ Creating(n) /\ CreateRefsAre(n)
        /\ Top = calls[n] /\ Top \in Frame /\ Top.fn = "create" /\ k \in Slot
        /\ entry[k] = "progress"
        /\ \A i, j \in 1..n : calls[i].key = calls[j].key => i = j
        /\ \A i \in 1..n : calls[i].key \in Slot /\ calls[i] \in Frame
     BY <1>1, <1>2, <1>k, <1>t, CreateTop
  <1>m. PICK m \in Nat : m = n - 1
     BY <1>3
  <1>4. (\A i \in 1..m : i \in 1..n /\ i # n) /\ (\A i \in 1..n : i = n \/ i \in 1..m) /\ n \notin 1..m
     BY <1>3, <1>m
  <1>5. m > 0 => /\ m \in 1..m /\ m + 1 = n /\ k \in refs[calls[m].key] \ calls[m].todo
                 /\ calls[m] \in Frame /\ calls[m].fn = "create"
     <2> HAVE m > 0
     <2>1. m \in 1..n /\ m \in 1..m /\ m + 1 = n
        BY <1>3, <1>m
     <2>2. CreateInv(m, n)
        BY <2>1, <1>3 DEF Creating
     <2> QED BY <2>1, <2>2, <1>3, <1>k DEF CreateInv
  <1>p. PICK p : p = IF Len(calls) = 1 THEN <<>> ELSE Append(Front(Front(calls)), g)
     OBVIOUS
  <1>6. /\ p \in Seq(Frame) /\ Len(p) = m /\ (\A i \in 1..(m - 1) : p[i] = calls[i])
        /\ m > 0 => /\ p[m] = g /\ g \in Frame /\ g.fn = "create"
                    /\ g.key = calls[m].key /\ g.todo = calls[m].todo \cup {k}
     <2>1. CASE m = 0
        <3>1. n = 1 /\ ~(m > 0) /\ \A i \in 1..(m - 1) : FALSE
           BY <2>1, <1>3, <1>m
        <3>2. p = <<>>
           BY <3>1, <1>2, <1>p
        <3>3. p \in Seq(Frame) /\ Len(p) = 0
           BY <3>2, EmptySeq
        <3> QED BY <3>1, <3>3, <2>1
     <2>2. CASE m > 0
        <3>1. PICK s : s = Front(calls)
           OBVIOUS
        <3>2. s \in Seq(Frame) /\ Len(s) = m /\ \A i \in 1..m : s[i] = calls[i]
           BY <3>1, <1>2, <1>3, <1>m, <1>t, StackParts DEF CompositeTypeOK
        <3>3. s # <<>>
           BY <3>2, <2>2, EmptySeq
        <3>4. caller = calls[m]
           BY <3>1, <3>2, <3>3, <1>5, <1>c, <2>2, StackParts
        <3>5. g \in Frame /\ g.fn = "create" /\ g.key = calls[m].key /\ g.todo = calls[m].todo \cup {k}
           <4>1. caller \in Frame /\ caller.fn = "create" /\ k \in Slot
              BY <3>4, <2>2, <1>3, <1>5
           <4>2. g \in Frame /\ g.fn = "create" /\ g.key = caller.key /\ g.todo = caller.todo \cup {k}
              BY <4>1, <1>g, FailIs
           <4> QED BY <3>4, <4>2
        <3>6. Goes(Append(Front(s), g), s, g)
           BY <3>2, <3>3, <3>5, TopGoes
        <3>7. p = Append(Front(s), g)
           BY <3>1, <2>2, <1>2, <1>3, <1>m, <1>p
        <3>8. p \in Seq(Frame) /\ Len(p) = m /\ p[m] = g /\ \A i \in 1..(m - 1) : p[i] = s[i]
           BY <3>2, <3>6, <3>7 DEF Goes
        <3>9. \A i \in 1..(m - 1) : i \in 1..m
           BY <1>m
        <3> QED BY <3>2, <3>5, <3>8, <3>9
     <2>3. m = 0 \/ m > 0
        BY <1>3, <1>m
     <2> QED BY <2>1, <2>2, <2>3, Zenon
  <1>7. /\ calls' \in Seq(Frame) /\ m <= Len(calls') /\ (\A i \in 1..m : calls'[i] = p[i])
        /\ \A i \in 1..Len(calls') : i > m => Turning(calls'[i])
     <2>1. PICK slice : slice = Slice(Table, slotItems)
        OBVIOUS
     <2>2. slice \in Seq(Frame) /\ Len(slice) \in {0, 1} /\ (Len(slice) = 1 => Turning(slice[1]))
        BY <2>1, <1>t, SliceIs DEF CompositeTypeOK
     <2>3. calls' = p \o slice
        BY <2>1, <1>1, <1>p
     <2> QED BY <2>2, <2>3, <1>6, SliceOn
  <1>8. \A i \in 1..m : /\ i = m \/ calls'[i] = calls[i]
                        /\ calls'[i].fn = "create" /\ calls'[i].key = calls[i].key
                        /\ i = m => calls'[i].todo = calls[i].todo \cup {k}
     <2>1. ASSUME NEW i \in 1..m PROVE i = m \/ calls'[i] = calls[i]
        <3>1. i = m \/ i \in 1..(m - 1)
           BY <1>m
        <3> QED BY <3>1, <1>6, <1>7
     <2>2. ASSUME NEW i \in 1..m PROVE calls[i].fn = "create"
        BY <1>3, <1>4 DEF Creating, CreateInv
     <2>3. m > 0 => calls'[m] = g
        BY <1>5, <1>6, <1>7
     <2>4. (\E i \in 1..m : TRUE) => m > 0
        BY <1>m
     <2> QED BY <2>1, <2>2, <2>3, <2>4, <1>6
  <1>9. /\ entry'[k] = "failed" /\ refs' = refs /\ live' = live /\ hardRefs' = hardRefs
        /\ \A i \in Slot : i # k => entry'[i] = entry[i]
     BY <1>1, <1>3, <1>t DEF CompositeTypeOK
  <1>v. \A i \in Slot : entry'[i] = "value" <=> entry[i] = "value"
     BY <1>3, <1>9
  <1>10. CompositeTypeOK'
     BY <1>1, <1>7, <1>t DEF CompositeTypeOK
  <1>11. \A i \in 1..m : calls[i].key # k
     BY <1>3, <1>4, <1>k
  <1>12. Creating(m)'
     <2>1. ASSUME NEW i \in 1..m PROVE CreateInv(i, m)'
        <3>0. CreateInv(i, n) /\ calls[i].key \in Slot
           BY <1>3, <1>4 DEF Creating
        <3>1. entry'[calls[i].key] = "progress"
           BY <3>0, <1>9, <1>11 DEF CreateInv
        <3>2. \A x \in refs[calls[i].key] : x \in Slot
           BY <3>0, <1>t DEF CompositeTypeOK
        <3>3. CASE i = m
           <4>1. \A j \in 1..m : j # i + 1
              BY <3>3, <1>m
           <4>2. m > 0 /\ calls'[i].todo = calls[i].todo \cup {k}
              BY <3>3, <1>m, <1>8
           <4>3. calls'[i].todo \subseteq refs[calls[i].key]
              BY <3>0, <3>3, <4>2, <1>5 DEF CreateInv
           <4>4. ASSUME NEW x \in refs[calls[i].key] \ calls'[i].todo PROVE entry'[x] = "value"
              <5>1. x \in Slot /\ x # k /\ x \in refs[calls[i].key] \ calls[i].todo
                 BY <3>2, <4>2
              <5>2. ASSUME NEW j \in 1..n, j = i + 1, calls[j].key = x PROVE FALSE
                 BY <5>1, <5>2, <3>3, <4>2, <1>3, <1>5, <1>k
              <5>3. entry[x] = "value"
                 BY <5>1, <5>2, <3>0 DEF CreateInv
              <5> QED BY <5>1, <5>3, <1>v
           <4> QED BY <3>1, <4>1, <4>3, <4>4, <1>8, <1>9 DEF CreateInv
        <3>4. CASE i # m
           <4>1. calls'[i] = calls[i]
              BY <3>4, <1>8
           <4>2. \A j \in 1..n : j = i + 1 => j \in 1..m
              BY <3>4, <1>3, <1>m
           <4>3. \A j \in 1..m : j = i + 1 => calls'[j].key \in refs[calls[i].key] \ calls[i].todo
              BY <3>0, <1>4, <1>8 DEF CreateInv
           <4>4. \A x \in refs[calls[i].key] \ calls[i].todo :
                    entry'[x] = "value" \/ \E j \in 1..m : j = i + 1 /\ calls'[j].key = x
              BY <3>0, <3>2, <4>2, <1>8, <1>v DEF CreateInv
           <4> QED BY <3>0, <3>1, <4>1, <4>3, <4>4, <1>9 DEF CreateInv
        <3> QED BY <3>3, <3>4
     <2>2. ASSUME NEW i \in Slot PROVE CreateKeyInv(i, m)'
        <3>0. CreateKeyInv(i, n)
           BY <1>3 DEF Creating
        <3>1. CASE i = k
           BY <3>0, <3>1, <1>3, <1>9 DEF CreateKeyInv
        <3>2. CASE i # k
           <4>1. entry'[i] = entry[i]
              BY <3>2, <1>9
           <4>2. entry[i] = "progress" => \E j \in 1..m : calls'[j].key = i
              <5> HAVE entry[i] = "progress"
              <5>1. PICK j \in 1..n : calls[j].key = i
                 BY <3>0 DEF CreateKeyInv
              <5>2. j \in 1..m
                 BY <5>1, <3>2, <1>3, <1>4, <1>k
              <5> QED BY <5>1, <5>2, <1>8
           <4> QED BY <3>0, <4>1, <4>2, <1>9 DEF CreateKeyInv
        <3> QED BY <3>1, <3>2
     <2>3. phase' = "open" /\ Acyclic(refs)'
        BY <1>1, <1>3 DEF Creating
     <2> QED BY <2>1, <2>2, <2>3, <1>7, <1>10 DEF Creating
  <1>13. StackInv' /\ CreateRefsAre(m)' /\ BaseStays
     BY <1>m, <1>12, CreatingNext
  <1>14. ASSUME NEW j \in Slot PROVE RefsOf(j)' = RefsOf(j)
     <2>1. CASE j = k
        <3>1. RefsOf(k) = {x \in refs[k] \ refs[k] : entry[x] = "value"}
           BY <1>1, <1>3, <1>k DEF CreateRefsAre
        <3>2. \A i \in 1..m : calls'[i].key # k
           BY <1>8, <1>11
        <3>3. RefsOf(k)' = {}
           BY <3>2, <1>3, <1>9, <1>13 DEF CreateRefsAre
        <3> QED BY <2>1, <3>1, <3>3
     <2>2. CASE \E i \in 1..m : calls[i].key = j
        <3>1. PICK i \in 1..m : calls[i].key = j
           BY <2>2
        <3>2. RefsOf(j) = {x \in refs[j] \ calls[i].todo : entry[x] = "value"}
           BY <3>1, <1>3, <1>4 DEF CreateRefsAre
        <3>3. calls'[i].key = j
           BY <3>1, <1>8
        <3>4. RefsOf(j)' = {x \in refs[j] \ calls'[i].todo : entry'[x] = "value"}
           BY <3>3, <1>13, <1>9 DEF CreateRefsAre
        <3>5. \A x \in refs[j] : x \in Slot
           BY <1>t DEF CompositeTypeOK
        <3>6. calls'[i].todo = calls[i].todo \/ calls'[i].todo = calls[i].todo \cup {k}
           BY <1>8
        <3> QED BY <3>2, <3>4, <3>5, <3>6, <1>3, <1>v
     <2>3. CASE j # k /\ \A i \in 1..m : calls[i].key # j
        <3>1. \A i \in 1..n : calls[i].key # j
           BY <2>3, <1>3, <1>4, <1>k
        <3>2. RefsOf(j) = IF entry[j] = "value" THEN refs[j] ELSE {}
           BY <3>1, <1>3 DEF CreateRefsAre
        <3>3. \A i \in 1..m : calls'[i].key # j
           BY <2>3, <1>8
        <3>4. RefsOf(j)' = IF entry'[j] = "value" THEN refs[j] ELSE {}
           BY <3>3, <1>9, <1>13 DEF CreateRefsAre
        <3> QED BY <3>2, <3>4, <1>v
     <2> QED BY <2>1, <2>2, <2>3
  <1>15. CountsExact'
     BY <1>1, <1>14, <1>t, CountsStay DEF RefsSame
  <1> QED BY <1>13, <1>15 DEF StackAndCounts

-------------------------------------------------------------------------------
(* What a flush has still to do.  The pass that takes everything has turns   *)
(* for all of the table; a pass that has evicted nothing yet has turns up to *)
(* every element it could evict.                                             *)
Ahead(k) == {j \in Table : IF k > evictPos THEN evictPos < j /\ j <= k ELSE evictPos < j \/ j <= k}
PassInv ==
  Len(calls) > 0 /\ calls[1].fn = "flush" =>
     /\ calls[1].all => Cardinality(Table) <= calls[1].left
     /\ ~calls[1].all /\ ~calls[1].result
          => \A k \in Slot : Evictable(k) => Cardinality(Ahead(k)) <= calls[1].left
FlushInv == PassInv /\ (phase = "closed" => Table = {})

CallsInv == StackAndCounts /\ FlushInv

LEMMA FewerSlots ==
  ASSUME NEW S \in SUBSET Slot, NEW T \in SUBSET S
  PROVE  Cardinality(S) \in Nat /\ Cardinality(T) \in Nat /\ Cardinality(T) <= Cardinality(S)
  <1>1. IsFiniteSet(S) /\ Cardinality(S) \in Nat /\ T \in SUBSET Slot /\ Cardinality(T) \in Nat
     BY SlotsFinite
  <1> QED BY <1>1, FS_Subset

LEMMA AheadIs ==
  ASSUME CompositeTypeOK
  PROVE  /\ Table \in SUBSET Slot /\ Slot \subseteq Nat /\ evictPos \in Nat
         /\ \A k \in Slot : Ahead(k) \in SUBSET Table
         /\ \A k \in Slot : Evictable(k) => k \in Table /\ k \in Ahead(k)
  <1>1. Table \in SUBSET Slot /\ Slot \subseteq Nat /\ evictPos \in Nat
     BY SlotsFinite, SlotAssumption DEF CompositeTypeOK, Table
  <1>2. ASSUME NEW k \in Slot, Evictable(k) PROVE k \in Table /\ k \in Ahead(k)
     <2>1. k \in Table
        BY <1>2 DEF Evictable, Table
     <2> QED BY <1>1, <2>1 DEF Ahead
  <1> QED BY <1>1, <1>2 DEF Ahead

LEMMA BaseKeeps ==
  ASSUME StackAndCounts, FlushInv, BaseStays
  PROVE  FlushInv'
  <1>1. phase' # "closed"
     BY DEF BaseStays
  <1>2. CASE ~(Len(calls') > 0 /\ calls'[1].fn = "flush")
     BY <1>1, <1>2 DEF FlushInv, PassInv
  <1>3. CASE Len(calls) > 1 /\ calls'[1] = calls[1] /\ Table' \subseteq Table
     <2>1. calls[1].fn = "flush" => calls[1].result \/ calls[1].all
        <3>1. Len(calls) \in Nat /\ Len(calls) > 0 /\ Len(calls) # 1
           <4>1. Len(calls) \in Nat
              BY LenProperties DEF StackAndCounts, StackInv, CompositeTypeOK
           <4>2. Len(calls) > 1
              BY <1>3
           <4>3. PICK m : m = Len(calls)
              OBVIOUS
           <4>4. m \in Nat /\ m > 1
              BY <4>1, <4>2, <4>3
           <4>5. m > 0 /\ m # 1
              BY <4>4
           <4> QED BY <4>1, <4>3, <4>5
        <3> QED BY <3>1 DEF StackAndCounts, StackInv, PhaseInv
     <2>2. Cardinality(Table') <= Cardinality(Table) /\ Cardinality(Table) \in Nat /\ Cardinality(Table') \in Nat
        <3>1. Table \in SUBSET Slot
           BY DEF Table
        <3> QED BY <3>1, <1>3, FewerSlots
     <2>3. calls[1].fn = "flush" /\ calls[1].all => Cardinality(Table) <= calls[1].left /\ calls[1].left \in Nat
        <3> HAVE calls[1].fn = "flush" /\ calls[1].all
        <3>1. Len(calls) \in Nat /\ Len(calls) > 0 /\ calls[1] \in Frame
           BY <1>3, LenProperties, ElementOfSeq DEF StackAndCounts, StackInv, CompositeTypeOK
        <3> QED BY <3>1, FrameIs DEF FlushInv, PassInv
     <2>4. calls[1].fn = "flush" /\ calls[1].all => Cardinality(Table') <= calls[1].left
        BY <2>2, <2>3
     <2> QED BY <1>1, <1>3, <2>1, <2>4 DEF FlushInv, PassInv
  <1> QED BY <1>2, <1>3 DEF BaseStays

LEMMA NewPassKeeps ==
  ASSUME CompositeTypeOK', NEW all \in BOOLEAN, NewPass(calls', all), entry' = entry, phase' # "closed"
  PROVE  FlushInv'
  <1>1. Table' = Table
     BY DEF Table
  <1>2. calls'[1].left = Cardinality(Table')
     BY <1>1 DEF NewPass
  <1>3. Table' \in SUBSET Slot /\ \A k \in Slot : Ahead(k)' \in SUBSET Table'
     BY DEF Table, Ahead
  <1>4. Cardinality(Table') \in Nat /\ \A k \in Slot : Cardinality(Ahead(k)') <= Cardinality(Table')
     BY <1>3, FewerSlots
  <1>5. PassInv'
     BY <1>2, <1>4 DEF PassInv
  <1> QED BY <1>5 DEF FlushInv

(* A turn takes one element from those ahead. *)
LEMMA TurnAhead ==
  ASSUME CompositeTypeOK, Table # {}, NEW k, k = NextElement, evictPos' = k, entry' = entry,
         NEW e \in Table, e # k
  PROVE  k \in Ahead(e) /\ Ahead(e)' \subseteq Ahead(e) \ {k}
  <1>1. /\ k \in Table
        /\ \A j \in Table : IF k > evictPos THEN evictPos < j => k <= j
                                            ELSE ~(evictPos < j) /\ k <= j
     BY NextElementIs
  <1>2. Table \subseteq Nat /\ evictPos \in Nat /\ Table' = Table /\ k \in Nat /\ e \in Nat
     <2>1. Table \subseteq Nat /\ evictPos \in Nat
        BY AheadIs
     <2> QED BY <2>1, <1>1 DEF Table
  <1>3. k \in Ahead(e)
     BY <1>1, <1>2 DEF Ahead
  <1>4. ASSUME NEW j \in Ahead(e)' PROVE j \in Ahead(e) /\ j # k
     <2>1. j \in Table /\ j \in Nat /\ IF e > k THEN k < j /\ j <= e ELSE k < j \/ j <= e
        BY <1>2 DEF Ahead
     <2>2. j # k
        BY <1>2, <2>1
     <2>3. j \in Ahead(e)
        <3>1. CASE k > evictPos
           BY <3>1, <2>1, <1>1, <1>2 DEF Ahead
        <3>2. CASE ~(k > evictPos)
           BY <3>2, <2>1, <1>1, <1>2 DEF Ahead
        <3> QED BY <3>1, <3>2
     <2> QED BY <2>2, <2>3
  <1> QED BY <1>3, <1>4

LEMMA FlushTurnFlush ==
  ASSUME StackAndCounts, FlushInv, FlushTurn, FlushTurned(NextElement)
  PROVE  FlushInv'
  <1>t. CompositeTypeOK /\ StackInv
     BY DEF StackAndCounts, StackInv
  <1>1. In("flush") /\ Top.left > 0 /\ UNCHANGED <<hardRefs, phase>>
     BY DEF FlushTurn
  <1>2. /\ Len(calls) = 1 /\ Top = calls[1] /\ Top.fn = "flush" /\ Top.left \in Nat /\ phase # "closed"
     BY <1>1, <1>t, FlushIs
  <1>3. Table \in SUBSET Slot /\ \A k \in Slot : Ahead(k) \in SUBSET Table
     BY <1>t, AheadIs
  <1>4. CASE Table = {} /\ UNCHANGED <<entry, calls, evictPos>>
     <2>1. Table' = Table /\ \A k \in Slot : Evictable(k)' = Evictable(k) /\ Ahead(k)' = Ahead(k)
        BY <1>1, <1>4 DEF Table, Evictable, Ahead
     <2> QED BY <2>1, <1>1, <1>4 DEF FlushInv, PassInv
  <1>5. CASE Table # {}
     <2>1. PICK k : k = NextElement
        OBVIOUS
     <2>2. /\ Len(calls') > 0 /\ calls'[1].fn = "flush" /\ calls'[1].left = Top.left - 1
           /\ calls'[1].all <=> Top.all
           /\ calls'[1].result <=> Top.result \/ Top.all \/ Evictable(k)
           /\ evictPos' = k
           /\ Top.all \/ Evictable(k) => entry' = [entry EXCEPT ![k] = "none"]
           /\ ~(Top.all \/ Evictable(k)) => entry' = entry
        BY <1>5, <2>1 DEF FlushTurned
     <2>3. k \in Table /\ k \in Slot
        BY <2>1, <1>3, <1>5, <1>t, NextElementIs
     <2>4. ASSUME calls'[1].all PROVE Cardinality(Table') <= calls'[1].left
        <3>1. entry' = [entry EXCEPT ![k] = "none"] /\ Top.all
           BY <2>2, <2>4
        <3>2. Table' = Table \ {k}
           BY <3>1, <2>3, <1>t DEF Table, CompositeTypeOK
        <3>3. Cardinality(Table') = Cardinality(Table) - 1 /\ Cardinality(Table) \in Nat
           BY <3>2, <2>3, <1>3, OneLess
        <3>4. Cardinality(Table) <= Top.left
           BY <3>1, <1>2 DEF FlushInv, PassInv
        <3> QED BY <3>3, <3>4, <2>2, <1>2
     <2>5. ASSUME ~calls'[1].all, ~calls'[1].result, NEW e \in Slot, Evictable(e)'
           PROVE  Cardinality(Ahead(e)') <= calls'[1].left
        <3>1. ~Top.all /\ ~Top.result /\ ~Evictable(k) /\ entry' = entry
           BY <2>2, <2>5
        <3>2. Evictable(e) /\ e # k
           BY <3>1, <2>5, <1>1 DEF Evictable
        <3>3. e \in Table
           BY <3>2 DEF Evictable, Table
        <3>4. k \in Ahead(e) /\ Ahead(e)' \subseteq Ahead(e) \ {k}
           BY <3>1, <3>2, <3>3, <2>1, <2>2, <1>5, <1>t, TurnAhead
        <3>5. Ahead(e) \in SUBSET Slot
           BY <1>3
        <3>6. Cardinality(Ahead(e) \ {k}) = Cardinality(Ahead(e)) - 1 /\ Cardinality(Ahead(e)) \in Nat
              /\ Ahead(e) \ {k} \in SUBSET Slot
           BY <3>4, <3>5, OneLess
        <3>7. Cardinality(Ahead(e)') <= Cardinality(Ahead(e) \ {k}) /\ Cardinality(Ahead(e)') \in Nat
           BY <3>4, <3>6, FewerSlots
        <3>8. Cardinality(Ahead(e)) <= Top.left
           BY <3>1, <3>2, <1>2 DEF FlushInv, PassInv
        <3> QED BY <3>6, <3>7, <3>8, <2>2, <1>2
     <2> QED BY <2>4, <2>5, <1>1, <1>2 DEF FlushInv, PassInv
  <1> QED BY <1>4, <1>5 DEF FlushTurned

(* Nothing is left when a flush ends. *)
LEMMA FlushLeaves ==
  ASSUME StackAndCounts, FlushInv, FlushTurnsEnd, ~Top.result \/ Top.all
  PROVE  (Top.all => Table = {}) /\ \A k \in Slot : ~Evictable(k)
  <1>t. CompositeTypeOK /\ StackInv
     BY DEF StackAndCounts, StackInv
  <1>1. In("flush") /\ Top.left = 0
     BY DEF FlushTurnsEnd
  <1>2. /\ Len(calls) = 1 /\ Top = calls[1] /\ Top.fn = "flush"
     BY <1>1, <1>t, FlushIs
  <1>3. Table \in SUBSET Slot /\ (\A k \in Slot : Ahead(k) \in SUBSET Table)
        /\ \A k \in Slot : Evictable(k) => k \in Table /\ k \in Ahead(k)
     BY <1>t, AheadIs
  <1>4. ASSUME NEW S \in SUBSET Slot, NEW x \in S PROVE ~(Cardinality(S) <= 0)
     <2>1. Cardinality(S) \in Nat /\ Cardinality(S \ {x}) \in Nat /\ Cardinality(S \ {x}) = Cardinality(S) - 1
        BY OneLess
     <2> QED BY <2>1
  <1>5. ASSUME Top.all PROVE Table = {}
     <2>1. Cardinality(Table) <= 0
        BY <1>1, <1>2, <1>5 DEF FlushInv, PassInv
     <2> QED BY <2>1, <1>3, <1>4
  <1>6. ASSUME ~Top.all, NEW k \in Slot, Evictable(k) PROVE FALSE
     <2>1. Cardinality(Ahead(k)) <= 0
        BY <1>1, <1>2, <1>6 DEF FlushInv, PassInv
     <2> QED BY <2>1, <1>3, <1>4, <1>6
  <1> QED BY <1>3, <1>5, <1>6

LEMMA FlushTurnsEndFlush ==
  ASSUME StackAndCounts, StackAndCounts', FlushInv, FlushTurnsEnd
  PROVE  FlushInv'
  <1>t. CompositeTypeOK /\ StackInv /\ CompositeTypeOK'
     BY DEF StackAndCounts, StackInv
  <1>1. /\ In("flush") /\ PassEnd /\ entry' = entry
     BY <1>t, TurnsEnd
  <1>2. phase # "closed"
     BY <1>1, <1>t, FlushIs
  <1>3. CASE (NewPass(calls', FALSE) \/ NewPass(calls', TRUE)) /\ phase' = phase
     BY <1>1, <1>2, <1>3, <1>t, NewPassKeeps
  <1>4. CASE /\ phase = "closing" => Top.all
             /\ ~Top.result \/ Top.all
             /\ calls' = <<>>
             /\ phase' = IF phase = "closing" THEN "closed" ELSE phase
     <2>1. Len(calls') = 0
        BY <1>4, EmptySeq
     <2>2. phase' = "closed" => Table = {}
        BY <1>2, <1>4, FlushLeaves
     <2>3. Table' = Table
        BY <1>1 DEF Table
     <2> QED BY <2>1, <2>2, <2>3 DEF FlushInv, PassInv
  <1> QED BY <1>1, <1>3, <1>4 DEF PassEnd

-------------------------------------------------------------------------------
(* The invariant. *)
LEMMA InvHoldsAtFirst == CompositeInit => CallsInv
  <1> SUFFICES ASSUME CompositeInit PROVE CallsInv
     OBVIOUS
  <1>1. /\ refs \in [Slot -> SUBSET Slot] /\ Acyclic(refs) /\ unused \in Unused
        /\ entry = [k \in Slot |-> "none"] /\ evictPos = 0 /\ slotItems = 0
        /\ hardRefs = [k \in Slot |-> 0] /\ live = [k \in Slot |-> FALSE]
        /\ heldSlots = {} /\ calls = <<>> /\ phase = "open" /\ crashed = FALSE
     BY DEF CompositeInit, UHASH_FIRST
  <1>2. calls \in Seq(Frame) /\ Len(calls) = 0
     BY <1>1, EmptySeq
  <1>3. CompositeTypeOK
     <2>1. evictPos \in 0..Slots
        BY <1>1, SlotAssumption
     <2>2. entry \in [Slot -> {"none", "progress", "value", "failed"}] /\ hardRefs \in [Slot -> Nat] /\ live \in [Slot -> BOOLEAN]
        BY <1>1
     <2>3. refs \in [Slot -> SUBSET Slot] /\ unused \in Unused /\ slotItems \in Int
        BY <1>1
     <2>4. heldSlots \subseteq Slot /\ phase \in {"open", "closing", "closed"} /\ crashed \in BOOLEAN
        BY <1>1
     <2> QED BY <2>1, <2>2, <2>3, <2>4, <1>2 DEF CompositeTypeOK
  <1>4. StackInv
     <2>1. \A k \in Slot : KeyInv(k)
        BY <1>1 DEF KeyInv
     <2> QED BY <2>1, <1>1, <1>2, <1>3 DEF StackInv, ChainInv, GotInv, DeleteInv, PhaseInv
  <1>5. \A j \in Slot : RefsOf(j) = {}
     <2>1. ASSUME NEW j \in Slot PROVE RefsOf(j) = {}
        <3>1. ~Under("create", j) /\ ~Under("delete", j) /\ ~live[j]
           BY <1>1, <1>2 DEF Under
        <3> QED BY <3>1, <1>4, RefsAreThese DEF RefsAre
     <2> QED BY <2>1
  <1>6. CountsExact
     <2>1. ASSUME NEW k \in Slot PROVE hardRefs[k] = Cardinality(Referrers(k)) + (IF k \in heldSlots THEN 1 ELSE 0)
        <3>1. Referrers(k) = {}
           BY <1>5 DEF Referrers
        <3>2. Cardinality(Referrers(k)) = 0
           BY <3>1, FS_EmptySet
        <3> QED BY <3>2, <1>1
     <2>2. {k \in Slot : hardRefs[k] > 0} = {}
        BY <1>1
     <2>3. Cardinality({k \in Slot : hardRefs[k] > 0}) = 0
        BY <2>2, FS_EmptySet
     <2> QED BY <2>1, <2>3, <1>1 DEF CountsExact
  <1>7. FlushInv
     BY <1>1, <1>2 DEF FlushInv, PassInv
  <1> QED BY <1>4, <1>6, <1>7 DEF CallsInv, StackAndCounts

LEMMA InvHoldsNext == CallsInv /\ [CompositeNext]_compositeVars => CallsInv'
  <1> SUFFICES ASSUME CallsInv, [CompositeNext]_compositeVars PROVE CallsInv'
     OBVIOUS
  <1>0. StackAndCounts /\ FlushInv
     BY DEF CallsInv
  <1>b. ASSUME StackAndCounts' /\ BaseStays PROVE CallsInv'
     BY <1>0, <1>b, BaseKeeps DEF CallsInv
  <1>1. ASSUME NEW k \in Slot, ClientGets(k) PROVE CallsInv'
     <2>1. CASE entry[k] = "value"
        BY <1>0, <1>b, <1>1, <2>1, ClientGetsHit
     <2>2. CASE entry[k] # "value"
        BY <1>0, <1>b, <1>1, <2>2, ClientGetsMiss
     <2> QED BY <2>1, <2>2
  <1>2. ASSUME NEW k \in Slot, ClientReleases(k) PROVE CallsInv'
     BY <1>0, <1>b, <1>2, ClientReleasesKeeps
  <1>3. ASSUME NEW r \in Slot, CreateGets(r) PROVE CallsInv'
     <2>1. CASE entry[r] = "value"
        BY <1>0, <1>b, <1>3, <2>1, CreateGetsHit
     <2>2. CASE entry[r] \notin {"value", "failed"}
        BY <1>0, <1>b, <1>3, <2>2, CreateGetsMiss
     <2>3. CASE entry[r] = "failed"
        <3>1. /\ In("create") /\ calls' = Append(Front(calls), [Top EXCEPT !.fails = TRUE])
              /\ UNCHANGED <<refs, unused, entry, evictPos, slotItems, hardRefs, live, heldSlots, phase, crashed>>
           BY <1>3, <2>3 DEF CreateGets
        <3> QED BY <1>0, <1>b, <3>1, CreateFailsKeeps
     <2> QED BY <2>1, <2>2, <2>3
  <1>4. ASSUME NEW r \in Slot, DeleteReleases(r) PROVE CallsInv'
     BY <1>0, <1>b, <1>4, DeleteReleasesKeeps
  <1>5. CASE CreateEnds
     BY <1>0, <1>b, <1>5, CreateEndsKeeps
  <1>f. CASE CreateGivesUp
     BY <1>0, <1>b, <1>f, CreateFailsKeeps DEF CreateGivesUp
  <1>r. ASSUME NEW r \in Slot, CreateReleases(r) PROVE CallsInv'
     BY <1>0, <1>b, <1>r, CreateReleasesKeeps
  <1>e. CASE CreateFailEnds
     BY <1>0, <1>b, <1>e, CreateFailEndsKeeps
  <1>6. CASE DeleteEnds
     BY <1>0, <1>b, <1>6, DeleteEndsKeeps
  <1>7. CASE SliceTurn
     BY <1>0, <1>b, <1>7, SliceTurnKeeps
  <1>8. CASE FlushTurn
     <2>1. StackAndCounts' /\ FlushTurned(NextElement)
        BY <1>0, <1>8, FlushTurnKeeps
     <2> QED BY <2>1, <1>0, <1>8, FlushTurnFlush DEF CallsInv
  <1>9. CASE FlushTurnsEnd
     <2>1. StackAndCounts'
        BY <1>0, <1>9, FlushTurnsEndKeeps
     <2> QED BY <2>1, <1>0, <1>9, FlushTurnsEndFlush DEF CallsInv
  <1>10. CASE ClientFlushes \/ ClientCloses
     <2>1. StackAndCounts' /\ NewPass(calls', FALSE) /\ phase' # "closed" /\ entry' = entry
        BY <1>0, <1>10, ClientFlushesKeeps
     <2>2. FlushInv'
        BY <2>1, NewPassKeeps DEF StackAndCounts, StackInv
     <2> QED BY <2>1, <2>2 DEF CallsInv
  <1>11. CASE ClientSetsPolicy
     BY <1>0, <1>b, <1>11, ClientSetsPolicyKeeps
  <1>12. CASE UNCHANGED compositeVars
     <2>1. UNCHANGED <<refs, entry, evictPos, slotItems, hardRefs, live, heldSlots, calls, phase>> /\ CompositeTypeOK'
        BY <1>0, <1>12 DEF compositeVars, StackAndCounts, StackInv, CompositeTypeOK
     <2>2. StackAndCounts'
        BY <2>1, <1>0, StackUnchanged
     <2>3. Table' = Table /\ \A k \in Slot : Evictable(k)' = Evictable(k) /\ Ahead(k)' = Ahead(k)
        BY <2>1 DEF Table, Evictable, Ahead
     <2>4. FlushInv'
        BY <2>1, <2>3, <1>0 DEF FlushInv, PassInv
     <2> QED BY <2>2, <2>4 DEF CallsInv
  <1> QED BY <1>1, <1>2, <1>3, <1>4, <1>5, <1>6, <1>7, <1>8, <1>9, <1>10, <1>11, <1>12, <1>f, <1>r, <1>e
       DEF CompositeNext, CallSteps

(* The calls under way, the values and the counts fit together, and a flush  *)
(* has as many turns left as it needs, in every state.                       *)
THEOREM CallsInvAlways == CompositeSpec => []CallsInv
  <1> QED BY InvHoldsAtFirst, InvHoldsNext, PTL DEF CompositeSpec

-------------------------------------------------------------------------------
(* What is referred to or in the table is alive: its destructor has not      *)
(* begun, and none begins twice.                                             *)
LEMMA NothingDangles == CallsInv => NoDanglingRef
  <1> SUFFICES ASSUME CallsInv PROVE NoDanglingRef
     OBVIOUS
  <1>0. StackInv /\ CountsExact /\ CompositeTypeOK
     BY DEF CallsInv, StackAndCounts, StackInv
  <1>d. DOMAIN calls = 1..Len(calls)
     BY <1>0, LenProperties DEF CompositeTypeOK
  <1>1. ASSUME NEW k \in Slot, Referrers(k) # {} \/ k \in heldSlots \/ entry[k] = "value"
        PROVE  live[k] /\ Frames("delete", k) = {}
     <2>1. hardRefs[k] > 0 \/ entry[k] = "value"
        BY <1>0, <1>1, Referred DEF Referrers
     <2>2. live[k]
        BY <1>0, <2>1 DEF StackInv, KeyInv
     <2>3. ASSUME NEW i \in 1..Len(calls), calls[i].fn = "delete", calls[i].key = k PROVE FALSE
        BY <1>0, <2>1, <2>3 DEF StackInv, CallInv
     <2> QED BY <1>d, <2>2, <2>3 DEF Frames
  <1>2. ASSUME NEW k \in Slot PROVE Cardinality(Frames("delete", k)) <= 1
     <2>1. PICK F : F = Frames("delete", k)
        OBVIOUS
     <2>2. \A i, j \in F : i = j
        BY <1>0, <1>d, <2>1 DEF Frames, StackInv, DeleteInv
     <2>3. CASE F = {}
        BY <2>1, <2>3, FS_EmptySet
     <2>4. CASE F # {}
        <3>1. PICK i : i \in F
           BY <2>4
        <3>2. F = {i}
           BY <3>1, <2>2
        <3>3. Cardinality({i}) = 1
           BY FS_Singleton
        <3> QED BY <2>1, <3>2, <3>3
     <2> QED BY <2>3, <2>4
  <1> QED BY <1>1, <1>2 DEF NoDanglingRef

(* At every depth of nested slices, destructors and creations the hard count *)
(* of a value is the number of those who refer to it, fItemsInUseCount is    *)
(* the number of values with a hard count, and nothing that is referred to   *)
(* or in the table is in its destructor.                                     *)
THEOREM CompositeInvAlways == CompositeSpec => []CompositeInv
  <1>1. CallsInv => CompositeInv
     BY NothingDangles DEF CompositeInv, CallsInv, StackAndCounts, StackInv
  <1> QED BY <1>1, CallsInvAlways, PTL

(* The destructor of the cache empties the table, and the values that are    *)
(* left are those the client refers to, directly or through others.          *)
THEOREM ClosedReleasesAllAlways == CompositeSpec => []ClosedReleasesAll
  <1>1. CallsInv => ClosedReleasesAll
     <2> SUFFICES ASSUME CallsInv, phase = "closed"
                  PROVE  Table = {} /\ \A k \in Slot : live[k] => k \in heldSlots \/ Referrers(k) # {}
        BY DEF ClosedReleasesAll
     <2>1. StackInv /\ CountsExact /\ CompositeTypeOK /\ Table = {}
        BY DEF CallsInv, StackAndCounts, StackInv, FlushInv
     <2>2. ASSUME NEW k \in Slot, live[k] PROVE k \in heldSlots \/ Referrers(k) # {}
        <3>1. ~Under("delete", k)
           BY <2>1 DEF StackInv, PhaseInv, Under
        <3>2. entry[k] # "value"
           BY <2>1 DEF Table
        <3>3. hardRefs[k] > 0
           BY <2>1, <2>2, <3>1, <3>2 DEF StackInv, KeyInv
        <3>4. Cardinality({}) = 0
           BY FS_EmptySet
        <3>5. hardRefs[k] = Cardinality(Referrers(k)) + (IF k \in heldSlots THEN 1 ELSE 0)
           BY <2>1 DEF CountsExact
        <3> QED BY <3>3, <3>4, <3>5
     <2> QED BY <2>1, <2>2
  <1> QED BY <1>1, CallsInvAlways, PTL

(* "Use a loop in case cache items that are flushed held hard references to  *)
(* other cache items making those additional cache items eligible for        *)
(* flushing": when flush returns nothing can be evicted.                     *)
THEOREM FlushCompleteAlways == CompositeSpec => FlushComplete
  <1>1. CallsInv /\ [CompositeNext]_compositeVars
          => [calls # <<>> /\ calls' = <<>> /\ Top.fn = "flush" => \A k \in Slot : ~Evictable(k)']_compositeVars
     <2> SUFFICES ASSUME CallsInv, [CompositeNext]_compositeVars, calls # <<>>, calls' = <<>>, Top.fn = "flush",
                         NEW k \in Slot
                  PROVE  ~Evictable(k)'
        OBVIOUS
     <2>0. StackAndCounts /\ FlushInv /\ StackInv
        BY DEF CallsInv, StackAndCounts
     <2>l. Len(calls') = 0
        BY EmptySeq
     <2>1. ~Idle
        BY DEF Idle
     <2>2. ~In("create") /\ ~In("delete") /\ ~In("slice")
        BY DEF In
     <2>3. calls' # calls
        OBVIOUS
     <2>4. CompositeNext
        BY <2>3 DEF compositeVars
     <2>5. FlushTurn \/ FlushTurnsEnd
        <3>1. ~ClientFlushes /\ ~ClientCloses /\ ~ClientSetsPolicy
           BY <2>1 DEF ClientFlushes, ClientCloses, ClientSetsPolicy
        <3>2. \A j \in Slot : ~ClientGets(j) /\ ~ClientReleases(j)
           BY <2>1 DEF ClientGets, ClientReleases
        <3>3. \A r \in Slot : ~CreateGets(r) /\ ~CreateReleases(r) /\ ~DeleteReleases(r)
           BY <2>2 DEF CreateGets, CreateReleases, DeleteReleases
        <3>4. ~CreateEnds /\ ~CreateGivesUp /\ ~CreateFailEnds /\ ~DeleteEnds /\ ~SliceTurn
           BY <2>2 DEF CreateEnds, CreateGivesUp, CreateFailEnds, DeleteEnds, SliceTurn
        <3> QED BY <2>4, <3>1, <3>2, <3>3, <3>4 DEF CompositeNext, CallSteps
     <2>6. CASE FlushTurn
        <3>1. FlushTurned(NextElement)
           BY <2>0, <2>6, FlushTurnKeeps
        <3> QED BY <3>1, <2>l, <2>3 DEF FlushTurned
     <2>7. CASE FlushTurnsEnd
        <3>1. PassEnd /\ entry' = entry /\ hardRefs' = hardRefs
           BY <2>0, <2>7, TurnsEnd
        <3>2. ~NewPass(calls', FALSE) /\ ~NewPass(calls', TRUE)
           BY <2>l DEF NewPass
        <3>3. ~Top.result \/ Top.all
           BY <3>1, <3>2 DEF PassEnd
        <3>4. ~Evictable(k)
           BY <2>0, <2>7, <3>3, FlushLeaves
        <3> QED BY <3>1, <3>4 DEF Evictable
     <2> QED BY <2>5, <2>6, <2>7
  <1> QED BY <1>1, CallsInvAlways, PTL DEF CompositeSpec, FlushComplete
===============================================================================

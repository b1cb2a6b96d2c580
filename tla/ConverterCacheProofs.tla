------------------------- MODULE ConverterCacheProofs -------------------------
(***************************************************************************)
(* Proofs about the converter cache: who owns a converter, and so that the *)
(* default converter has one user at a time (DefaultInv); that shared data *)
(* are counted exactly (DataInv); and that flushes and the cleanup free    *)
(* what nobody uses (ConvertersFreed).                                     *)
(*                                                                         *)
(* First what the operators on the data return, the loops among them by    *)
(* induction over their turns; then one lemma per action, first for the    *)
(* owners and then for the counts.                                         *)
(***************************************************************************)
EXTENDS ConverterCache, FiniteSetTheorems, SequenceTheorems, WellFoundedInduction, TLAPS

-------------------------------------------------------------------------------
(* What the operators on the data return. *)

Datum == [name : Data \cup {"none"}, refs : Int, cached : BOOLEAN, base : Copy \cup {NULL}]
Heaps == [data : [Copy -> Datum], table : [Data -> Copy \cup {NULL}], tableOpen : BOOLEAN]

LEMMA NoDataType == NoData \in Datum
  BY DEF NoData, Datum

LEMMA FreeIs ==
  ASSUME NEW s \in Heaps, NEW c \in Copy
  PROVE  /\ Free(s, c) \in Heaps
         /\ Free(s, c).data = [s.data EXCEPT ![c] = NoData]
         /\ Free(s, c).table = s.table /\ Free(s, c).tableOpen = s.tableOpen
  BY NoDataType DEF Free, Heaps

LEMMA CountIs ==
  ASSUME NEW s \in Heaps, NEW c \in Copy, NEW k \in Int
  PROVE  /\ Count(s, c, k) \in Heaps
         /\ \A d \in Copy \ {c} : Count(s, c, k).data[d] = s.data[d]
         /\ Count(s, c, k).data[c].refs = s.data[c].refs + k
         /\ Count(s, c, k).data[c].name = s.data[c].name
         /\ Count(s, c, k).data[c].cached = s.data[c].cached
         /\ Count(s, c, k).data[c].base = s.data[c].base
         /\ Count(s, c, k).table = s.table /\ Count(s, c, k).tableOpen = s.tableOpen
  BY DEF Count, Heaps, Datum

LEMMA DropIs ==
  ASSUME NEW s \in Heaps, NEW c \in Copy
  PROVE  /\ Drop(s, c) \in Heaps
         /\ Drop(s, c).table = s.table /\ Drop(s, c).tableOpen = s.tableOpen
  <1> DEFINE r == Count(s, c, -1)
  <1>1. r \in Heaps /\ r.table = s.table /\ r.tableOpen = s.tableOpen
     BY CountIs, -1 \in Int
  <1>2. Drop(s, c) = Free(r, c) \/ Drop(s, c) = r
     BY DEF Drop
  <1> HIDE DEF r
  <1>3. Free(r, c) \in Heaps /\ Free(r, c).table = r.table /\ Free(r, c).tableOpen = r.tableOpen
     BY <1>1, FreeIs
  <1> QED BY <1>1, <1>2, <1>3

LEMMA DeleteIs ==
  ASSUME NEW s \in Heaps, NEW c \in Copy
  PROVE  /\ Delete(s, c) \in Heaps
         /\ Delete(s, c).table = s.table /\ Delete(s, c).tableOpen = s.tableOpen
  <1>1. s.data[c].base \in Copy \cup {NULL}
     BY DEF Heaps, Datum
  <1> DEFINE f == Free(s, c)
  <1>2. f \in Heaps /\ f.table = s.table /\ f.tableOpen = s.tableOpen
     BY FreeIs
  <1>3. Delete(s, c) = f \/ (s.data[c].base \in Copy /\ Delete(s, c) = Drop(f, s.data[c].base))
     BY <1>1 DEF Delete
  <1> HIDE DEF f
  <1>4. ASSUME NEW b \in Copy PROVE /\ Drop(f, b) \in Heaps
                                   /\ Drop(f, b).table = f.table /\ Drop(f, b).tableOpen = f.tableOpen
     BY <1>2, DropIs
  <1> QED BY <1>2, <1>3, <1>4

LEMMA UnloadIs ==
  ASSUME NEW s \in Heaps, NEW c \in Copy
  PROVE  /\ Unload(s, c) \in Heaps
         /\ Unload(s, c).table = s.table /\ Unload(s, c).tableOpen = s.tableOpen
  BY CountIs, DeleteIs, -1 \in Int DEF Unload

(* r is what a load of s from a file of data named n with base b returns. *)
ReadFrom(s, n, b, share, r) ==
  /\ r.copy \in Copy /\ r.state \in Heaps /\ s.data[r.copy].refs = -1
  /\ r.state.data[r.copy].name = n /\ r.state.data[r.copy].refs = 1
  /\ r.state.data[r.copy].base = b
  /\ share = TRUE => r.state.data[r.copy].cached = TRUE
  /\ share = FALSE => r.state.data[r.copy].cached = FALSE
  /\ \A d \in Copy \ {r.copy} : r.state.data[d] = s.data[d]
  /\ \A m \in Data \ {n} : r.state.table[m] = s.table[m]
  /\ share = TRUE => r.state.table[n] = r.copy /\ r.state.tableOpen = TRUE
  /\ share = FALSE => r.state.table[n] = s.table[n] /\ r.state.tableOpen = s.tableOpen

LEMMA FromFileIs ==
  ASSUME NEW s \in Heaps, CanRead(s), NEW n \in Data, NEW b \in Copy \cup {NULL}, NEW share \in BOOLEAN
  PROVE  ReadFrom(s, n, b, share, FromFile(s, n, b, share))
  <1>0. PICK r : r = FromFile(s, n, b, share)
     OBVIOUS
  <1>1. PICK c : c = CHOOSE d \in Copy : s.data[d].refs = -1
     OBVIOUS
  <1>2. PICK x : x = [name |-> n, refs |-> 1, cached |-> share, base |-> b]
     OBVIOUS
  <1>3. PICK u : u = [s EXCEPT !.data[c] = x]
     OBVIOUS
  <1>4. r = Got(IF share THEN [u EXCEPT !.table[n] = c, !.tableOpen = TRUE] ELSE u, c)
     BY <1>0, <1>1, <1>2, <1>3 DEF FromFile
  <1>5. c \in Copy /\ s.data[c].refs = -1
     BY <1>1 DEF CanRead
  <1>6. x \in Datum /\ x.name = n /\ x.refs = 1 /\ x.base = b /\ x.cached = share
     BY <1>2 DEF Datum
  <1>7. /\ u \in Heaps /\ u.table = s.table /\ u.tableOpen = s.tableOpen
        /\ u.data[c] = x /\ \A d \in Copy \ {c} : u.data[d] = s.data[d]
     BY <1>3, <1>5, <1>6 DEF Heaps
  <1>8. CASE share = TRUE
     <2>1. PICK w : w = [u EXCEPT !.table[n] = c, !.tableOpen = TRUE]
        OBVIOUS
     <2>2. r.copy = c /\ r.state = w
        BY <1>4, <1>8, <2>1 DEF Got
     <2>3. /\ w \in Heaps /\ w.data = u.data /\ w.tableOpen = TRUE
           /\ w.table[n] = c /\ \A m \in Data \ {n} : w.table[m] = u.table[m]
        BY <1>5, <1>7, <2>1 DEF Heaps
     <2>4. r.state.data[c] = x /\ x.cached = TRUE
        BY <1>6, <1>7, <1>8, <2>2, <2>3
     <2>5. r.copy \in Copy /\ r.state \in Heaps /\ s.data[r.copy].refs = -1
        BY <1>5, <2>2, <2>3
     <2>6. \A d \in Copy \ {r.copy} : r.state.data[d] = s.data[d]
        BY <1>7, <2>2, <2>3
     <2>7. (\A m \in Data \ {n} : r.state.table[m] = s.table[m]) /\ r.state.table[n] = r.copy /\ r.state.tableOpen = TRUE
        BY <1>7, <2>2, <2>3
     <2>8. /\ r.state.data[r.copy].name = n /\ r.state.data[r.copy].refs = 1
           /\ r.state.data[r.copy].base = b /\ r.state.data[r.copy].cached = TRUE
        BY <1>6, <2>2, <2>4
     <2> QED BY <1>0, <1>8, <2>5, <2>6, <2>7, <2>8 DEF ReadFrom
  <1>9. CASE share = FALSE
     <2>1. r.copy = c /\ r.state = u
        BY <1>4, <1>9 DEF Got
     <2>2. x.cached = FALSE
        BY <1>6, <1>9
     <2> QED BY <1>0, <1>5, <1>6, <1>7, <1>9, <2>1, <2>2 DEF ReadFrom
  <1> QED BY <1>8, <1>9

LEMMA FromFileType ==
  ASSUME NEW s \in Heaps, CanRead(s), NEW n \in Data, NEW b \in Copy \cup {NULL}, NEW share \in BOOLEAN
  PROVE  FromFile(s, n, b, share).state \in Heaps /\ FromFile(s, n, b, share).copy \in Copy
  BY FromFileIs DEF ReadFrom

(* The ways a load can go. *)
LEMMA LoadPlainCases ==
  ASSUME NEW s \in Heaps, NEW n \in Data, NEW pkg \in BOOLEAN, NEW test \in BOOLEAN,
         NEW r \in LoadPlain(s, n, pkg, test)
  PROVE  \/ s.table[n] \in Copy /\ r = Got(Count(s, s.table[n], 1), s.table[n])
         \/ r = Got(s, NULL)
         \/ CanRead(s) /\ \E share \in BOOLEAN : /\ share = TRUE => s.table[n] = NULL
                                              /\ r = FromFile(s, n, NULL, share)
  <1>1. s.table[n] \in Copy \cup {NULL}
     BY DEF Heaps
  <1>2. CASE ~pkg /\ s.table[n] # NULL
     BY <1>1, <1>2 DEF LoadPlain
  <1>3. CASE ~(~pkg /\ s.table[n] # NULL)
     <2> DEFINE share == ~pkg /\ ~test
     <2>1. r = Got(s, NULL) \/ (CanRead(s) /\ r = FromFile(s, n, NULL, share))
        BY <1>3 DEF LoadPlain
     <2>2. share \in BOOLEAN /\ (share = TRUE => s.table[n] = NULL)
        BY <1>3
     <2> HIDE DEF share
     <2> QED BY <2>1, <2>2
  <1> QED BY <1>2, <1>3

FromBase(s, n, r, b) ==
  \/ b.copy = NULL /\ r = Got(b.state, NULL)
  \/ b.copy # NULL /\ r = Got(Drop(b.state, b.copy), NULL)
  \/ /\ b.copy # NULL /\ CanRead(Drop(b.state, b.copy))
     /\ r = FromFile(Drop(b.state, b.copy), n, NULL, FALSE)
  \/ /\ b.copy # NULL /\ CanRead(b.state)
     /\ \E share \in BOOLEAN : (share = TRUE => s.table[n] = NULL) /\ r = FromFile(b.state, n, b.copy, share)

LEMMA LoadCases ==
  ASSUME NEW s \in Heaps, NEW n \in Ext, NEW pkg \in BOOLEAN, NEW test \in BOOLEAN,
         NEW r \in Load(s, n, pkg, test)
  PROVE  \/ s.table[n] \in Copy /\ r = Got(Count(s, s.table[n], 1), s.table[n])
         \/ r = Got(s, NULL)
         \/ \E b \in LoadPlain(s, Base[n], pkg, test) : FromBase(s, n, r, b)
  <1>1. n \notin Plain /\ n \in Data
     BY DataAssumption DEF Data
  <1>2. s.table[n] \in Copy \cup {NULL}
     BY <1>1 DEF Heaps
  <1>3. CASE ~pkg /\ s.table[n] # NULL
     BY <1>1, <1>2, <1>3 DEF Load
  <1>4. CASE ~(~pkg /\ s.table[n] # NULL)
     <2> DEFINE From(b) == IF b.copy = NULL THEN {Got(b.state, NULL)}
                           ELSE LET back == Drop(b.state, b.copy)
                                IN  {Got(back, NULL)} \cup
                                    (IF test THEN (IF CanRead(back) THEN {FromFile(back, n, NULL, FALSE)} ELSE {})
                                     ELSE IF CanRead(b.state) THEN {FromFile(b.state, n, b.copy, ~pkg)} ELSE {})
     <2>1. r \in {Got(s, NULL)} \cup UNION {From(b) : b \in LoadPlain(s, Base[n], pkg, test)}
        BY <1>1, <1>4 DEF Load
     <2>2. CASE r = Got(s, NULL)
        BY <2>2
     <2>3. CASE \E b \in LoadPlain(s, Base[n], pkg, test) : r \in From(b)
        <3>1. PICK b \in LoadPlain(s, Base[n], pkg, test) : r \in From(b)
           BY <2>3
        <3> DEFINE share == ~pkg
        <3>2. \/ b.copy = NULL /\ r = Got(b.state, NULL)
              \/ b.copy # NULL /\ r = Got(Drop(b.state, b.copy), NULL)
              \/ /\ b.copy # NULL /\ CanRead(Drop(b.state, b.copy))
                 /\ r = FromFile(Drop(b.state, b.copy), n, NULL, FALSE)
              \/ b.copy # NULL /\ CanRead(b.state) /\ r = FromFile(b.state, n, b.copy, share)
           BY <3>1
        <3>3. share \in BOOLEAN /\ (share = TRUE => s.table[n] = NULL)
           BY <1>4
        <3> HIDE DEF From, share
        <3> QED BY <3>2, <3>3 DEF FromBase
     <2> HIDE DEF From
     <2> QED BY <2>1, <2>2, <2>3
  <1> QED BY <1>3, <1>4

LEMMA LoadPlainIs ==
  ASSUME NEW s \in Heaps, NEW n \in Data, NEW pkg \in BOOLEAN, NEW test \in BOOLEAN,
         NEW r \in LoadPlain(s, n, pkg, test)
  PROVE  r.state \in Heaps /\ r.copy \in Copy \cup {NULL}
  <1>1. CASE s.table[n] \in Copy /\ r = Got(Count(s, s.table[n], 1), s.table[n])
     BY <1>1, CountIs, 1 \in Int DEF Got
  <1>2. CASE r = Got(s, NULL)
     BY <1>2 DEF Got
  <1>3. ASSUME CanRead(s), NEW share \in BOOLEAN, r = FromFile(s, n, NULL, share)
        PROVE  r.state \in Heaps /\ r.copy \in Copy \cup {NULL}
     BY <1>3, FromFileType
  <1> QED BY <1>1, <1>2, <1>3, LoadPlainCases, ZenonT(40)

LEMMA LoadIs ==
  ASSUME NEW s \in Heaps, NEW n \in Data, NEW pkg \in BOOLEAN, NEW test \in BOOLEAN,
         NEW r \in Load(s, n, pkg, test)
  PROVE  r.state \in Heaps /\ r.copy \in Copy \cup {NULL}
  <1>1. CASE n \in Plain
     BY <1>1, LoadPlainIs DEF Load
  <1>2. CASE n \in Ext
     <2>1. CASE s.table[n] \in Copy /\ r = Got(Count(s, s.table[n], 1), s.table[n])
        BY <2>1, CountIs, 1 \in Int DEF Got
     <2>2. CASE r = Got(s, NULL)
        BY <2>2 DEF Got
     <2>3. ASSUME NEW b \in LoadPlain(s, Base[n], pkg, test)
           PROVE  /\ b.state \in Heaps /\ b.copy \in Copy \cup {NULL}
                  /\ b.copy # NULL => Drop(b.state, b.copy) \in Heaps
        <3>1. Base[n] \in Data
           BY <1>2, DataAssumption DEF Data
        <3>2. b.state \in Heaps /\ b.copy \in Copy \cup {NULL}
           BY <3>1, LoadPlainIs
        <3>3. b.copy # NULL => Drop(b.state, b.copy) \in Heaps
           BY <3>2, DropIs
        <3> QED BY <3>2, <3>3
     <2>4. ASSUME NEW u \in Heaps, CanRead(u), NEW c \in Copy \cup {NULL}, NEW share \in BOOLEAN,
                  r = FromFile(u, n, c, share)
           PROVE  r.state \in Heaps /\ r.copy \in Copy \cup {NULL}
        BY <2>4, FromFileType
     <2>5. ASSUME NEW b \in LoadPlain(s, Base[n], pkg, test), FromBase(s, n, r, b)
           PROVE  r.state \in Heaps /\ r.copy \in Copy \cup {NULL}
        <3>1. CASE b.copy = NULL /\ r = Got(b.state, NULL)
           BY <2>3, <3>1 DEF Got
        <3>2. CASE b.copy # NULL /\ r = Got(Drop(b.state, b.copy), NULL)
           BY <2>3, <3>2 DEF Got
        <3>3. CASE /\ b.copy # NULL /\ CanRead(Drop(b.state, b.copy))
                   /\ r = FromFile(Drop(b.state, b.copy), n, NULL, FALSE)
           BY <2>3, <2>4, <3>3
        <3>4. ASSUME CanRead(b.state), NEW share \in BOOLEAN, r = FromFile(b.state, n, b.copy, share)
              PROVE  r.state \in Heaps /\ r.copy \in Copy \cup {NULL}
           BY <2>3, <2>4, <3>4
        <3> QED BY <2>5, <3>1, <3>2, <3>3, <3>4 DEF FromBase
     <2> QED BY <1>2, <2>1, <2>2, <2>5, LoadCases
  <1> QED BY <1>1, <1>2 DEF Data

-------------------------------------------------------------------------------
(* Loops: what is true before the first turn, and after a turn if it was     *)
(* before it, is true after any number of turns; and every loop can be run.  *)
LEMMA Induct ==
  ASSUME NEW n \in Nat, NEW P, 0 \in P, \A i \in 0..(n - 1) : i \in P => i + 1 \in P
  PROVE  n \in P
  <1> SUFFICES ASSUME n \notin P PROVE FALSE
     OBVIOUS
  <1> DEFINE Below(m) == 0..(m - 1)
             T == {Below(m) : m \in {k \in 0..n : k \notin P}}
  <1>1. T \subseteq FiniteSubsetsOf(Nat)
     <2>1. ASSUME NEW m \in 0..n PROVE Below(m) \in SUBSET Nat /\ IsFiniteSet(Below(m))
        BY FS_Interval
     <2> QED BY <2>1 DEF FiniteSubsetsOf
  <1>2. PICK x \in T : \A y \in T : ~(<<y, x>> \in StrictSubsetOrdering(Nat))
     <2>1. T # {}
        OBVIOUS
     <2> HIDE DEF T
     <2> QED BY <1>1, <2>1, FS_StrictSubsetOrderingWellFounded, WFMin
  <1>3. PICK m \in 0..n : m \notin P /\ x = Below(m)
     OBVIOUS
  <1>4. m # 0 /\ m - 1 \in 0..n /\ m - 1 \notin P
     <2>1. m # 0
        BY <1>3
     <2>2. m - 1 \in 0..(n - 1) /\ (m - 1) + 1 = m
        BY <2>1
     <2> QED BY <1>3, <2>1, <2>2
  <1>5. Below(m - 1) \in T
     BY <1>4
  <1>6. Below(m - 1) \subseteq Below(m) /\ m - 1 \in Below(m) /\ m - 1 \notin Below(m - 1)
     BY <1>4
  <1>7. Below(m - 1) \in SUBSET Nat /\ Below(m) \in SUBSET Nat /\ Below(m - 1) # Below(m)
     BY <1>6
  <1> HIDE DEF T, Below
  <1>8. <<Below(m - 1), Below(m)>> \in StrictSubsetOrdering(Nat)
     BY <1>6, <1>7 DEF StrictSubsetOrdering
  <1> QED BY <1>2, <1>3, <1>5, <1>8

Runs(g, s, F, n) == g = [i \in 0..n |-> IF i = 0 THEN s ELSE F[i][g[i - 1]]]

LEMMA LoopRuns ==
  ASSUME NEW S, NEW s \in S, NEW n \in Nat, NEW F \in [1..n -> [S -> S]]
  PROVE  \E g \in [0..n -> S] : Runs(g, s, F, n)
  <1> DEFINE P == {m \in Nat : m <= n => \E g \in [0..m -> S] : Runs(g, s, F, m)}
  <1>1. 0 \in P
     <2> DEFINE g == [i \in 0..0 |-> s]
     <2>1. g \in [0..0 -> S]
        OBVIOUS
     <2>2. g = [i \in 0..0 |-> IF i = 0 THEN s ELSE F[i][g[i - 1]]]
        OBVIOUS
     <2> HIDE DEF g
     <2>3. Runs(g, s, F, 0)
        BY <2>2 DEF Runs
     <2> QED BY <2>1, <2>3
  <1>2. ASSUME NEW m \in 0..(n - 1), m \in P PROVE m + 1 \in P
     <2>1. PICK g \in [0..m -> S] : Runs(g, s, F, m)
        BY <1>2
     <2> DEFINE h == [i \in 0..(m + 1) |-> IF i = m + 1 THEN F[m + 1][g[m]] ELSE g[i]]
     <2>2. F[m + 1][g[m]] \in S
        <3>1. m + 1 \in 1..n /\ g[m] \in S
           OBVIOUS
        <3> QED BY <3>1
     <2>3. h \in [0..(m + 1) -> S]
        BY <2>2
     <2>4. ASSUME NEW i \in 0..(m + 1) PROVE h[i] = IF i = 0 THEN s ELSE F[i][h[i - 1]]
        <3>1. CASE i = m + 1
           BY <3>1
        <3>2. CASE i # m + 1
           <4>1. i \in 0..m /\ h[i] = g[i]
              BY <3>2
           <4>2. g[i] = IF i = 0 THEN s ELSE F[i][g[i - 1]]
              BY <2>1, <4>1 DEF Runs
           <4>3. i # 0 => h[i - 1] = g[i - 1]
              BY <4>1
           <4> QED BY <4>1, <4>2, <4>3
        <3> QED BY <3>1, <3>2
     <2> HIDE DEF h
     <2>5. Runs(h, s, F, m + 1)
        <3> DEFINE k == [i \in 0..(m + 1) |-> IF i = 0 THEN s ELSE F[i][h[i - 1]]]
        <3>1. \A i \in 0..(m + 1) : h[i] = k[i]
           BY <2>4
        <3>2. h = [i \in 0..(m + 1) |-> h[i]] /\ k = [i \in 0..(m + 1) |-> k[i]]
           BY <2>3
        <3>3. h = k
           <4> HIDE DEF k
           <4> QED BY <3>1, <3>2
        <3> QED BY <3>3 DEF Runs
     <2> QED BY <2>3, <2>5
  <1> HIDE DEF P
  <1>3. n \in P
     BY <1>1, <1>2, Induct
  <1> QED BY <1>3 DEF P

Unlisted(s, n, c) == [s EXCEPT !.table[n] = NULL, !.data[c].cached = FALSE]

TakenOut(s, n, c, r) ==
  /\ r \in Heaps /\ r.tableOpen = s.tableOpen
  /\ r.table[n] = NULL /\ \A m \in Data \ {n} : r.table[m] = s.table[m]
  /\ r.data[c].refs = s.data[c].refs /\ r.data[c].name = s.data[c].name
  /\ r.data[c].cached = FALSE /\ r.data[c].base = s.data[c].base
  /\ \A d \in Copy \ {c} : r.data[d] = s.data[d]

LEMMA FlushFirst ==
  ASSUME NEW s \in Heaps, NEW n \in Data, NEW c \in Copy
  PROVE  TakenOut(s, n, c, Unlisted(s, n, c))
  <1>0. PICK r : r = Unlisted(s, n, c)
     OBVIOUS
  <1>1. r.tableOpen = s.tableOpen /\ r.table = [s.table EXCEPT ![n] = NULL] /\ r.data = [s.data EXCEPT ![c].cached = FALSE]
     BY <1>0 DEF Heaps, Unlisted
  <1>2. s.table \in [Data -> Copy \cup {NULL}] /\ s.data \in [Copy -> Datum]
     BY DEF Heaps
  <1>3. /\ [s.table EXCEPT ![n] = NULL] \in [Data -> Copy \cup {NULL}]
        /\ r.table[n] = NULL /\ \A m \in Data \ {n} : r.table[m] = s.table[m]
     BY <1>1, <1>2
  <1>4. /\ r.data[c].refs = s.data[c].refs /\ r.data[c].name = s.data[c].name
        /\ r.data[c].cached = FALSE /\ r.data[c].base = s.data[c].base
        /\ \A d \in Copy \ {c} : r.data[d] = s.data[d]
     BY <1>1, <1>2 DEF Datum
  <1>5. [s.data EXCEPT ![c].cached = FALSE] \in [Copy -> Datum]
     BY <1>2 DEF Datum
  <1>6. r \in Heaps
     BY <1>0, <1>1, <1>3, <1>5 DEF Heaps, Unlisted
  <1> QED BY <1>0, <1>1, <1>3, <1>4, <1>6 DEF TakenOut

LEMMA FlushOneIs ==
  ASSUME NEW s \in Heaps, NEW n \in Data
  PROVE  FlushOne(s, n) \in Heaps /\ FlushOne(s, n).tableOpen = s.tableOpen
  <1>1. CASE s.table[n] # NULL /\ s.data[s.table[n]].refs = 0
     <2>1. PICK c \in Copy : c = s.table[n]
        BY <1>1 DEF Heaps
     <2>2. PICK r : r = Unlisted(s, n, c)
        OBVIOUS
     <2>3. FlushOne(s, n) = Delete(r, c)
        BY <1>1, <2>1, <2>2 DEF FlushOne, Unlisted
     <2>4. r \in Heaps /\ r.tableOpen = s.tableOpen
        BY <2>2, FlushFirst DEF TakenOut
     <2> QED BY <2>3, <2>4, DeleteIs
  <1>2. CASE ~(s.table[n] # NULL /\ s.data[s.table[n]].refs = 0)
     BY <1>2 DEF FlushOne
  <1> QED BY <1>1, <1>2

(* A turn over the table, and the close of a converter, one by one. *)
LEMMA PassRuns ==
  ASSUME NEW s \in Heaps, NEW q \in Seq(Data)
  PROVE  \E g \in [0..Len(q) -> Heaps] : /\ g[0] = s /\ Pass(s, q) = g[Len(q)]
                                       /\ \A i \in 1..Len(q) : g[i] = FlushOne(g[i - 1], q[i])
  <1> DEFINE n == Len(q)
             F == [i \in 1..n |-> [r \in Heaps |-> FlushOne(r, q[i])]]
             Turn(g) == g = [i \in 0..n |-> IF i = 0 THEN s ELSE FlushOne(g[i - 1], q[i])]
  <1>1. n \in Nat /\ \A i \in 1..n : q[i] \in Data
     OBVIOUS
  <1>2. F \in [1..n -> [Heaps -> Heaps]]
     BY <1>1, FlushOneIs
  <1>3. \A i \in 1..n, r \in Heaps : F[i][r] = FlushOne(r, q[i])
     OBVIOUS
  <1> HIDE DEF F
  <1>4. PICK g \in [0..n -> Heaps] : Runs(g, s, F, n)
     <2> HIDE DEF n
     <2> QED BY <1>1, <1>2, LoopRuns
  <1>5. Turn(g)
     <2>1. \A i \in 1..n : g[i - 1] \in Heaps
        BY <1>1
     <2>2. \A i \in 0..n : (IF i = 0 THEN s ELSE F[i][g[i - 1]]) = IF i = 0 THEN s ELSE FlushOne(g[i - 1], q[i])
        BY <1>1, <1>3, <2>1
     <2> QED BY <1>4, <2>2 DEF Runs
  <1>6. Pass(s, q) = (CHOOSE f : Turn(f))[n]
     BY DEF Pass
  <1> DEFINE t == CHOOSE f : Turn(f)
  <1>7. Turn(t)
     BY <1>5
  <1> HIDE DEF t
  <1>8. t[0] = s /\ \A i \in 1..n : t[i] = FlushOne(t[i - 1], q[i])
     BY <1>1, <1>7
  <1>9. t \in [0..n -> Heaps]
     <2> DEFINE P == {i \in Nat : i <= n => t[i] \in Heaps}
     <2>1. 0 \in P
        BY <1>8
     <2>2. ASSUME NEW i \in 0..(n - 1), i \in P PROVE i + 1 \in P
        <3>1. i + 1 \in 1..n /\ (i + 1) - 1 = i
           BY <1>1
        <3>2. t[i + 1] = FlushOne(t[i], q[i + 1]) /\ q[i + 1] \in Data
           BY <1>1, <1>8, <3>1
        <3>3. t[i] \in Heaps
           BY <1>1, <2>2
        <3> QED BY <3>2, <3>3, FlushOneIs, SMTT(30)
     <2> HIDE DEF P, n
     <2>3. ASSUME NEW m \in 0..n PROVE m \in P
        <3>1. m \in Nat /\ \A i \in 0..(m - 1) : i \in P => i + 1 \in P
           BY <1>1, <2>2
        <3> QED BY <2>1, <3>1, Induct
     <2>4. \A m \in 0..n : t[m] \in Heaps
        BY <1>1, <2>3 DEF P
     <2>5. t = [i \in 0..n |-> t[i]]
        BY <1>7
     <2> QED BY <2>4, <2>5
  <1> QED BY <1>6, <1>8, <1>9 DEF t

LEMMA CloseRuns ==
  ASSUME NEW s \in Heaps, NEW h \in Handle, NEW q \in Seq(Copy), cnv[h].uses = q
  PROVE  \E g \in [0..Len(q) -> Heaps] : /\ g[0] = s /\ CloseNow(s, h) = g[Len(q)]
                                       /\ \A i \in 1..Len(q) : g[i] = Unload(g[i - 1], q[i])
  <1> DEFINE n == Len(q)
             F == [i \in 1..n |-> [r \in Heaps |-> Unload(r, q[i])]]
             Turn(g) == g = [i \in 0..n |-> IF i = 0 THEN s ELSE Unload(g[i - 1], q[i])]
  <1>1. n \in Nat /\ \A i \in 1..n : q[i] \in Copy
     OBVIOUS
  <1>2. F \in [1..n -> [Heaps -> Heaps]]
     BY <1>1, UnloadIs
  <1>3. \A i \in 1..n, r \in Heaps : F[i][r] = Unload(r, q[i])
     OBVIOUS
  <1> HIDE DEF F
  <1>4. PICK g \in [0..n -> Heaps] : Runs(g, s, F, n)
     <2> HIDE DEF n
     <2> QED BY <1>1, <1>2, LoopRuns
  <1>5. Turn(g)
     <2>1. \A i \in 1..n : g[i - 1] \in Heaps
        BY <1>1
     <2>2. \A i \in 0..n : (IF i = 0 THEN s ELSE F[i][g[i - 1]]) = IF i = 0 THEN s ELSE Unload(g[i - 1], q[i])
        BY <1>1, <1>3, <2>1
     <2> QED BY <1>4, <2>2 DEF Runs
  <1>6. CloseNow(s, h) = (CHOOSE f : Turn(f))[n]
     BY DEF CloseNow, NULL, Handle
  <1> DEFINE t == CHOOSE f : Turn(f)
  <1>7. Turn(t)
     BY <1>5
  <1> HIDE DEF t
  <1>8. t[0] = s /\ \A i \in 1..n : t[i] = Unload(t[i - 1], q[i])
     BY <1>1, <1>7
  <1>9. t \in [0..n -> Heaps]
     <2> DEFINE P == {i \in Nat : i <= n => t[i] \in Heaps}
     <2>1. 0 \in P
        BY <1>8
     <2>2. ASSUME NEW i \in 0..(n - 1), i \in P PROVE i + 1 \in P
        <3>1. i + 1 \in 1..n /\ (i + 1) - 1 = i
           BY <1>1
        <3>2. t[i + 1] = Unload(t[i], q[i + 1]) /\ q[i + 1] \in Copy
           BY <1>1, <1>8, <3>1
        <3>3. t[i] \in Heaps
           BY <1>1, <2>2
        <3> QED BY <3>2, <3>3, UnloadIs, SMTT(30)
     <2> HIDE DEF P, n
     <2>3. ASSUME NEW m \in 0..n PROVE m \in P
        <3>1. m \in Nat /\ \A i \in 0..(m - 1) : i \in P => i + 1 \in P
           BY <1>1, <2>2
        <3> QED BY <2>1, <3>1, Induct
     <2>4. \A m \in 0..n : t[m] \in Heaps
        BY <1>1, <2>3 DEF P
     <2>5. t = [i \in 0..n |-> t[i]]
        BY <1>7
     <2> QED BY <2>4, <2>5
  <1> QED BY <1>6, <1>8, <1>9 DEF t

LEMMA FlushedIs ==
  ASSUME NEW s \in Heaps, NEW q \in Seq(Data)
  PROVE  Flushed(s, q) \in Heaps
  <1>1. ASSUME NEW r \in Heaps PROVE Pass(r, q) \in Heaps
     <2>1. PICK g \in [0..Len(q) -> Heaps] : Pass(r, q) = g[Len(q)]
        BY PassRuns
     <2> QED BY <2>1
  <1> QED BY <1>1 DEF Flushed

LEMMA CloseNowIs ==
  ASSUME NEW s \in Heaps, NEW h \in Handle \cup {NULL}, h # NULL => cnv[h].uses \in Seq(Copy)
  PROVE  CloseNow(s, h) \in Heaps
  <1>1. CASE h = NULL
     BY <1>1 DEF CloseNow
  <1>2. CASE h # NULL
     <2>1. PICK g \in [0..Len(cnv[h].uses) -> Heaps] : CloseNow(s, h) = g[Len(cnv[h].uses)]
        BY <1>2, CloseRuns
     <2> QED BY <1>2, <2>1
  <1> QED BY <1>1, <1>2

-------------------------------------------------------------------------------
(* Who has which converter, and what it is for. *)

Converter == [name : Names \cup {"none"}, uses : Seq(Copy)]
Jobs ==
  [pc : {"idle", "take", "openDefault", "setFallback", "flushDefault", "flushTable"}]
  \cup [pc : {"load"}, h : Handle, todo : Seq(Data), for : {"client", "default", "test", "probe"}, pkg : BOOLEAN]
  \cup [pc : {"close"}, h : Handle, for : {"none", "flush", "probed", "probeFailed"}]
  \cup [pc : {"use", "putBack", "setName"}, h : Handle]
  \cup [pc : {"openNamed"}, name : Names]

ControlInv ==
  /\ State \in Heaps
  /\ cnv \in [Handle -> Converter] /\ \A h \in Handle : cnv[h].name = "none" => cnv[h] = NoConverter
  /\ default \in Handle \cup {NULL}
  /\ defaultName \in Names \cup {"null"} /\ defaultAlg \in Names \cup {"null"}
  /\ registered \in BOOLEAN /\ stale \in BOOLEAN
  /\ job \in [User -> Jobs] /\ mine \in [User -> SUBSET Handle]

(* The converter that a job has. *)
HoldOf(x) == IF x.pc \in {"load", "use", "putBack", "close", "setName"} THEN x.h ELSE NULL

(* A converter that is there has one owner: a job, a client or the variable  *)
(* gDefaultConverter.                                                        *)
Owned(h) == default = h \/ \E t \in User : HoldOf(job[t]) = h \/ h \in mine[t]
OwnedOnce(h) ==
  /\ cnv[h] # NoConverter <=> Owned(h)
  /\ \A t \in User :
       /\ HoldOf(job[t]) = h => default # h /\ \A u \in User : h \notin mine[u] /\ (HoldOf(job[u]) = h => t = u)
       /\ h \in mine[t] => default # h /\ \A u \in User : h \in mine[u] => t = u
OneOwner == \A h \in Handle : OwnedOnce(h)

(* A job that has the default converter or is about to open it knows the     *)
(* name, unless the exceptions of DefaultMatchesName have occurred.          *)
ForDefault(x) == x.pc \in {"use", "putBack"} \/ (x.pc = "load" /\ x.for = "default")
Probed(x)     == x.pc = "close" /\ x.for = "probed"
Settled(x)    == ForDefault(x) \/ Probed(x) \/ x.pc = "openNamed"
RightName(x) ==
  /\ ForDefault(x) => defaultName # "null" /\ cnv[x.h].name = defaultName
  /\ Probed(x) => defaultName = SystemName
  /\ x.pc = "openNamed" => defaultName = x.name
NameInv ==
  /\ defaultName # "null" => defaultAlg = AlgorithmicTypeFromName(defaultName)
  /\ ~stale => /\ default # NULL => defaultName # "null" /\ cnv[default].name = defaultName
               /\ \A t \in User : RightName(job[t])

(* A name and whatever depends on it are there only while ucnv_cleanup is    *)
(* registered.                                                               *)
NameRegistered ==
  default # NULL \/ defaultName # "null" \/ (\E t \in User : Settled(job[t])) => registered

OwnerInv == ControlInv /\ OneOwner /\ NameInv /\ NameRegistered

LEMMA JobKinds ==
  ASSUME NEW x \in Jobs
  PROVE  /\ HoldOf(x) \in Handle \cup {NULL}
         /\ x.pc = "load" => /\ x.h \in Handle /\ x.todo \in Seq(Data) /\ x.pkg \in BOOLEAN
                             /\ x.for \in {"client", "default", "test", "probe"}
         /\ x.pc = "close" => x.h \in Handle /\ x.for \in {"none", "flush", "probed", "probeFailed"}
         /\ x.pc \in {"use", "putBack", "setName"} => x.h \in Handle
         /\ x.pc = "openNamed" => x.name \in Names
  BY DEF Jobs, HoldOf

LEMMA NewJobs ==
  /\ \A p \in {"idle", "take", "openDefault", "setFallback", "flushDefault", "flushTable"} : [pc |-> p] \in Jobs
  /\ \A h \in Handle, todo \in Seq(Data), f \in {"client", "default", "test", "probe"}, pkg \in BOOLEAN :
       [pc |-> "load", h |-> h, todo |-> todo, for |-> f, pkg |-> pkg] \in Jobs
  /\ \A h \in Handle, f \in {"none", "flush", "probed", "probeFailed"} : [pc |-> "close", h |-> h, for |-> f] \in Jobs
  /\ \A p \in {"use", "putBack", "setName"}, h \in Handle : [pc |-> p, h |-> h] \in Jobs
  /\ \A n \in Names : [pc |-> "openNamed", name |-> n] \in Jobs
  <1>1. \A p \in {"idle", "take", "openDefault", "setFallback", "flushDefault", "flushTable"} : [pc |-> p] \in Jobs
     BY DEF Jobs
  <1>2. \A h \in Handle, todo \in Seq(Data), f \in {"client", "default", "test", "probe"}, pkg \in BOOLEAN :
          [pc |-> "load", h |-> h, todo |-> todo, for |-> f, pkg |-> pkg] \in Jobs
     BY DEF Jobs
  <1>3. \A h \in Handle, f \in {"none", "flush", "probed", "probeFailed"} : [pc |-> "close", h |-> h, for |-> f] \in Jobs
     BY DEF Jobs
  <1>4. \A p \in {"use", "putBack", "setName"}, h \in Handle : [pc |-> p, h |-> h] \in Jobs
     BY DEF Jobs
  <1>5. \A n \in Names : [pc |-> "openNamed", name |-> n] \in Jobs
     BY DEF Jobs
  <1> QED BY <1>1, <1>2, <1>3, <1>4, <1>5

(* The usual step: a job goes on with the converter it has, if it has one. *)
LEMMA JobGoesOn ==
  ASSUME OwnerInv, NEW t \in User, NEW x \in Jobs, job' = [job EXCEPT ![t] = x],
         HoldOf(x) = HoldOf(job[t]),
         UNCHANGED <<default, nameVars, mine, stale>>,
         State' \in Heaps, registered' \in BOOLEAN, registered => registered',
         cnv' \in [Handle -> Converter],
         \A h \in Handle : cnv'[h].name = cnv[h].name /\ (cnv[h].name = "none" => cnv'[h] = NoConverter),
         ~stale => RightName(x), Settled(x) => registered
  PROVE  OwnerInv'
  <1>1. ControlInv'
     BY DEF OwnerInv, ControlInv, nameVars
  <1>2. /\ \A u \in User : HoldOf(job'[u]) = HoldOf(job[u])
        /\ job'[t] = x /\ \A u \in User \ {t} : job'[u] = job[u]
     BY DEF OwnerInv, ControlInv
  <1>3. \A h \in Handle : cnv'[h] = NoConverter <=> cnv[h] = NoConverter
     <2>1. "none" \notin Names
        BY NamesAssumption
     <2> QED BY <2>1 DEF OwnerInv, ControlInv, NoConverter
  <1>4. OneOwner'
     BY <1>2, <1>3 DEF OwnerInv, OneOwner, OwnedOnce, Owned
  <1>5. NameInv'
     <2>1. ASSUME ~stale, NEW u \in User PROVE RightName(job[u])'
        <3>1. RightName(job'[u])
           BY <1>2, <2>1 DEF OwnerInv, NameInv
        <3>2. job'[u] \in Jobs
           BY <1>1 DEF ControlInv
        <3>3. ForDefault(job'[u]) => job'[u].h \in Handle
           BY <3>2, JobKinds DEF ForDefault
        <3> QED BY <3>1, <3>3 DEF RightName, ForDefault, Probed, nameVars
     <2> QED BY <2>1 DEF OwnerInv, NameInv, nameVars, ControlInv, AlgorithmicTypeFromName, NULL
  <1>6. NameRegistered'
     BY <1>2 DEF OwnerInv, NameRegistered, nameVars, Settled, ForDefault, Probed
  <1> QED BY <1>1, <1>4, <1>5, <1>6 DEF OwnerInv

(* A new converter. *)
LEMMA HandleIsNew ==
  ASSUME OwnerInv, FreeHandles # {}
  PROVE  NewHandle \in Handle /\ cnv[NewHandle] = NoConverter
  BY DEF FreeHandles, NewHandle, OwnerInv, ControlInv

LEMMA JobStarts ==
  ASSUME OwnerInv, NEW t \in User, NEW n \in Names, NEW f \in {"client", "default", "test", "probe"},
         NEW pkg \in BOOLEAN, StartOpen(t, n, f, pkg), HoldOf(job[t]) = NULL,
         UNCHANGED <<cacheVars, default, nameVars, mine, stale>>,
         f = "default" => registered /\ (~stale => defaultName # "null" /\ n = defaultName)
  PROVE  OwnerInv'
  <1>1. PICK h \in Handle : h = NewHandle /\ cnv[h] = NoConverter
     BY HandleIsNew DEF StartOpen
  <1> DEFINE x == [pc |-> "load", h |-> h, todo |-> Needs(n), for |-> f, pkg |-> pkg]
             d == [name |-> n, uses |-> <<>>]
  <1>2. cnv' = [cnv EXCEPT ![h] = d] /\ job' = [job EXCEPT ![t] = x]
     BY <1>1 DEF StartOpen, Goes
  <1>3. x \in Jobs
     <2>1. Needs(n) \in Seq(Data)
        BY NamesAssumption DEF Needs, Names
     <2> QED BY <1>1, <2>1, NewJobs
  <1>4. d \in Converter /\ d # NoConverter /\ d.name = n /\ n # "none"
     BY NamesAssumption DEF Converter, NoConverter
  <1>5. HoldOf(x) = h /\ x.pc = "load" /\ x.for = f /\ x.h = h
     BY DEF HoldOf
  <1> HIDE DEF x, d
  <1>6. /\ job \in [User -> Jobs] /\ cnv \in [Handle -> Converter]
        /\ job'[t] = x /\ \A u \in User \ {t} : job'[u] = job[u]
        /\ cnv'[h] = d /\ \A g \in Handle \ {h} : cnv'[g] = cnv[g]
        /\ UNCHANGED <<data, table, tableOpen, registered, default, defaultName, defaultAlg, mine, stale>>
     BY <1>1, <1>2 DEF OwnerInv, ControlInv, cacheVars, nameVars
  <1>7. ControlInv'
     BY <1>1, <1>2, <1>3, <1>4, <1>6 DEF OwnerInv, ControlInv, State
  <1>8. /\ default # h /\ \A u \in User : HoldOf(job[u]) # h /\ h \notin mine[u]
        /\ h # NULL
     BY <1>1 DEF OwnerInv, OneOwner, OwnedOnce, Owned, Handle, NULL
  <1>9. OneOwner'
     <2>1. \A u \in User : HoldOf(job'[u]) = IF u = t THEN h ELSE HoldOf(job[u])
        BY <1>5, <1>6
     <2>2. \A g \in Handle : (cnv'[g] # NoConverter <=> g = h \/ cnv[g] # NoConverter)
        BY <1>1, <1>4, <1>6
     <2>3. \A g \in Handle \ {h} : Owned(g)' <=> Owned(g)
        <3>1. ASSUME NEW g \in Handle \ {h}, NEW u \in User PROVE HoldOf(job'[u]) = g <=> HoldOf(job[u]) = g
           BY <2>1 DEF Handle, NULL
        <3> QED BY <1>6, <3>1 DEF Owned
     <2>4. Owned(h)'
        BY <2>1 DEF Owned
     <2>5. ASSUME NEW g \in Handle, NEW u \in User
           PROVE  /\ HoldOf(job'[u]) = g => default # g /\ \A v \in User : g \notin mine[v] /\ (HoldOf(job'[v]) = g => u = v)
                  /\ g \in mine[u] => default # g /\ \A v \in User : g \in mine[v] => u = v
        BY <1>8, <2>1 DEF OwnerInv, OneOwner, OwnedOnce
     <2> QED BY <1>6, <2>2, <2>3, <2>4, <2>5 DEF OwnerInv, OneOwner, OwnedOnce
  <1>10. NameInv'
     <2>1. ASSUME ~stale, NEW u \in User PROVE RightName(job[u])'
        <3>1. CASE u = t
           BY <1>4, <1>5, <1>6, <2>1, <3>1 DEF RightName, ForDefault, Probed
        <3>2. CASE u # t
           <4>1. RightName(job[u]) /\ job'[u] = job[u]
              BY <1>6, <2>1, <3>2 DEF OwnerInv, NameInv
           <4>2. ForDefault(job[u]) => job[u].h \in Handle /\ job[u].h = HoldOf(job[u])
              BY <1>6, JobKinds DEF ForDefault, HoldOf
           <4>3. ForDefault(job[u]) => cnv'[job[u].h] = cnv[job[u].h]
              BY <1>6, <1>8, <4>2
           <4> QED BY <1>6, <4>1, <4>3 DEF RightName
        <3> QED BY <3>1, <3>2
     <2>2. ASSUME default # NULL PROVE cnv'[default] = cnv[default]
        BY <1>6, <1>8, <2>2 DEF OwnerInv, ControlInv
     <2> QED BY <1>6, <2>1, <2>2 DEF OwnerInv, NameInv, AlgorithmicTypeFromName
  <1>11. NameRegistered'
     BY <1>5, <1>6 DEF OwnerInv, NameRegistered, Settled, ForDefault, Probed
  <1> QED BY <1>7, <1>9, <1>10, <1>11 DEF OwnerInv

-------------------------------------------------------------------------------
(* The steps that only go on. *)

LEMMA Unchanged ==
  ASSUME OwnerInv, UNCHANGED cnv
  PROVE  /\ cnv' \in [Handle -> Converter]
         /\ \A h \in Handle : cnv'[h].name = cnv[h].name /\ (cnv[h].name = "none" => cnv'[h] = NoConverter)
  BY DEF OwnerInv, ControlInv

(* What the frames of the actions say. *)
LEMMA Frames ==
  ASSUME OwnerInv, UNCHANGED cacheVars
  PROVE  State' \in Heaps /\ registered' \in BOOLEAN /\ (registered => registered')
  BY DEF OwnerInv, ControlInv, cacheVars, State

LEMMA JobOf == ASSUME OwnerInv, NEW t \in User PROVE job[t] \in Jobs
  BY DEF OwnerInv, ControlInv

LEMMA LoadOK == ASSUME OwnerInv, NEW t \in User, LoadSharedData(t) PROVE OwnerInv'
  <1>1. job[t].pc = "load" /\ job[t].todo # <<>>
     BY DEF LoadSharedData, JobAt
  <1> DEFINE h == job[t].h
             todo == job[t].todo
  <1>2. /\ job[t] \in Jobs /\ h \in Handle /\ todo \in Seq(Data) /\ job[t].pkg \in BOOLEAN
        /\ job[t].for \in {"client", "default", "test", "probe"}
     BY <1>1, JobOf, JobKinds
  <1>3. Head(todo) \in Data /\ Tail(todo) \in Seq(Data)
     BY <1>1, <1>2, HeadTailProperties
  <1>4. PICK r \in Load(State, Head(todo), job[t].pkg, job[t].for = "test") :
           /\ Becomes(r.state)
           /\ registered' = (registered \/ (r.state.tableOpen /\ ~tableOpen))
           /\ IF r.copy = NULL
              THEN UNCHANGED cnv /\ ThenClose(t, h, IF job[t].for = "probe" THEN "probeFailed" ELSE "none")
              ELSE /\ cnv' = [cnv EXCEPT ![h].uses = Append(@, r.copy)]
                   /\ Goes(t, [job[t] EXCEPT !.todo = Tail(@)])
     BY DEF LoadSharedData
  <1>5. r.state \in Heaps /\ r.copy \in Copy \cup {NULL}
     <2> DEFINE test == job[t].for = "test"
     <2>1. test \in BOOLEAN /\ State \in Heaps /\ r \in Load(State, Head(todo), job[t].pkg, test)
        BY DEF OwnerInv, ControlInv
     <2> HIDE DEF test, h, todo
     <2> QED BY <1>2, <1>3, <2>1, LoadIs
  <1>6. State' \in Heaps
     <2>1. State' = r.state
        BY <1>4, <1>5 DEF Becomes, State, Heaps
     <2> QED BY <1>5, <2>1
  <1>7. registered' \in BOOLEAN /\ (registered => registered') /\ UNCHANGED <<default, nameVars, mine, stale>>
     BY <1>4 DEF LoadSharedData
  <1>8. HoldOf(job[t]) = h
     BY <1>1 DEF HoldOf
  <1>9. CASE r.copy = NULL
     <2> DEFINE f == IF job[t].for = "probe" THEN "probeFailed" ELSE "none"
                x == [pc |-> "close", h |-> h, for |-> f]
     <2>1. x \in Jobs
        BY <1>2, NewJobs
     <2>2. HoldOf(x) = h /\ ~Settled(x) /\ RightName(x)
        BY DEF HoldOf, Settled, RightName, ForDefault, Probed
     <2>3. job' = [job EXCEPT ![t] = x] /\ UNCHANGED cnv
        BY <1>4, <1>9 DEF ThenClose, Goes
     <2> HIDE DEF x, h, todo
     <2> QED BY <1>6, <1>7, <1>8, <2>1, <2>2, <2>3, Unchanged, JobGoesOn
  <1>10. CASE r.copy # NULL
     <2> DEFINE x == [job[t] EXCEPT !.todo = Tail(@)]
     <2>1. x \in Jobs /\ x.pc = "load" /\ x.h = h /\ x.for = job[t].for
        BY <1>1, <1>2, <1>3 DEF Jobs
     <2>2. HoldOf(x) = h /\ (RightName(job[t]) => RightName(x)) /\ (Settled(x) => Settled(job[t]))
        BY <1>1, <2>1 DEF HoldOf, Settled, RightName, ForDefault, Probed
     <2>3. job' = [job EXCEPT ![t] = x] /\ cnv' = [cnv EXCEPT ![h].uses = Append(@, r.copy)]
        BY <1>4, <1>10 DEF Goes
     <2>4. /\ cnv' \in [Handle -> Converter]
           /\ \A g \in Handle : cnv'[g].name = cnv[g].name /\ (cnv[g].name = "none" => cnv'[g] = NoConverter)
        <3>1. cnv \in [Handle -> Converter] /\ \A g \in Handle : cnv[g].name = "none" => cnv[g] = NoConverter
           BY DEF OwnerInv, ControlInv
        <3>2. cnv[h] # NoConverter /\ cnv[h].uses \in Seq(Copy) /\ Append(cnv[h].uses, r.copy) \in Seq(Copy)
           BY <1>2, <1>5, <1>8, <1>10, <3>1 DEF OwnerInv, OneOwner, OwnedOnce, Owned, Converter
        <3> HIDE DEF h
        <3> QED BY <1>2, <2>3, <3>1, <3>2 DEF Converter
     <2>5. (~stale => RightName(x)) /\ (Settled(x) => registered)
        BY <2>2 DEF OwnerInv, NameInv, NameRegistered
     <2> HIDE DEF x, h, todo
     <2> QED BY <1>6, <1>7, <1>8, <2>1, <2>2, <2>3, <2>4, <2>5, JobGoesOn
  <1> QED BY <1>9, <1>10


LEMMA UnloadOK == ASSUME OwnerInv, NEW t \in User, UnloadSharedData(t) PROVE OwnerInv'
  <1> DEFINE h == job[t].h
  <1>1. job[t].pc = "close" /\ cnv[h].uses # <<>>
     BY DEF UnloadSharedData, JobAt
  <1>2. job[t] \in Jobs /\ h \in Handle /\ HoldOf(job[t]) = h
     BY <1>1, JobOf, JobKinds DEF HoldOf
  <1>3. cnv \in [Handle -> Converter] /\ \A g \in Handle : cnv[g].name = "none" => cnv[g] = NoConverter
     BY DEF OwnerInv, ControlInv
  <1>4. cnv[h] # NoConverter /\ cnv[h].uses \in Seq(Copy)
     BY <1>2, <1>3 DEF OwnerInv, OneOwner, OwnedOnce, Owned, Converter
  <1>5. Head(cnv[h].uses) \in Copy /\ Tail(cnv[h].uses) \in Seq(Copy)
     BY <1>1, <1>4, HeadTailProperties
  <1>6. Becomes(Unload(State, Head(cnv[h].uses))) /\ cnv' = [cnv EXCEPT ![h].uses = Tail(@)]
     BY DEF UnloadSharedData
  <1>7. Unload(State, Head(cnv[h].uses)) \in Heaps
     BY <1>5, UnloadIs DEF OwnerInv, ControlInv
  <1>8. State' \in Heaps
     <2>1. State' = Unload(State, Head(cnv[h].uses))
        BY <1>6, <1>7 DEF Becomes, State, Heaps
     <2> QED BY <1>7, <2>1
  <1>9. /\ cnv' \in [Handle -> Converter]
        /\ \A g \in Handle : cnv'[g].name = cnv[g].name /\ (cnv[g].name = "none" => cnv'[g] = NoConverter)
     <2> HIDE DEF h
     <2> QED BY <1>2, <1>3, <1>4, <1>5, <1>6 DEF Converter
  <1>10. /\ job' = [job EXCEPT ![t] = job[t]] /\ registered' \in BOOLEAN /\ (registered => registered')
         /\ UNCHANGED <<default, nameVars, mine, stale>>
     BY DEF UnloadSharedData, OwnerInv, ControlInv
  <1>11. (~stale => RightName(job[t])) /\ (Settled(job[t]) => registered)
     BY DEF OwnerInv, NameInv, NameRegistered
  <1> QED BY <1>2, <1>8, <1>9, <1>10, <1>11, JobGoesOn

(* A step of the job alone. *)
LEMMA JobAlone ==
  ASSUME OwnerInv, NEW t \in User, NEW x \in Jobs, job' = [job EXCEPT ![t] = x],
         HoldOf(x) = HoldOf(job[t]),
         UNCHANGED <<cacheVars, cnv, default, nameVars, mine, stale>>,
         ~stale => RightName(x), Settled(x) => registered
  PROVE  OwnerInv'
  <1>1. UNCHANGED cacheVars /\ UNCHANGED cnv /\ UNCHANGED <<default, nameVars, mine, stale>>
     OBVIOUS
  <1> QED BY <1>1, Frames, Unchanged, JobGoesOn

LEMMA FlushTableOK == ASSUME OwnerInv, NEW t \in User, FlushTable(t) PROVE OwnerInv'
  <1> DEFINE x == [pc |-> "idle"]
  <1>1. x \in Jobs /\ HoldOf(x) = NULL /\ ~Settled(x) /\ RightName(x)
     BY NewJobs DEF HoldOf, Settled, RightName, ForDefault, Probed
  <1>2. job' = [job EXCEPT ![t] = x] /\ HoldOf(job[t]) = NULL
     BY DEF FlushTable, JobAt, Goes, NoJob, HoldOf
  <1>3. State' \in Heaps
     <2>1. CASE tableOpen
        <3>1. PICK q \in Orders : Becomes(Flushed(State, q))
           BY <2>1 DEF FlushTable
        <3>2. q \in Seq(Data)
           BY DataAssumption, FS_CardinalityType DEF Orders
        <3>3. Flushed(State, q) \in Heaps
           BY <3>2, FlushedIs DEF OwnerInv, ControlInv
        <3>4. State' = Flushed(State, q)
           BY <3>1, <3>3 DEF Becomes, State, Heaps
        <3> QED BY <3>3, <3>4
     <2>2. CASE ~tableOpen
        BY <2>2 DEF FlushTable, OwnerInv, ControlInv, State
     <2> QED BY <2>1, <2>2
  <1>4. /\ registered' \in BOOLEAN /\ (registered => registered') /\ UNCHANGED cnv
        /\ UNCHANGED <<default, nameVars, mine, stale>>
     BY DEF FlushTable, OwnerInv, ControlInv
  <1> HIDE DEF x
  <1> QED BY <1>1, <1>2, <1>3, <1>4, Unchanged, JobGoesOn

LEMMA GoOnOK ==
  ASSUME OwnerInv, NEW t \in User, GetDefault(t) \/ FlushCache(t) \/ ReleaseDefault(t)
  PROVE  OwnerInv'
  <1>1. UNCHANGED <<cacheVars, cnv, default, nameVars, mine, stale>>
     BY DEF GetDefault, FlushCache, ReleaseDefault
  <1>2. CASE GetDefault(t) \/ FlushCache(t)
     <2>1. PICK p \in {"take", "openDefault", "flushDefault", "flushTable"} :
              job' = [job EXCEPT ![t] = [pc |-> p]] /\ HoldOf(job[t]) = NULL
        BY <1>2 DEF GetDefault, FlushCache, Goes, JobAt, HoldOf
     <2> DEFINE x == [pc |-> p]
     <2>2. x \in Jobs /\ HoldOf(x) = NULL /\ ~Settled(x) /\ RightName(x)
        BY NewJobs DEF HoldOf, Settled, RightName, ForDefault, Probed
     <2>3. job' = [job EXCEPT ![t] = x]
        BY <2>1
     <2> HIDE DEF x
     <2> QED BY <1>1, <2>1, <2>2, <2>3, JobAlone
  <1>3. CASE ReleaseDefault(t)
     <2> DEFINE h == job[t].h
     <2>1. job[t].pc = "use"
        BY <1>3 DEF ReleaseDefault, JobAt
     <2>2. h \in Handle /\ HoldOf(job[t]) = h
        BY <2>1, JobOf, JobKinds DEF HoldOf
     <2>3. CASE default = NULL
        <3> DEFINE x == [pc |-> "putBack", h |-> h]
        <3>1. job' = [job EXCEPT ![t] = x]
           BY <1>3, <2>3 DEF ReleaseDefault, Goes
        <3>2. x \in Jobs /\ HoldOf(x) = h
           BY <2>2, NewJobs DEF HoldOf
        <3>3. (RightName(job[t]) => RightName(x)) /\ Settled(job[t])
           BY <2>1 DEF RightName, Settled, ForDefault, Probed
        <3>4. (~stale => RightName(x)) /\ (Settled(x) => registered)
           BY <3>3 DEF OwnerInv, NameInv, NameRegistered
        <3> HIDE DEF x, h
        <3> QED BY <1>1, <2>2, <3>1, <3>2, <3>4, JobAlone
     <2>4. CASE default # NULL
        <3> DEFINE x == [pc |-> "close", h |-> h, for |-> "none"]
        <3>1. job' = [job EXCEPT ![t] = x]
           BY <1>3, <2>4 DEF ReleaseDefault, ThenClose, Goes
        <3>2. x \in Jobs /\ HoldOf(x) = h /\ RightName(x) /\ ~Settled(x)
           BY <2>2, NewJobs DEF HoldOf, RightName, Settled, ForDefault, Probed
        <3> HIDE DEF x, h
        <3> QED BY <1>1, <2>2, <3>1, <3>2, JobAlone
     <2> QED BY <2>3, <2>4
  <1> QED BY <1>2, <1>3


LEMMA OpenedOK == ASSUME OwnerInv, NEW t \in User, Opened(t) PROVE OwnerInv'
  <1>1. job[t].pc = "load" /\ UNCHANGED <<cacheVars, cnv, default, nameVars, stale>>
     BY DEF Opened, JobAt
  <1>2. PICK h \in Handle : h = job[t].h
     BY <1>1, JobOf, JobKinds
  <1>3. HoldOf(job[t]) = h /\ job[t].for \in {"client", "default", "test", "probe"}
     BY <1>1, <1>2, JobOf, JobKinds DEF HoldOf
  <1>4. CASE job[t].for = "client"
     <2>1. job' = [job EXCEPT ![t] = [pc |-> "idle"]] /\ mine' = [mine EXCEPT ![t] = @ \cup {h}]
        BY <1>2, <1>4 DEF Opened, Goes, NoJob
     <2> DEFINE x == [pc |-> "idle"]
     <2>2. x \in Jobs /\ HoldOf(x) = NULL /\ ~Settled(x) /\ RightName(x)
        BY NewJobs DEF HoldOf, Settled, RightName, ForDefault, Probed
     <2>3. job' = [job EXCEPT ![t] = x]
        BY <2>1
     <2> HIDE DEF x
     <2>4. /\ job' \in [User -> Jobs] /\ mine' \in [User -> SUBSET Handle]
           /\ job'[t] = x /\ \A u \in User \ {t} : job'[u] = job[u]
           /\ mine'[t] = mine[t] \cup {h} /\ \A u \in User \ {t} : mine'[u] = mine[u]
        BY <2>1, <2>2, <2>3 DEF OwnerInv, ControlInv
     <2>5. ControlInv'
        BY <1>1, <2>4 DEF OwnerInv, ControlInv, State, cacheVars, nameVars
     <2>6. OneOwner'
        <3>1. \A u \in User : HoldOf(job'[u]) = IF u = t THEN NULL ELSE HoldOf(job[u])
           BY <2>2, <2>4
        <3>2. \A g \in Handle : g # NULL
           BY DEF Handle, NULL
        <3>3. ASSUME NEW g \in Handle PROVE Owned(g)' <=> Owned(g)
           <4>1. CASE g = h
              BY <1>3, <2>4, <4>1 DEF Owned
           <4>2. CASE g # h
              <5>1. ASSUME NEW u \in User PROVE (HoldOf(job'[u]) = g <=> HoldOf(job[u]) = g) /\ (g \in mine'[u] <=> g \in mine[u])
                 BY <1>3, <2>4, <3>1, <3>2, <4>2
              <5> QED BY <1>1, <5>1 DEF Owned
           <4> QED BY <4>1, <4>2
        <3>4. ASSUME NEW g \in Handle, NEW u \in User
              PROVE  /\ HoldOf(job'[u]) = g => default # g /\ \A v \in User : g \notin mine'[v] /\ (HoldOf(job'[v]) = g => u = v)
                     /\ g \in mine'[u] => default # g /\ \A v \in User : g \in mine'[v] => u = v
           BY <1>3, <2>4, <3>1, <3>2 DEF OwnerInv, OneOwner, OwnedOnce
        <3> QED BY <1>1, <3>3, <3>4 DEF OwnerInv, OneOwner, OwnedOnce
     <2>7. NameInv'
        BY <1>1, <2>2, <2>4 DEF OwnerInv, NameInv, nameVars, RightName, AlgorithmicTypeFromName
     <2>8. NameRegistered'
        BY <1>1, <2>2, <2>4 DEF OwnerInv, NameRegistered, nameVars, cacheVars
     <2> QED BY <2>5, <2>6, <2>7, <2>8 DEF OwnerInv
  <1>5. CASE job[t].for # "client"
     <2>1. PICK x \in {[pc |-> "use", h |-> h], [pc |-> "close", h |-> h, for |-> "none"], [pc |-> "setName", h |-> h]} :
              /\ job' = [job EXCEPT ![t] = x] /\ UNCHANGED mine
              /\ x.pc = "use" => job[t].for = "default"
        <3>1. CASE job[t].for = "default"
           BY <1>2, <3>1 DEF Opened, Goes
        <3>2. CASE job[t].for = "test"
           BY <1>2, <3>2 DEF Opened, Goes, ThenClose
        <3>3. CASE job[t].for = "probe"
           BY <1>2, <3>3 DEF Opened, Goes
        <3> QED BY <1>3, <1>5, <3>1, <3>2, <3>3
     <2>2. x \in Jobs /\ HoldOf(x) = h
        <3>1. CASE x = [pc |-> "use", h |-> h]
           BY <3>1, NewJobs DEF HoldOf
        <3>2. CASE x = [pc |-> "close", h |-> h, for |-> "none"]
           BY <3>2, NewJobs DEF HoldOf
        <3>3. CASE x = [pc |-> "setName", h |-> h]
           BY <3>3, NewJobs DEF HoldOf
        <3> QED BY <2>1, <3>1, <3>2, <3>3
     <2>3. (RightName(job[t]) => RightName(x)) /\ (Settled(x) => Settled(job[t]))
        BY <1>1, <1>2, <2>1 DEF RightName, Settled, ForDefault, Probed
     <2>4. (~stale => RightName(x)) /\ (Settled(x) => registered)
        BY <2>3 DEF OwnerInv, NameInv, NameRegistered
     <2>5. UNCHANGED <<cacheVars, cnv, default, nameVars, mine, stale>>
        BY <1>1, <2>1
     <2> QED BY <1>3, <2>1, <2>2, <2>4, <2>5, JobAlone
  <1> QED BY <1>4, <1>5

-------------------------------------------------------------------------------
(* The steps that open a converter. *)

LEMMA OpenOK ==
  ASSUME OwnerInv, NEW t \in User, NEW n \in Names, NEW pkg \in BOOLEAN, NEW f \in {"client", "test"},
         Open(t, n, pkg, f)
  PROVE  OwnerInv'
  <1>1. HoldOf(job[t]) = NULL /\ f # "default"
     BY DEF Open, JobAt, HoldOf
  <1>2. StartOpen(t, n, f, pkg) /\ UNCHANGED <<cacheVars, default, nameVars, mine, stale>>
     BY DEF Open
  <1> QED BY <1>1, <1>2, JobStarts

LEMMA OpenDefaultOK == ASSUME OwnerInv, NEW t \in User, OpenDefault(t) PROVE OwnerInv'
  <1>1. HoldOf(job[t]) = NULL /\ UNCHANGED <<cacheVars, default, nameVars, mine, stale>>
     BY DEF OpenDefault, JobAt, HoldOf
  <1>2. CASE defaultName = "null"
     <2>1. StartOpen(t, SystemName, "probe", FALSE)
        BY <1>2 DEF OpenDefault
     <2> QED BY <1>1, <2>1, NamesAssumption, JobStarts
  <1>3. CASE defaultName # "null"
     <2> DEFINE x == [pc |-> "openNamed", name |-> defaultName]
     <2>1. job' = [job EXCEPT ![t] = x] /\ UNCHANGED cnv
        BY <1>3 DEF OpenDefault, Goes
     <2>2. x \in Jobs /\ HoldOf(x) = NULL
        BY <1>3, NewJobs DEF OwnerInv, ControlInv, HoldOf
     <2>3. RightName(x) /\ registered
        BY <1>3 DEF RightName, ForDefault, Probed, OwnerInv, NameRegistered
     <2> HIDE DEF x
     <2> QED BY <1>1, <2>1, <2>2, <2>3, JobAlone
  <1> QED BY <1>2, <1>3

LEMMA OpenNamedOK == ASSUME OwnerInv, NEW t \in User, OpenNamed(t) PROVE OwnerInv'
  <1>1. job[t].pc = "openNamed"
     BY DEF OpenNamed, JobAt
  <1>2. HoldOf(job[t]) = NULL /\ UNCHANGED <<cacheVars, default, nameVars, mine, stale>> /\ job[t].name \in Names
     BY <1>1, JobOf, JobKinds DEF OpenNamed, HoldOf
  <1>3. registered /\ (~stale => defaultName = job[t].name)
     BY <1>1 DEF OwnerInv, NameRegistered, Settled, NameInv, RightName
  <1>4. /\ defaultName # "null" => defaultAlg = AlgorithmicTypeFromName(defaultName)
        /\ defaultName \in Names \cup {"null"} /\ defaultAlg \in Names \cup {"null"} /\ "null" \notin Names
     BY NamesAssumption DEF OwnerInv, NameInv, ControlInv
  <1>5. CASE defaultAlg # "null"
     <2>1. StartOpen(t, defaultAlg, "default", FALSE)
        BY <1>5 DEF OpenNamed
     <2>2. ~stale => defaultName # "null" /\ defaultAlg = defaultName
        BY <1>2, <1>3, <1>4, <1>5 DEF AlgorithmicTypeFromName
     <2>3. defaultAlg \in Names
        BY <1>4, <1>5
     <2> QED BY <1>2, <1>3, <2>1, <2>2, <2>3, JobStarts
  <1>6. CASE defaultAlg = "null" /\ job[t].name \in Data
     <2>1. StartOpen(t, job[t].name, "default", FALSE)
        BY <1>6 DEF OpenNamed
     <2>2. ~stale => defaultName # "null" /\ job[t].name = defaultName
        BY <1>2, <1>3, <1>4
     <2> QED BY <1>2, <1>3, <2>1, <2>2, JobStarts
  <1>7. CASE defaultAlg = "null" /\ job[t].name \notin Data
     <2> DEFINE x == [pc |-> "idle"]
     <2>1. job' = [job EXCEPT ![t] = x] /\ UNCHANGED cnv
        BY <1>7 DEF OpenNamed, Goes, NoJob
     <2>2. x \in Jobs /\ HoldOf(x) = NULL /\ RightName(x) /\ ~Settled(x)
        BY NewJobs DEF HoldOf, RightName, Settled, ForDefault, Probed
     <2> HIDE DEF x
     <2> QED BY <1>2, <2>1, <2>2, JobAlone
  <1> QED BY <1>5, <1>6, <1>7

-------------------------------------------------------------------------------
(* The steps that hand a converter over, or delete it. *)

LEMMA OthersOwned ==
  ASSUME OneOwner, NEW h \in Handle, OwnedOnce(h)',
         \A g \in Handle \ {h} : (default' = g <=> default = g) /\ (cnv'[g] = NoConverter <=> cnv[g] = NoConverter),
         \A g \in Handle \ {h}, u \in User :
           (HoldOf(job'[u]) = g <=> HoldOf(job[u]) = g) /\ (g \in mine'[u] <=> g \in mine[u])
  PROVE  OneOwner'
  <1>1. ASSUME NEW g \in Handle \ {h} PROVE OwnedOnce(g)'
     <2>1. OwnedOnce(g)
        BY DEF OneOwner, OwnedOnce
     <2>a. (default' = g <=> default = g) /\ (cnv'[g] = NoConverter <=> cnv[g] = NoConverter)
        OBVIOUS
     <2>b. ASSUME NEW u \in User
           PROVE  (HoldOf(job'[u]) = g <=> HoldOf(job[u]) = g) /\ (g \in mine'[u] <=> g \in mine[u])
        OBVIOUS
     <2>2. Owned(g)' <=> Owned(g)
        BY <2>a, <2>b DEF Owned
     <2>3. ASSUME NEW u \in User
           PROVE  /\ HoldOf(job'[u]) = g => default' # g /\ \A v \in User : g \notin mine'[v] /\ (HoldOf(job'[v]) = g => u = v)
                  /\ g \in mine'[u] => default' # g /\ \A v \in User : g \in mine'[v] => u = v
        BY <2>1, <2>a, <2>b DEF OwnedOnce
     <2> QED BY <2>a, <2>1, <2>2, <2>3 DEF OwnedOnce
  <1>2. \A g \in Handle : OwnedOnce(g)'
     BY <1>1
  <1> QED BY <1>2 DEF OneOwner, OwnedOnce

LEMMA OwnedNow == ASSUME OneOwner, NEW h \in Handle PROVE OwnedOnce(h)
  BY DEF OneOwner, OwnedOnce

(* One job goes on, the others stay; what that means for the types and for   *)
(* the names the jobs are for.                                               *)
LEMMA OneJob ==
  ASSUME OwnerInv, NEW t \in User, NEW x \in Jobs, job' = [job EXCEPT ![t] = x]
  PROVE  /\ job' \in [User -> Jobs] /\ job'[t] = x /\ \A u \in User \ {t} : job'[u] = job[u]
         /\ \A u \in User : HoldOf(job'[u]) = IF u = t THEN HoldOf(x) ELSE HoldOf(job[u])
         /\ \A h \in Handle : h # NULL
  BY DEF OwnerInv, ControlInv, Handle, NULL

LEMMA NamesKept ==
  ASSUME OwnerInv, NEW t \in User, NEW x \in Jobs, job' = [job EXCEPT ![t] = x],
         UNCHANGED <<nameVars, registered, stale>>,
         \A h \in Handle : (\E u \in User \ {t} : HoldOf(job[u]) = h) => cnv'[h] = cnv[h],
         ForDefault(x) => cnv'[x.h] = cnv[x.h],
         ~stale => RightName(x), Settled(x) => registered,
         default' # NULL => registered /\ (~stale => defaultName # "null" /\ cnv'[default'].name = defaultName)
  PROVE  NameInv' /\ NameRegistered'
  <1>1. job'[t] = x /\ \A u \in User \ {t} : job'[u] = job[u]
     BY OneJob
  <1>2. ASSUME ~stale, NEW u \in User PROVE RightName(job[u])'
     <2>1. CASE u = t
        BY <1>1, <1>2, <2>1 DEF RightName, nameVars
     <2>2. CASE u # t
        <3>1. RightName(job[u]) /\ job'[u] = job[u]
           BY <1>1, <1>2, <2>2 DEF OwnerInv, NameInv
        <3>2. ForDefault(job[u]) => job[u].h \in Handle /\ job[u].h = HoldOf(job[u])
           BY JobOf, JobKinds DEF ForDefault, HoldOf
        <3>3. ForDefault(job[u]) => cnv'[job[u].h] = cnv[job[u].h]
           BY <2>2, <3>2
        <3> QED BY <3>1, <3>3 DEF RightName, nameVars
     <2> QED BY <2>1, <2>2
  <1>3. NameInv'
     BY <1>2 DEF OwnerInv, NameInv, nameVars, AlgorithmicTypeFromName
  <1>4. NameRegistered'
     BY <1>1 DEF OwnerInv, NameRegistered, nameVars
  <1> QED BY <1>3, <1>4

LEMMA CloseOK == ASSUME OwnerInv, NEW t \in User, NEW h \in Handle, Close(t, h) PROVE OwnerInv'
  <1> DEFINE x == [pc |-> "close", h |-> h, for |-> "none"]
  <1>1. /\ HoldOf(job[t]) = NULL /\ h \in mine[t] /\ job' = [job EXCEPT ![t] = x]
        /\ mine' = [mine EXCEPT ![t] = @ \ {h}]
     BY DEF Close, JobAt, HoldOf, ThenClose, Goes
  <1>2. UNCHANGED <<cacheVars, cnv, default, nameVars, stale>>
     BY DEF Close
  <1>3. x \in Jobs /\ HoldOf(x) = h /\ ~Settled(x) /\ RightName(x)
     BY NewJobs DEF HoldOf, Settled, RightName, ForDefault, Probed
  <1> HIDE DEF x
  <1>4. /\ job' \in [User -> Jobs]
        /\ \A u \in User : HoldOf(job'[u]) = IF u = t THEN h ELSE HoldOf(job[u])
        /\ \A g \in Handle : g # NULL
     BY <1>1, <1>3, OneJob
  <1>5. /\ mine' \in [User -> SUBSET Handle]
        /\ mine'[t] = mine[t] \ {h} /\ \A u \in User \ {t} : mine'[u] = mine[u]
     BY <1>1 DEF OwnerInv, ControlInv
  <1>6. ControlInv'
     BY <1>2, <1>4, <1>5 DEF OwnerInv, ControlInv, State, cacheVars, nameVars
  <1>7. OwnedOnce(h)'
     <2>1. OwnedOnce(h)
        BY OwnedNow DEF OwnerInv
     <2>2. Owned(h) /\ Owned(h)'
        BY <1>1, <1>4 DEF Owned
     <2> QED BY <1>1, <1>2, <1>4, <1>5, <2>1, <2>2 DEF OwnedOnce
  <1>8. OneOwner'
     <2>1. \A g \in Handle \ {h}, u \in User :
             (HoldOf(job'[u]) = g <=> HoldOf(job[u]) = g) /\ (g \in mine'[u] <=> g \in mine[u])
        BY <1>1, <1>4, <1>5
     <2> QED BY <1>2, <1>7, <2>1, OthersOwned DEF OwnerInv
  <1>9. NameInv' /\ NameRegistered'
     <2>1. default # NULL => registered /\ (~stale => defaultName # "null" /\ cnv[default].name = defaultName)
        BY DEF OwnerInv, NameInv, NameRegistered
     <2>2. UNCHANGED <<nameVars, registered, stale>> /\ UNCHANGED cnv /\ UNCHANGED default
        BY <1>2 DEF cacheVars
     <2> QED BY <1>1, <1>3, <2>1, <2>2, NamesKept
  <1> QED BY <1>6, <1>8, <1>9 DEF OwnerInv

(* Where a job goes when it has closed its converter. *)
LEMMA ClosedOK == ASSUME OwnerInv, NEW t \in User, Closed(t) PROVE OwnerInv'
  <1>1. job[t].pc = "close" /\ UNCHANGED <<cacheVars, default, nameVars, mine, stale>>
     BY DEF Closed, JobAt
  <1>2. PICK h \in Handle : h = job[t].h
     BY <1>1, JobOf, JobKinds
  <1>3. HoldOf(job[t]) = h /\ job[t].for \in {"none", "flush", "probed", "probeFailed"}
     BY <1>1, <1>2, JobOf, JobKinds DEF HoldOf
  <1>4. cnv' = [cnv EXCEPT ![h] = NoConverter]
     BY <1>2 DEF Closed
  <1>5. PICK x \in Jobs : /\ job' = [job EXCEPT ![t] = x] /\ HoldOf(x) = NULL
                          /\ ~ForDefault(x) /\ (Settled(x) => Settled(job[t])) /\ (RightName(job[t]) => RightName(x))
     <2>1. CASE job[t].for \in {"none", "flush", "probeFailed"}
        <3>1. PICK p \in {"idle", "flushTable", "setFallback"} : job' = [job EXCEPT ![t] = [pc |-> p]]
           BY <2>1 DEF Closed, Goes, NoJob
        <3> DEFINE x == [pc |-> p]
        <3>2. x \in Jobs /\ HoldOf(x) = NULL /\ ~ForDefault(x) /\ ~Settled(x) /\ RightName(x)
           BY NewJobs DEF HoldOf, ForDefault, Settled, Probed, RightName
        <3> QED BY <3>1, <3>2
     <2>2. CASE job[t].for = "probed"
        <3> DEFINE x == [pc |-> "openNamed", name |-> SystemName]
        <3>1. job' = [job EXCEPT ![t] = x]
           BY <2>2 DEF Closed, Goes
        <3>2. x \in Jobs /\ HoldOf(x) = NULL /\ ~ForDefault(x)
           BY NewJobs, NamesAssumption DEF HoldOf, ForDefault
        <3>3. Settled(job[t]) /\ (RightName(job[t]) => RightName(x))
           BY <1>1, <2>2 DEF Settled, RightName, Probed, ForDefault
        <3> QED BY <3>1, <3>2, <3>3
     <2> QED BY <1>3, <2>1, <2>2
  <1>6. /\ job' \in [User -> Jobs]
        /\ \A u \in User : HoldOf(job'[u]) = IF u = t THEN NULL ELSE HoldOf(job[u])
        /\ \A g \in Handle : g # NULL
     BY <1>5, OneJob
  <1>7. /\ cnv' \in [Handle -> Converter] /\ cnv'[h] = NoConverter
        /\ \A g \in Handle \ {h} : cnv'[g] = cnv[g]
     <2>1. NoConverter \in Converter
        BY DEF NoConverter, Converter
     <2> QED BY <1>4, <2>1 DEF OwnerInv, ControlInv
  <1>8. ControlInv'
     BY <1>1, <1>6, <1>7 DEF OwnerInv, ControlInv, State, cacheVars, nameVars
  <1>9. default # h /\ \A u \in User : (HoldOf(job[u]) = h => u = t) /\ h \notin mine[u]
     BY <1>3, OwnedNow DEF OwnedOnce, OwnerInv
  <1>10. OwnedOnce(h)'
     <2>1. ~Owned(h)'
        BY <1>1, <1>6, <1>9 DEF Owned
     <2> QED BY <1>1, <1>6, <1>7, <1>9, <2>1 DEF OwnedOnce
  <1>11. OneOwner'
     <2>1. \A g \in Handle \ {h}, u \in User :
             (HoldOf(job'[u]) = g <=> HoldOf(job[u]) = g) /\ (g \in mine'[u] <=> g \in mine[u])
        BY <1>1, <1>3, <1>6
     <2> QED BY <1>1, <1>7, <1>10, <2>1, OthersOwned DEF OwnerInv
  <1>12. NameInv' /\ NameRegistered'
     <2>1. default # NULL => registered /\ (~stale => defaultName # "null" /\ cnv'[default].name = defaultName)
        BY <1>7, <1>9 DEF OwnerInv, ControlInv, NameInv, NameRegistered
     <2>2. UNCHANGED <<nameVars, registered, stale>> /\ UNCHANGED default
        BY <1>1 DEF cacheVars
     <2>3. \A g \in Handle : (\E u \in User \ {t} : HoldOf(job[u]) = g) => cnv'[g] = cnv[g]
        BY <1>7, <1>9
     <2>4. (~stale => RightName(x)) /\ (Settled(x) => registered)
        BY <1>5 DEF OwnerInv, NameInv, NameRegistered
     <2> QED BY <1>5, <2>1, <2>2, <2>3, <2>4, NamesKept
  <1> QED BY <1>8, <1>11, <1>12 DEF OwnerInv

LEMMA CloneOK == ASSUME OwnerInv, NEW t \in User, NEW h \in Handle, SafeClone(t, h) PROVE OwnerInv'
  <1>1. HoldOf(job[t]) = NULL /\ h \in mine[t] /\ UNCHANGED <<table, tableOpen, registered, default, nameVars, job, stale>>
     BY DEF SafeClone, JobAt, HoldOf
  <1>2. PICK g \in Handle : g = NewHandle /\ cnv[g] = NoConverter
     BY HandleIsNew DEF SafeClone
  <1>3. /\ cnv' = [cnv EXCEPT ![g] = cnv[h]] /\ mine' = [mine EXCEPT ![t] = @ \cup {g}]
        /\ data' = [c \in Copy |-> [data[c] EXCEPT !.refs =
                      @ + Cardinality({i \in DOMAIN cnv[h].uses : cnv[h].uses[i] = c})]]
     BY <1>2 DEF SafeClone
  <1>4. cnv[h] # NoConverter /\ cnv[h] \in Converter /\ cnv[h].uses \in Seq(Copy)
     BY <1>1 DEF OwnerInv, ControlInv, OneOwner, OwnedOnce, Owned, Converter
  <1>5. /\ cnv' \in [Handle -> Converter] /\ cnv'[g] = cnv[h] /\ \A f \in Handle \ {g} : cnv'[f] = cnv[f]
        /\ mine' \in [User -> SUBSET Handle]
        /\ mine'[t] = mine[t] \cup {g} /\ \A u \in User \ {t} : mine'[u] = mine[u]
     BY <1>3, <1>4 DEF OwnerInv, ControlInv
  <1>6. State' \in Heaps
     <2>1. State \in Heaps /\ data = State.data /\ table = State.table /\ tableOpen = State.tableOpen
        BY DEF OwnerInv, ControlInv, State
     <2>2. data \in [Copy -> Datum] /\ table \in [Data -> Copy \cup {NULL}] /\ tableOpen \in BOOLEAN
        BY <2>1 DEF Heaps
     <2>3. ASSUME NEW c \in Copy PROVE Cardinality({i \in DOMAIN cnv[h].uses : cnv[h].uses[i] = c}) \in Nat
        <3>1. DOMAIN cnv[h].uses = 1..Len(cnv[h].uses) /\ Len(cnv[h].uses) \in Nat
           BY <1>4
        <3>2. IsFiniteSet(DOMAIN cnv[h].uses)
           BY <3>1, FS_Interval
        <3> QED BY <3>2, FS_Subset, FS_CardinalityType
     <2>4. ASSUME NEW d \in Datum, NEW k \in Nat PROVE [d EXCEPT !.refs = @ + k] \in Datum
        BY DEF Datum
     <2>5. data' \in [Copy -> Datum]
        BY <1>3, <2>2, <2>3, <2>4
     <2> QED BY <1>1, <2>2, <2>5 DEF State, Heaps
  <1>7. ControlInv'
     BY <1>1, <1>4, <1>5, <1>6 DEF OwnerInv, ControlInv, nameVars
  <1>8. default # g /\ \A u \in User : HoldOf(job[u]) # g /\ g \notin mine[u]
     BY <1>2 DEF OwnerInv, OneOwner, OwnedOnce, Owned
  <1>9. OwnedOnce(g)'
     <2>1. Owned(g)'
        BY <1>5 DEF Owned
     <2> QED BY <1>1, <1>4, <1>5, <1>8, <2>1 DEF OwnedOnce
  <1>10. OneOwner'
     <2>1. \A f \in Handle \ {g}, u \in User :
             (HoldOf(job'[u]) = f <=> HoldOf(job[u]) = f) /\ (f \in mine'[u] <=> f \in mine[u])
        BY <1>1, <1>5
     <2> QED BY <1>1, <1>5, <1>9, <2>1, OthersOwned DEF OwnerInv
  <1>11. NameInv' /\ NameRegistered'
     <2>1. default # NULL => registered /\ (~stale => defaultName # "null" /\ cnv'[default].name = defaultName)
        BY <1>5, <1>8 DEF OwnerInv, ControlInv, NameInv, NameRegistered
     <2>2. \A f \in Handle : (\E u \in User \ {t} : HoldOf(job[u]) = f) => cnv'[f] = cnv[f]
        BY <1>5, <1>8
     <2>3. job' = [job EXCEPT ![t] = job[t]] /\ job[t] \in Jobs /\ ~ForDefault(job[t])
        BY <1>1, JobOf DEF OwnerInv, ControlInv, SafeClone, JobAt, ForDefault
     <2>4. (~stale => RightName(job[t])) /\ (Settled(job[t]) => registered)
        BY DEF OwnerInv, NameInv, NameRegistered
     <2> QED BY <1>1, <2>1, <2>2, <2>3, <2>4, NamesKept
  <1> QED BY <1>7, <1>10, <1>11 DEF OwnerInv

(* u_getDefaultConverter and u_flushDefaultConverter take the default        *)
(* converter over, for a job that has none.                                  *)
LEMMA DefaultTaken ==
  ASSUME OwnerInv, NEW t \in User, HoldOf(job[t]) = NULL, NEW h \in Handle, default = h, default' = NULL,
         NEW x \in Jobs, HoldOf(x) = h, x.h = h, job' = [job EXCEPT ![t] = x],
         ~Probed(x), x.pc # "openNamed",
         UNCHANGED <<cacheVars, cnv, nameVars, mine, stale>>
  PROVE  OwnerInv'
  <1>1. /\ job' \in [User -> Jobs]
        /\ \A u \in User : HoldOf(job'[u]) = IF u = t THEN h ELSE HoldOf(job[u])
        /\ \A g \in Handle : g # NULL
     BY OneJob
  <1>2. ControlInv'
     BY <1>1 DEF OwnerInv, ControlInv, State, cacheVars, nameVars
  <1>3. \A u \in User : HoldOf(job[u]) # h /\ h \notin mine[u]
     BY OwnedNow DEF OwnedOnce, OwnerInv
  <1>4. OwnedOnce(h)'
     <2>1. cnv[h] # NoConverter
        BY DEF OwnerInv, OneOwner, OwnedOnce, Owned
     <2>2. Owned(h)'
        BY <1>1 DEF Owned
     <2> QED BY <1>1, <1>3, <2>1, <2>2 DEF OwnedOnce
  <1>5. OneOwner'
     <2>1. \A g \in Handle \ {h}, u \in User :
             (HoldOf(job'[u]) = g <=> HoldOf(job[u]) = g) /\ (g \in mine'[u] <=> g \in mine[u])
        BY <1>1
     <2>2. \A g \in Handle \ {h} : (default' = g <=> default = g) /\ (cnv'[g] = NoConverter <=> cnv[g] = NoConverter)
        BY <1>1
     <2> QED BY <1>4, <2>1, <2>2, OthersOwned DEF OwnerInv
  <1>6. NameInv' /\ NameRegistered'
     <2>1. registered /\ (~stale => defaultName # "null" /\ cnv[h].name = defaultName)
        BY <1>1 DEF OwnerInv, NameInv, NameRegistered
     <2>2. ~stale => RightName(x)
        BY <2>1 DEF RightName
     <2>3. UNCHANGED <<nameVars, registered, stale>> /\ UNCHANGED cnv
        BY DEF cacheVars
     <2> QED BY <2>1, <2>2, <2>3, NamesKept
  <1> QED BY <1>2, <1>5, <1>6 DEF OwnerInv

LEMMA TakeOK == ASSUME OwnerInv, NEW t \in User, TakeDefault(t) \/ FlushDefault(t) PROVE OwnerInv'
  <1>1. HoldOf(job[t]) = NULL /\ default' = NULL /\ UNCHANGED <<cacheVars, cnv, nameVars, mine, stale>>
     BY DEF TakeDefault, FlushDefault, JobAt, HoldOf
  <1>2. CASE default = NULL
     <2>1. PICK p \in {"openDefault", "flushTable"} : job' = [job EXCEPT ![t] = [pc |-> p]]
        BY <1>2 DEF TakeDefault, FlushDefault, Goes
     <2> DEFINE x == [pc |-> p]
     <2>2. x \in Jobs /\ HoldOf(x) = NULL /\ ~Settled(x) /\ RightName(x)
        BY NewJobs DEF HoldOf, Settled, ForDefault, Probed, RightName
     <2>3. job' = [job EXCEPT ![t] = x] /\ UNCHANGED <<cacheVars, cnv, default, nameVars, mine, stale>>
        BY <1>1, <1>2, <2>1
     <2> HIDE DEF x
     <2> QED BY <1>1, <2>2, <2>3, JobAlone
  <1>3. CASE default # NULL
     <2>1. PICK h \in Handle : default = h
        BY <1>3 DEF OwnerInv, ControlInv
     <2>2. PICK x \in {[pc |-> "use", h |-> h], [pc |-> "close", h |-> h, for |-> "flush"]} :
              job' = [job EXCEPT ![t] = x]
        BY <1>3, <2>1 DEF TakeDefault, FlushDefault, ThenClose, Goes
     <2>3. x \in Jobs /\ HoldOf(x) = h /\ x.h = h /\ ~Probed(x) /\ x.pc # "openNamed"
        <3>1. CASE x = [pc |-> "use", h |-> h]
           BY <3>1, NewJobs DEF HoldOf, Probed
        <3>2. CASE x = [pc |-> "close", h |-> h, for |-> "flush"]
           BY <3>2, NewJobs DEF HoldOf, Probed
        <3> QED BY <2>2, <3>1, <3>2
     <2> QED BY <1>1, <2>1, <2>2, <2>3, DefaultTaken
  <1> QED BY <1>2, <1>3

LEMMA PutBackOK == ASSUME OwnerInv, NEW t \in User, PutBack(t) PROVE OwnerInv'
  <1>1. job[t].pc = "putBack" /\ UNCHANGED <<cacheVars, cnv, nameVars, mine, stale>>
     BY DEF PutBack, JobAt
  <1>2. PICK h \in Handle : h = job[t].h
     BY <1>1, JobOf, JobKinds
  <1>3. HoldOf(job[t]) = h
     BY <1>1, <1>2 DEF HoldOf
  <1>4. CASE default # NULL
     <2> DEFINE x == [pc |-> "close", h |-> h, for |-> "none"]
     <2>1. job' = [job EXCEPT ![t] = x] /\ UNCHANGED <<cacheVars, cnv, default, nameVars, mine, stale>>
        BY <1>1, <1>2, <1>4 DEF PutBack, ThenClose, Goes
     <2>2. x \in Jobs /\ HoldOf(x) = h /\ ~Settled(x) /\ RightName(x)
        BY NewJobs DEF HoldOf, Settled, ForDefault, Probed, RightName
     <2> HIDE DEF x
     <2> QED BY <1>3, <2>1, <2>2, JobAlone
  <1>5. CASE default = NULL
     <2> DEFINE x == [pc |-> "idle"]
     <2>1. job' = [job EXCEPT ![t] = x] /\ default' = h
        BY <1>2, <1>5 DEF PutBack, Goes, NoJob
     <2>2. x \in Jobs /\ HoldOf(x) = NULL /\ ~Settled(x) /\ RightName(x) /\ ~ForDefault(x)
        BY NewJobs DEF HoldOf, Settled, ForDefault, Probed, RightName
     <2> HIDE DEF x
     <2>3. /\ job' \in [User -> Jobs]
           /\ \A u \in User : HoldOf(job'[u]) = IF u = t THEN NULL ELSE HoldOf(job[u])
           /\ \A g \in Handle : g # NULL
        BY <2>1, <2>2, OneJob
     <2>4. ControlInv'
        BY <1>1, <2>1, <2>3 DEF OwnerInv, ControlInv, State, cacheVars, nameVars
     <2>5. \A u \in User : (HoldOf(job[u]) = h => u = t) /\ h \notin mine[u]
        BY <1>3, OwnedNow DEF OwnedOnce, OwnerInv
     <2>6. OwnedOnce(h)'
        <3>1. cnv[h] # NoConverter
           BY <1>3 DEF OwnerInv, OneOwner, OwnedOnce, Owned
        <3>2. Owned(h)'
           BY <2>1 DEF Owned
        <3> QED BY <1>1, <2>1, <2>3, <2>5, <3>1, <3>2 DEF OwnedOnce
     <2>7. OneOwner'
        <3>1. \A g \in Handle \ {h}, u \in User :
                (HoldOf(job'[u]) = g <=> HoldOf(job[u]) = g) /\ (g \in mine'[u] <=> g \in mine[u])
           BY <1>1, <1>3, <2>3
        <3>2. \A g \in Handle \ {h} : (default' = g <=> default = g) /\ (cnv'[g] = NoConverter <=> cnv[g] = NoConverter)
           BY <1>1, <1>5, <2>1, <2>3
        <3> QED BY <2>6, <3>1, <3>2, OthersOwned DEF OwnerInv
     <2>8. NameInv' /\ NameRegistered'
        <3>1. Settled(job[t]) /\ ForDefault(job[t])
           BY <1>1 DEF Settled, ForDefault
        <3>2. registered /\ (~stale => defaultName # "null" /\ cnv[h].name = defaultName)
           BY <1>2, <3>1 DEF OwnerInv, NameInv, NameRegistered, RightName
        <3>3. UNCHANGED <<nameVars, registered, stale>> /\ UNCHANGED cnv
           BY <1>1 DEF cacheVars
        <3> QED BY <2>1, <2>2, <3>2, <3>3, NamesKept
     <2> QED BY <2>4, <2>7, <2>8 DEF OwnerInv
  <1> QED BY <1>4, <1>5

-------------------------------------------------------------------------------
(* The steps that set the name. *)

LEMMA ProbeOK ==
  ASSUME OwnerInv, NEW t \in User, ProbeSetsName(t) \/ ProbeFallsBack(t)
  PROVE  OwnerInv'
  <1>1. PICK n \in Names, x \in Jobs :
           /\ ProbeSets(n) /\ job' = [job EXCEPT ![t] = x] /\ HoldOf(x) = HoldOf(job[t]) /\ ~ForDefault(x)
           /\ Probed(x) => n = SystemName
           /\ x.pc = "openNamed" => n = x.name
     <2>1. CASE ProbeSetsName(t)
        <3>1. PICK h \in Handle : h = job[t].h /\ HoldOf(job[t]) = h
           BY <2>1, JobOf, JobKinds DEF ProbeSetsName, JobAt, HoldOf
        <3> DEFINE x == [pc |-> "close", h |-> h, for |-> "probed"]
        <3>2. ProbeSets(SystemName) /\ job' = [job EXCEPT ![t] = x]
           BY <2>1, <3>1 DEF ProbeSetsName, ThenClose, Goes
        <3>3. x \in Jobs /\ HoldOf(x) = h /\ ~ForDefault(x) /\ x.pc # "openNamed"
           BY NewJobs DEF HoldOf, ForDefault
        <3> HIDE DEF x
        <3> QED BY <3>1, <3>2, <3>3, NamesAssumption
     <2>2. CASE ProbeFallsBack(t)
        <3> DEFINE x == [pc |-> "openNamed", name |-> FallbackName]
        <3>1. ProbeSets(FallbackName) /\ job' = [job EXCEPT ![t] = x] /\ HoldOf(job[t]) = NULL
           BY <2>2 DEF ProbeFallsBack, Goes, JobAt, HoldOf
        <3>2. FallbackName \in Names
           BY NamesAssumption DEF Names
        <3>3. x \in Jobs /\ HoldOf(x) = NULL /\ ~ForDefault(x) /\ ~Probed(x) /\ x.name = FallbackName
           BY <3>2, NewJobs DEF HoldOf, ForDefault, Probed
        <3> HIDE DEF x
        <3> QED BY <3>1, <3>2, <3>3
     <2> QED BY <2>1, <2>2
  <1>2. /\ defaultName' = n /\ defaultAlg' = AlgorithmicTypeFromName(n) /\ registered' = TRUE
        /\ stale' = (stale \/ defaultName \notin {"null", n})
        /\ UNCHANGED <<data, table, tableOpen, cnv, default, mine>>
     BY <1>1 DEF ProbeSets, InternalSetName, ProbeSetsName, ProbeFallsBack
  <1>3. /\ job' \in [User -> Jobs] /\ job'[t] = x /\ \A u \in User \ {t} : job'[u] = job[u]
        /\ \A u \in User : HoldOf(job'[u]) = HoldOf(job[u])
     BY <1>1, OneJob
  <1>4. ControlInv'
     <2>1. AlgorithmicTypeFromName(n) \in Names \cup {"null"}
        BY DEF AlgorithmicTypeFromName
     <2>2. stale' \in BOOLEAN
        BY <1>2 DEF OwnerInv, ControlInv
     <2> QED BY <1>2, <1>3, <2>1, <2>2 DEF OwnerInv, ControlInv, State
  <1>5. OneOwner'
     BY <1>2, <1>3 DEF OwnerInv, OneOwner, OwnedOnce, Owned
  <1>6. NameInv'
     <2>1. ASSUME ~stale' PROVE ~stale /\ defaultName \in {"null", n} /\ n # "null"
        BY <1>2, <2>1, NamesAssumption DEF OwnerInv, ControlInv
     <2>2. ASSUME ~stale', NEW u \in User PROVE RightName(job[u])'
        <3>1. CASE u = t
           BY <1>1, <1>2, <1>3, <3>1 DEF RightName
        <3>2. CASE u # t
           BY <1>2, <1>3, <2>1, <2>2, <3>2, NamesAssumption, JobOf, JobKinds DEF OwnerInv, NameInv, RightName
        <3> QED BY <3>1, <3>2
     <2>3. ASSUME ~stale', default # NULL PROVE cnv[default].name = n
        BY <2>1, <2>3 DEF OwnerInv, NameInv
     <2> QED BY <1>2, <2>1, <2>2, <2>3 DEF NameInv, AlgorithmicTypeFromName
  <1>7. NameRegistered'
     BY <1>2 DEF NameRegistered
  <1> QED BY <1>4, <1>5, <1>6, <1>7 DEF OwnerInv

(* Nobody is in a call. *)
LEMMA AllIdle ==
  ASSUME OwnerInv, NEW t \in User, Alone(t)
  PROVE  /\ \A u \in User : job[u].pc = "idle" /\ HoldOf(job[u]) = NULL /\ ~Settled(job[u]) /\ RightName(job[u])
         /\ \A h \in Handle : h # NULL
  BY DEF Alone, JobAt, HoldOf, Settled, ForDefault, Probed, RightName, Handle, NULL

(* The default converter, if there is one, is closed. *)
LEMMA DefaultGone ==
  ASSUME OwnerInv, NEW t \in User, Alone(t), State' \in Heaps,
         cnv' = IF default = NULL THEN cnv ELSE [cnv EXCEPT ![default] = NoConverter],
         default' = NULL, stale' = FALSE, registered' \in BOOLEAN, UNCHANGED <<job, mine>>,
         NEW n \in Names \cup {"null"}, defaultName' = n, n = "null" \/ registered',
         defaultAlg' \in Names \cup {"null"}, n # "null" => defaultAlg' = AlgorithmicTypeFromName(n)
  PROVE  OwnerInv'
  <1>1. cnv' \in [Handle -> Converter] /\ \A h \in Handle : cnv'[h] = IF h = default THEN NoConverter ELSE cnv[h]
     <2>1. NoConverter \in Converter
        BY DEF NoConverter, Converter
     <2> QED BY <2>1, AllIdle DEF OwnerInv, ControlInv
  <1>2. ControlInv'
     BY <1>1 DEF OwnerInv, ControlInv
  <1>3. OneOwner'
     <2>1. ASSUME NEW h \in Handle PROVE OwnedOnce(h)'
        <3>1. OwnedOnce(h)
           BY OwnedNow DEF OwnerInv
        <3>2. h # NULL /\ \A u \in User : HoldOf(job[u]) = NULL
           BY AllIdle
        <3>3. CASE default = h
           <4>1. \A u \in User : h \notin mine[u]
              BY <3>1, <3>3 DEF OwnedOnce
           <4>2. ~Owned(h)'
              BY <3>2, <4>1 DEF Owned
           <4> QED BY <1>1, <3>2, <3>3, <4>1, <4>2 DEF OwnedOnce
        <3>4. CASE default # h
           <4>1. Owned(h)' <=> Owned(h)
              BY <3>2, <3>4 DEF Owned
           <4> QED BY <1>1, <3>1, <3>2, <3>4, <4>1 DEF OwnedOnce
        <3> QED BY <3>3, <3>4
     <2>2. \A h \in Handle : OwnedOnce(h)'
        BY <2>1
     <2> QED BY <2>2 DEF OneOwner, OwnedOnce
  <1>4. NameInv'
     <2>1. \A u \in User : RightName(job[u])'
        BY AllIdle DEF RightName, ForDefault, Probed
     <2> QED BY <2>1 DEF NameInv, AlgorithmicTypeFromName
  <1>5. NameRegistered'
     BY AllIdle DEF NameRegistered, Settled, ForDefault, Probed
  <1> QED BY <1>2, <1>3, <1>4, <1>5 DEF OwnerInv

LEMMA SetNameOK == ASSUME OwnerInv, NEW t \in User, NEW n \in Names, SetDefaultName(t, n) PROVE OwnerInv'
  <1>1. /\ Alone(t) /\ Becomes(CloseNow(State, default)) /\ default' = NULL /\ stale' = FALSE
        /\ cnv' = IF default = NULL THEN cnv ELSE [cnv EXCEPT ![default] = NoConverter]
        /\ UNCHANGED <<job, mine>> /\ registered' = TRUE
        /\ defaultName' = n /\ defaultAlg' = AlgorithmicTypeFromName(n)
     BY DEF SetDefaultName
  <1>2. State' \in Heaps
     <2>1. CloseNow(State, default) \in Heaps
        BY CloseNowIs DEF OwnerInv, ControlInv, Converter
     <2>2. State' = CloseNow(State, default)
        BY <1>1, <2>1 DEF Becomes, State, Heaps
     <2> QED BY <2>1, <2>2
  <1>3. AlgorithmicTypeFromName(n) \in Names \cup {"null"}
     BY DEF AlgorithmicTypeFromName
  <1> QED BY <1>1, <1>2, <1>3, DefaultGone

LEMMA CleanupOK == ASSUME OwnerInv, NEW t \in User, Cleanup(t) PROVE OwnerInv'
  <1>1. /\ Alone(t) /\ default' = NULL /\ stale' = FALSE
        /\ cnv' = IF default = NULL THEN cnv ELSE [cnv EXCEPT ![default] = NoConverter]
        /\ UNCHANGED <<job, mine>> /\ registered' = FALSE
        /\ defaultName' = "null" /\ defaultAlg' = "null"
     BY DEF Cleanup
  <1>2. PICK q \in Orders : LET s == Flushed(CloseNow(State, default), q)
                            IN  Becomes([s EXCEPT !.tableOpen = \E n \in Data : s.table[n] # NULL])
     BY DEF Cleanup
  <1>3. State' \in Heaps
     <2>1. CloseNow(State, default) \in Heaps
        BY CloseNowIs DEF OwnerInv, ControlInv, Converter
     <2>2. q \in Seq(Data)
        BY DataAssumption, FS_CardinalityType DEF Orders
     <2> DEFINE s == Flushed(CloseNow(State, default), q)
     <2>3. s \in Heaps
        BY <2>1, <2>2, FlushedIs
     <2>4. data' = s.data /\ table' = s.table /\ tableOpen' \in BOOLEAN
        <3>1. Becomes([s EXCEPT !.tableOpen = \E n \in Data : s.table[n] # NULL])
           BY <1>2
        <3> HIDE DEF s
        <3> QED BY <2>3, <3>1 DEF Becomes, Heaps
     <2> HIDE DEF s
     <2> QED BY <2>3, <2>4 DEF State, Heaps
  <1> QED BY <1>1, <1>3, DefaultGone

LEMMA SetNullOK == ASSUME OwnerInv, NEW t \in User, SetDefaultNameNull(t) PROVE OwnerInv'
  <1>1. /\ Alone(t) /\ defaultName' = "null" /\ stale' = (stale \/ default # NULL)
        /\ UNCHANGED <<cacheVars, defaultAlg, cnv, default, job, mine>>
     BY DEF SetDefaultNameNull
  <1>2. ControlInv'
     <2>1. stale' \in BOOLEAN
        BY <1>1 DEF OwnerInv, ControlInv
     <2> QED BY <1>1, <2>1 DEF OwnerInv, ControlInv, State, cacheVars
  <1>3. OneOwner'
     BY <1>1 DEF OwnerInv, OneOwner, OwnedOnce, Owned
  <1>4. NameInv'
     <2>1. ~stale' => default = NULL
        BY <1>1 DEF OwnerInv, ControlInv
     <2>2. \A u \in User : RightName(job[u])'
        BY <1>1, AllIdle DEF RightName, ForDefault, Probed
     <2> QED BY <1>1, <2>1, <2>2 DEF NameInv
  <1>5. NameRegistered'
     BY <1>1 DEF OwnerInv, NameRegistered, cacheVars
  <1> QED BY <1>2, <1>3, <1>4, <1>5 DEF OwnerInv

-------------------------------------------------------------------------------
LEMMA OwnerInit == ConverterInit => OwnerInv
  <1> SUFFICES ASSUME ConverterInit PROVE OwnerInv
     OBVIOUS
  <1>1. State \in Heaps
     <2>1. data \in [Copy -> Datum]
        BY NoDataType DEF ConverterInit
     <2> QED BY <2>1 DEF ConverterInit, State, Heaps
  <1>2. \A t \in User : job[t] = [pc |-> "idle"] /\ mine[t] = {} 
     BY DEF ConverterInit, NoJob
  <1>3. ControlInv
     <2>1. NoConverter \in Converter /\ [pc |-> "idle"] \in Jobs
        BY NewJobs DEF NoConverter, Converter
     <2> QED BY <1>1, <2>1 DEF ConverterInit, ControlInv, NoJob
  <1>4. OneOwner
     BY <1>2 DEF ConverterInit, OneOwner, OwnedOnce, Owned, HoldOf, Handle, NULL
  <1>5. NameInv
     BY <1>2 DEF ConverterInit, NameInv, RightName, ForDefault, Probed
  <1>6. NameRegistered
     BY <1>2 DEF ConverterInit, NameRegistered, Settled, ForDefault, Probed
  <1> QED BY <1>3, <1>4, <1>5, <1>6 DEF OwnerInv

LEMMA OwnerInductive == OwnerInv /\ [ConverterNext]_converterVars => OwnerInv'
  <1> SUFFICES ASSUME OwnerInv, [ConverterNext]_converterVars PROVE OwnerInv'
     OBVIOUS
  <1>1. CASE UNCHANGED converterVars
     BY <1>1 DEF converterVars, cacheVars, nameVars, OwnerInv, ControlInv, State, OneOwner, OwnedOnce, Owned,
                 NameInv, RightName, AlgorithmicTypeFromName, NameRegistered
  <1>2. ASSUME NEW t \in User, ConverterStep(t) PROVE OwnerInv'
     BY <1>2, LoadOK, OpenedOK, UnloadOK, ClosedOK, TakeOK, OpenDefaultOK, OpenNamedOK, ProbeOK,
        GoOnOK, PutBackOK, FlushTableOK DEF ConverterStep
  <1>3. ASSUME NEW t \in User, ConverterCall(t) PROVE OwnerInv'
     BY <1>3, OpenOK, CloseOK, CloneOK, GoOnOK, SetNameOK, SetNullOK, CleanupOK DEF ConverterCall
  <1> QED BY <1>1, <1>2, <1>3 DEF ConverterNext

LEMMA OwnerAlways == ConverterSpec => []OwnerInv
  BY OwnerInit, OwnerInductive, PTL DEF ConverterSpec

(* u_getDefaultConverter lends the default converter to one user at a time,  *)
(* and to a later user that of the default name (ustr_cnv.cpp).              *)
THEOREM DefaultInvAlways == ConverterSpec => []DefaultInv
  <1>1. OwnerInv => DefaultInv
     <2> SUFFICES ASSUME OwnerInv PROVE DefaultInv
        OBVIOUS
     <2>1. DefaultMatchesName
        BY DEF OwnerInv, NameInv, DefaultMatchesName
     <2>2. ASSUME NEW h \in Handle
           PROVE  Cardinality(Users(h)) + Cardinality({t \in User : h \in mine[t]})
                    + (IF default = h THEN 1 ELSE 0) = (IF cnv[h] = NoConverter THEN 0 ELSE 1)
        <3> DEFINE Clients == {t \in User : h \in mine[t]}
        <3>1. OwnedOnce(h) /\ h # NULL
           BY OwnedNow DEF OwnerInv, Handle, NULL
        <3>2. \A t \in User : t \in Users(h) <=> HoldOf(job[t]) = h
           BY <3>1 DEF Users, HoldOf
        <3>3. Users(h) \subseteq User
           BY DEF Users
        <3>4. CASE \E t \in User : HoldOf(job[t]) = h
           <4>1. PICK t \in User : HoldOf(job[t]) = h
              BY <3>4
           <4>2. Users(h) = {t} /\ Clients = {} /\ default # h /\ cnv[h] # NoConverter
              BY <3>1, <3>2, <3>3, <4>1 DEF OwnedOnce, Owned
           <4>3. Cardinality(Users(h)) = 1 /\ Cardinality(Clients) = 0
              BY <4>2, FS_Singleton, FS_EmptySet
           <4> QED BY <4>2, <4>3
        <3>5. CASE \E t \in User : h \in mine[t]
           <4>1. PICK t \in User : h \in mine[t]
              BY <3>5
           <4>2. Clients = {t} /\ Users(h) = {} /\ default # h /\ cnv[h] # NoConverter
              BY <3>1, <3>2, <3>3, <4>1 DEF OwnedOnce, Owned
           <4>3. Cardinality(Users(h)) = 0 /\ Cardinality(Clients) = 1
              BY <4>2, FS_Singleton, FS_EmptySet
           <4> QED BY <4>2, <4>3
        <3>6. CASE \A t \in User : HoldOf(job[t]) # h /\ h \notin mine[t]
           <4>1. Users(h) = {} /\ Clients = {} /\ (default = h <=> cnv[h] # NoConverter)
              BY <3>1, <3>2, <3>3, <3>6 DEF OwnedOnce, Owned
           <4>2. Cardinality(Users(h)) = 0 /\ Cardinality(Clients) = 0
              BY <4>1, FS_EmptySet
           <4> QED BY <4>1, <4>2
        <3> QED BY <3>4, <3>5, <3>6
     <2> QED BY <2>1, <2>2 DEF DefaultInv, DefaultExclusive
  <1> QED BY <1>1, OwnerAlways, PTL

-------------------------------------------------------------------------------
(* Data with their counts: need is the number of references that converters  *)
(* have to each copy.                                                        *)

On(s, c)    == s.data[c].refs >= 0
Built(s, c) == {d \in Copy : On(s, d) /\ s.data[d].base = c}
Kept(s, c)  == On(s, c) /\ s.data[c].refs = 0 => s.data[c].cached = TRUE

CopyRight(s, need, c) ==
  IF On(s, c)
  THEN /\ s.data[c].name \in Data
       /\ s.data[c].refs = need[c] + Cardinality(Built(s, c))
       /\ s.data[c].base # NULL => s.data[c].name \in Ext /\ s.data[s.data[c].base].name \in Plain
       /\ s.data[c].cached = TRUE <=> s.table[s.data[c].name] = c
  ELSE s.data[c] = NoData /\ need[c] = 0 /\ Built(s, c) = {}

TableRight(s) ==
  \A n \in Data : s.table[n] # NULL => On(s, s.table[n]) /\ s.data[s.table[n]].name = n /\ s.tableOpen = TRUE

Exact(s, need) == s \in Heaps /\ need \in [Copy -> Nat] /\ TableRight(s) /\ \A c \in Copy : CopyRight(s, need, c)
Good(s, need)  == Exact(s, need) /\ \A c \in Copy : Kept(s, c)

LEMMA BuiltFinite == ASSUME NEW s, NEW c PROVE IsFiniteSet(Built(s, c)) /\ Cardinality(Built(s, c)) \in Nat
  <1>1. IsFiniteSet(Copy)
     BY BoundsAssumption, FS_Interval DEF Copy
  <1>2. Built(s, c) \subseteq Copy
     BY DEF Built
  <1> QED BY <1>1, <1>2, FS_Subset, FS_CardinalityType

LEMMA HeapFields ==
  ASSUME NEW s \in Heaps, NEW c \in Copy
  PROVE  /\ s.data[c].refs \in Int /\ s.data[c].base \in Copy \cup {NULL} /\ s.data[c].cached \in BOOLEAN
         /\ s.data[c].name \in Data \cup {"none"} /\ 0 \notin Copy /\ NULL \notin Copy /\ s.tableOpen \in BOOLEAN
         /\ \A n \in Data : s.table[n] \in Copy \cup {NULL}
  <1>1. s.data[c] \in Datum /\ s.table \in [Data -> Copy \cup {NULL}] /\ s.tableOpen \in BOOLEAN
     BY DEF Heaps
  <1>2. 0 \notin Copy /\ NULL \notin Copy
     BY DEF Copy, NULL
  <1>3. /\ s.data[c].refs \in Int /\ s.data[c].base \in Copy \cup {NULL} /\ s.data[c].cached \in BOOLEAN
        /\ s.data[c].name \in Data \cup {"none"}
     BY <1>1 DEF Datum
  <1> QED BY <1>1, <1>2, <1>3

LEMMA TableField == ASSUME NEW s \in Heaps, NEW n \in Data PROVE s.table[n] \in Copy \cup {NULL}
  BY DEF Heaps

LEMMA FreeFrame ==
  ASSUME NEW s \in Heaps, NEW c \in Copy
  PROVE  Free(s, c).data[c] = NoData /\ \A d \in Copy \ {c} : Free(s, c).data[d] = s.data[d]
  <1>1. Free(s, c).data = [s.data EXCEPT ![c] = NoData]
     BY FreeIs
  <1>2. DOMAIN s.data = Copy
     BY DEF Heaps
  <1> QED BY <1>1, <1>2

(* One more or one less of the references to c. *)
LEMMA CountExact ==
  ASSUME NEW s, NEW need, Exact(s, need), NEW c \in Copy, On(s, c), NEW k \in Int, need[c] + k >= 0
  PROVE  Exact(Count(s, c, k), [need EXCEPT ![c] = @ + k])
  <1> DEFINE r == Count(s, c, k)
             m == [need EXCEPT ![c] = @ + k]
  <1>1. s \in Heaps /\ need \in [Copy -> Nat]
     BY DEF Exact
  <1>2. /\ r \in Heaps /\ \A d \in Copy \ {c} : r.data[d] = s.data[d]
        /\ r.data[c].refs = s.data[c].refs + k
        /\ r.data[c].name = s.data[c].name /\ r.data[c].cached = s.data[c].cached
        /\ r.data[c].base = s.data[c].base /\ r.table = s.table /\ r.tableOpen = s.tableOpen
     BY <1>1, CountIs
  <1>3. m \in [Copy -> Nat] /\ m[c] = need[c] + k /\ \A d \in Copy \ {c} : m[d] = need[d]
     BY <1>1
  <1>4. s.data[c].refs = need[c] + Cardinality(Built(s, c)) /\ Cardinality(Built(s, c)) \in Nat
     BY BuiltFinite DEF Exact, CopyRight
  <1> HIDE DEF r, m
  <1>5. \A d \in Copy : (On(r, d) <=> On(s, d)) /\ r.data[d].base = s.data[d].base /\ r.data[d].name = s.data[d].name
                                             /\ r.data[d].cached = s.data[d].cached
     BY <1>1, <1>2, <1>4 DEF On
  <1>6. \A d : Built(r, d) = Built(s, d)
     BY <1>5 DEF Built
  <1>7. TableRight(r)
     BY <1>1, <1>2, <1>5, HeapFields DEF Exact, TableRight
  <1>8. ASSUME NEW d \in Copy PROVE CopyRight(r, m, d)
     <2>1. CopyRight(s, need, d)
        BY DEF Exact
     <2>2. CASE d = c
        BY <1>2, <1>3, <1>4, <1>5, <1>6, <2>1, <2>2, HeapFields, <1>1 DEF CopyRight
     <2>3. CASE d # c
        BY <1>2, <1>3, <1>5, <1>6, <2>1, <2>3, HeapFields, <1>1 DEF CopyRight
     <2> QED BY <2>2, <2>3
  <1> QED BY <1>2, <1>3, <1>7, <1>8 DEF Exact, r, m

(* A copy that nobody refers to is freed; its base, if it has one, is then   *)
(* the caller's.                                                             *)
LEMMA FreeExact ==
  ASSUME NEW s, NEW need, Exact(s, need), NEW c \in Copy, On(s, c), s.data[c].refs = 0, s.data[c].cached = FALSE
  PROVE  /\ s.data[c].base = NULL => Exact(Free(s, c), need)
         /\ s.data[c].base # NULL =>
              /\ s.data[c].base \in Copy /\ s.data[c].base # c /\ On(s, s.data[c].base)
              /\ s.data[s.data[c].base].base = NULL
              /\ Exact(Free(s, c), [need EXCEPT ![s.data[c].base] = @ + 1])
  <1>0. PICK b : b = s.data[c].base
     OBVIOUS
  <1> DEFINE r == Free(s, c)
  <1>1. s \in Heaps /\ need \in [Copy -> Nat]
     BY DEF Exact
  <1>2. r \in Heaps /\ r.data = [s.data EXCEPT ![c] = NoData] /\ r.table = s.table /\ r.tableOpen = s.tableOpen
     BY <1>1, FreeIs
  <1>3. r.data[c] = NoData /\ (\A d \in Copy \ {c} : r.data[d] = s.data[d]) /\ ~On(r, c)
     BY <1>1, <1>2 DEF Heaps, NoData, On
  <1> HIDE DEF r
  <1>4. need[c] = 0 /\ Built(s, c) = {} /\ s.table[s.data[c].name] # c /\ s.data[c].name \in Data
     <2>1. CopyRight(s, need, c)
        BY DEF Exact
     <2>2. 0 = need[c] + Cardinality(Built(s, c)) /\ s.table[s.data[c].name] # c /\ s.data[c].name \in Data
        BY <2>1 DEF CopyRight
     <2>3. need[c] = 0 /\ Cardinality(Built(s, c)) = 0
        BY <1>1, <2>2, BuiltFinite
     <2> QED BY <2>2, <2>3, BuiltFinite, FS_EmptySet
  <1>5. \A d : Built(r, d) = Built(s, d) \ {c}
     BY <1>3 DEF Built, On
  <1>6. TableRight(r)
     BY <1>1, <1>2, <1>3, <1>4, HeapFields DEF Exact, TableRight, On
  <1>7. ASSUME NEW d \in Copy \ {c}, On(s, d), s.data[d].base # NULL PROVE r.data[s.data[d].base].name = s.data[s.data[d].base].name
     <2>1. s.data[d].base \in Copy /\ s.data[d].base # c
        BY <1>1, <1>4, <1>7, HeapFields DEF Built
     <2> QED BY <1>3, <2>1
  <1>8. CASE b = NULL
     <2>1. ASSUME NEW d \in Copy PROVE CopyRight(r, need, d)
        <3>1. CopyRight(s, need, d)
           BY DEF Exact
        <3>2. CASE d = c
           BY <1>3, <1>4, <1>5, <3>2 DEF CopyRight
        <3>3. CASE d # c
           <4>1. Built(r, d) = Built(s, d)
              <5>1. d # NULL
                 BY HeapFields, <1>1
              <5>2. c \notin Built(s, d)
                 BY <1>0, <1>8, <5>1 DEF Built
              <5> HIDE DEF Built
              <5> QED BY <1>5, <5>2
           <4> QED BY <1>2, <1>3, <1>7, <3>1, <3>3, <4>1 DEF CopyRight, On
        <3> QED BY <3>2, <3>3
     <2> QED BY <1>0, <1>1, <1>2, <1>6, <1>8, <2>1 DEF Exact, r
  <1>9. CASE b # NULL
     <2>1. b \in Copy /\ s.data[c].name \in Ext /\ s.data[b].name \in Plain
        BY <1>0, <1>1, <1>9, HeapFields DEF Exact, CopyRight
     <2>2. b # c /\ c \in Built(s, b) /\ On(s, b)
        BY <1>0, <2>1, DataAssumption DEF Exact, CopyRight, Built
     <2>3. s.data[b].base = NULL
        BY <2>1, <2>2, DataAssumption DEF Exact, CopyRight
     <2> DEFINE m == [need EXCEPT ![b] = @ + 1]
     <2>4. m \in [Copy -> Nat] /\ m[b] = need[b] + 1 /\ \A d \in Copy \ {b} : m[d] = need[d]
        BY <1>1, <2>1
     <2> HIDE DEF m
     <2>5. ASSUME NEW d \in Copy PROVE CopyRight(r, m, d)
        <3>1. CopyRight(s, need, d)
           BY DEF Exact
        <3>2. CASE d = c
           BY <1>3, <1>4, <1>5, <2>2, <2>4, <3>2 DEF CopyRight
        <3>3. CASE d = b
           <4>1. Cardinality(Built(r, d)) = Cardinality(Built(s, d)) - 1
              BY <1>5, <2>2, <3>3, BuiltFinite, FS_RemoveElement
           <4>2. r.data[d] = s.data[d] /\ On(r, d)
              BY <1>3, <2>2, <3>3 DEF On
           <4>3. s.data[d].refs = need[d] + Cardinality(Built(s, d)) /\ need[d] \in Nat /\ Cardinality(Built(s, d)) \in Nat
              BY <1>1, <2>2, <3>1, <3>3, BuiltFinite DEF CopyRight
           <4>4. s.data[d].refs = m[d] + Cardinality(Built(r, d))
              BY <2>4, <3>3, <4>1, <4>3
           <4> QED BY <1>2, <2>2, <2>3, <3>1, <3>3, <4>2, <4>4 DEF CopyRight
        <3>4. CASE d # c /\ d # b
           <4>1. Built(r, d) = Built(s, d)
              BY <1>0, <1>5, <3>4 DEF Built
           <4> QED BY <1>2, <1>3, <1>7, <2>4, <3>1, <3>4, <4>1 DEF CopyRight, On
        <3> QED BY <3>2, <3>3, <3>4
     <2>6. Exact(r, m)
        BY <1>2, <1>6, <2>4, <2>5 DEF Exact
     <2> QED BY <1>0, <1>9, <2>1, <2>2, <2>3, <2>6 DEF r, m
  <1> QED BY <1>0, <1>8, <1>9

(* ucnv_unload of data without a base. *)
LEMMA DropGood ==
  ASSUME NEW s, NEW need, Good(s, need), NEW c \in Copy, need[c] > 0, s.data[c].base = NULL
  PROVE  Good(Drop(s, c), [need EXCEPT ![c] = @ - 1])
  <1> DEFINE r == Count(s, c, -1)
  <1>1. s \in Heaps /\ need \in [Copy -> Nat] /\ -1 \in Int
     BY DEF Good, Exact
  <1>2. PICK m : m = [need EXCEPT ![c] = @ + (-1)]
     OBVIOUS
  <1>3. m = [need EXCEPT ![c] = @ - 1]
     BY <1>1, <1>2
  <1>4. On(s, c) /\ CopyRight(s, need, c)
     BY <1>1 DEF Good, Exact, CopyRight
  <1>5. Exact(r, m)
     <2>1. Exact(s, need) /\ need[c] + (-1) >= 0
        BY <1>1 DEF Good
     <2> QED BY <1>1, <1>2, <1>4, <2>1, CountExact
  <1>6. r \in Heaps /\ r.data[c].base = NULL /\ \A d \in Copy \ {c} : r.data[d] = s.data[d]
     BY <1>1, CountIs
  <1>7. Drop(s, c) = IF r.data[c].refs = 0 /\ ~r.data[c].cached THEN Free(r, c) ELSE r
     BY DEF Drop
  <1> HIDE DEF r
  <1>8. CASE r.data[c].refs = 0 /\ r.data[c].cached = FALSE
     <2>0. On(r, c)
        BY <1>8 DEF On
     <2>1. Exact(Free(r, c), m)
        BY <1>5, <1>6, <1>8, <2>0, FreeExact
     <2>2. Free(r, c).data[c] = NoData /\ \A d \in Copy \ {c} : Free(r, c).data[d] = r.data[d]
        BY <1>6, FreeFrame
     <2>3. ASSUME NEW d \in Copy PROVE Kept(Free(r, c), d)
        BY <1>6, <2>2 DEF Kept, On, NoData, Good
     <2> QED BY <1>3, <1>7, <1>8, <2>1, <2>3 DEF Good
  <1>9. CASE ~(r.data[c].refs = 0 /\ r.data[c].cached = FALSE)
     <2>1. r.data[c].cached \in BOOLEAN
        BY <1>6, HeapFields
     <2>2. ASSUME NEW d \in Copy PROVE Kept(r, d)
        BY <1>6, <1>9, <2>1 DEF Kept, On, Good
     <2> QED BY <1>3, <1>5, <1>7, <1>9, <2>1, <2>2 DEF Good
  <1> QED BY <1>8, <1>9

(* ucnv_deleteSharedConverterData of data that nobody refers to. *)
LEMMA DeleteGood ==
  ASSUME NEW s, NEW need, Exact(s, need), NEW c \in Copy, On(s, c), s.data[c].refs = 0, s.data[c].cached = FALSE,
         \A d \in Copy \ {c} : Kept(s, d)
  PROVE  Good(Delete(s, c), need)
  <1> DEFINE r == Free(s, c)
  <1>1. PICK b : b = s.data[c].base
     OBVIOUS
  <1>2. s \in Heaps /\ need \in [Copy -> Nat]
     BY DEF Exact
  <1>3. r.data[c] = NoData /\ \A d \in Copy \ {c} : r.data[d] = s.data[d]
     BY <1>2, FreeFrame
  <1>4. Delete(s, c) = IF b = NULL THEN r ELSE Drop(r, b)
     BY <1>1 DEF Delete
  <1>5. /\ b = NULL => Exact(r, need)
        /\ b # NULL => /\ b \in Copy /\ b # c /\ On(s, b) /\ s.data[b].base = NULL
                       /\ Exact(r, [need EXCEPT ![b] = @ + 1])
     BY <1>1, FreeExact
  <1> HIDE DEF r
  <1>6. \A d \in Copy : Kept(r, d)
     BY <1>3 DEF Kept, On, NoData
  <1>7. CASE b = NULL
     BY <1>4, <1>5, <1>6, <1>7 DEF Good
  <1>8. CASE b # NULL
     <2>1. PICK m : m = [need EXCEPT ![b] = @ + 1]
        OBVIOUS
     <2>2. m[b] = need[b] + 1 /\ m[b] > 0 /\ [m EXCEPT ![b] = @ - 1] = need
        <3>1. m \in [Copy -> Nat] /\ m[b] = need[b] + 1 /\ need[b] \in Nat
           BY <1>2, <1>5, <1>8, <2>1
        <3>2. [m EXCEPT ![b] = @ - 1] = need
           <4>1. \A d \in Copy : [m EXCEPT ![b] = @ - 1][d] = need[d]
              BY <1>2, <1>5, <1>8, <2>1, <3>1
           <4> QED BY <1>2, <3>1, <4>1
        <3> QED BY <3>1, <3>2
     <2>3. Good(r, m) /\ r.data[b].base = NULL
        BY <1>3, <1>5, <1>6, <1>8, <2>1 DEF Good
     <2>4. Good(Drop(r, b), [m EXCEPT ![b] = @ - 1])
        BY <1>5, <1>8, <2>2, <2>3, DropGood
     <2> QED BY <1>4, <1>8, <2>2, <2>4
  <1> QED BY <1>7, <1>8

(* ucnv_unload of data that somebody has. *)
LEMMA UnloadGood ==
  ASSUME NEW s, NEW need, Good(s, need), NEW c \in Copy, need[c] > 0
  PROVE  Good(Unload(s, c), [need EXCEPT ![c] = @ - 1])
  <1> DEFINE r == Count(s, c, -1)
  <1>1. s \in Heaps /\ need \in [Copy -> Nat] /\ -1 \in Int
     BY DEF Good, Exact
  <1>2. PICK m : m = [need EXCEPT ![c] = @ + (-1)]
     OBVIOUS
  <1>3. m = [need EXCEPT ![c] = @ - 1]
     BY <1>1, <1>2
  <1>4. On(s, c) /\ CopyRight(s, need, c)
     BY <1>1 DEF Good, Exact, CopyRight
  <1>5. Exact(r, m)
     <2>1. Exact(s, need) /\ need[c] + (-1) >= 0
        BY <1>1 DEF Good
     <2> QED BY <1>1, <1>2, <1>4, <2>1, CountExact
  <1>6. r \in Heaps /\ \A d \in Copy \ {c} : r.data[d] = s.data[d]
     BY <1>1, CountIs
  <1>7. Unload(s, c) = IF r.data[c].refs = 0 /\ ~r.data[c].cached THEN Delete(r, c) ELSE r
     BY DEF Unload
  <1> HIDE DEF r
  <1>8. \A d \in Copy \ {c} : Kept(r, d)
     BY <1>6 DEF Kept, On, Good
  <1>9. r.data[c].cached \in BOOLEAN
     BY <1>6, HeapFields
  <1>10. CASE r.data[c].refs = 0 /\ r.data[c].cached = FALSE
     <2>0. On(r, c)
        BY <1>10 DEF On
     <2>1. Good(Delete(r, c), m)
        BY <1>5, <1>8, <1>10, <2>0, DeleteGood
     <2> QED BY <1>3, <1>7, <1>10, <2>1
  <1>11. CASE ~(r.data[c].refs = 0 /\ r.data[c].cached = FALSE)
     <2>1. Kept(r, c)
        BY <1>9, <1>11 DEF Kept
     <2> QED BY <1>3, <1>5, <1>7, <1>8, <1>9, <1>11, <2>1 DEF Good
  <1> QED BY <1>10, <1>11

-------------------------------------------------------------------------------
(* Loads: what they return is counted once more. *)

With(need, c) == IF c = NULL THEN need ELSE [need EXCEPT ![c] = @ + 1]

LEMMA WithIs ==
  ASSUME NEW need \in [Copy -> Nat], NEW c \in Copy \cup {NULL}
  PROVE  /\ With(need, c) \in [Copy -> Nat]
         /\ c # NULL => With(need, c)[c] = need[c] + 1
         /\ \A d \in Copy : d # c => With(need, c)[d] = need[d]
  BY DEF With

LEMMA TakeBack ==
  ASSUME NEW need \in [Copy -> Nat], NEW c \in Copy
  PROVE  With(need, c)[c] > 0 /\ [With(need, c) EXCEPT ![c] = @ - 1] = need
  <1>1. c # NULL
     BY DEF Copy, NULL
  <1>2. With(need, c) \in [Copy -> Nat] /\ With(need, c)[c] = need[c] + 1 /\ need[c] \in Nat
        /\ \A d \in Copy : d # c => With(need, c)[d] = need[d]
     BY <1>1, WithIs
  <1>3. PICK k : k = With(need, c)
     OBVIOUS
  <1>4. [k EXCEPT ![c] = @ - 1] \in [Copy -> Int] /\ \A d \in Copy : [k EXCEPT ![c] = @ - 1][d] = need[d]
     BY <1>2, <1>3
  <1>5. [k EXCEPT ![c] = @ - 1] = need
     BY <1>4
  <1> QED BY <1>2, <1>3, <1>5

(* One more reference to data that are there. *)
LEMMA AddGood ==
  ASSUME NEW s, NEW need, Good(s, need), NEW c \in Copy, On(s, c)
  PROVE  Good(Count(s, c, 1), With(need, c))
  <1>1. s \in Heaps /\ need \in [Copy -> Nat] /\ 1 \in Int /\ Exact(s, need) /\ c # NULL
     BY DEF Good, Exact, Copy, NULL
  <1>2. need[c] + 1 >= 0 /\ With(need, c) = [need EXCEPT ![c] = @ + 1]
     BY <1>1 DEF With
  <1>3. Exact(Count(s, c, 1), With(need, c))
     <2>1. PICK m : m = [need EXCEPT ![c] = @ + 1]
        OBVIOUS
     <2>2. Exact(Count(s, c, 1), m)
        BY <1>1, <1>2, <2>1, CountExact
     <2> QED BY <1>2, <2>1, <2>2
  <1>4. /\ \A d \in Copy \ {c} : Count(s, c, 1).data[d] = s.data[d]
        /\ Count(s, c, 1).data[c].refs = s.data[c].refs + 1
     BY <1>1, CountIs
  <1>5. s.data[c].refs \in Int /\ s.data[c].refs >= 0
     BY <1>1, HeapFields DEF On
  <1>6. ASSUME NEW d \in Copy PROVE Kept(Count(s, c, 1), d)
     BY <1>4, <1>5 DEF Good, Kept, On
  <1> QED BY <1>3, <1>6 DEF Good

(* New data, which take over the reference to their base. *)
LEMMA FromFileGood ==
  ASSUME NEW s, NEW need \in [Copy -> Nat], NEW n \in Data, NEW b \in Copy \cup {NULL}, NEW share \in BOOLEAN,
         Good(s, With(need, b)), CanRead(s),
         share = TRUE => s.table[n] = NULL,
         b # NULL => n \in Ext /\ s.data[b].name \in Plain,
         NEW r, r = FromFile(s, n, b, share)
  PROVE  r.copy \in Copy /\ Good(r.state, With(need, r.copy))
  <1> DEFINE c == r.copy
             u == r.state
             k == With(need, b)
             m == With(need, c)
  <1>1. s \in Heaps /\ Exact(s, k) /\ NULL \notin Copy
     BY DEF Good, Exact, NULL, Copy
  <1>0. ReadFrom(s, n, b, share, r)
     BY <1>1, FromFileIs
  <1>2. /\ c \in Copy /\ u \in Heaps
        /\ s.data[c].refs = -1
        /\ share = TRUE => u.tableOpen = TRUE
        /\ share = FALSE => u.tableOpen = s.tableOpen
     BY <1>0 DEF ReadFrom
  <1>3. s.data \in [Copy -> Datum] /\ s.table \in [Data -> Copy \cup {NULL}]
     BY <1>1 DEF Heaps
  <1>4. /\ u.data[c].name = n /\ u.data[c].refs = 1 /\ u.data[c].base = b
        /\ share = TRUE => u.data[c].cached = TRUE
        /\ share = FALSE => u.data[c].cached = FALSE
        /\ \A d \in Copy \ {c} : u.data[d] = s.data[d]
     BY <1>0 DEF ReadFrom
  <1>5. /\ \A x \in Data \ {n} : u.table[x] = s.table[x]
        /\ share = TRUE => u.table[n] = c
        /\ share = FALSE => u.table[n] = s.table[n]
     BY <1>0 DEF ReadFrom
  <1>6. /\ k \in [Copy -> Nat] /\ m \in [Copy -> Nat] /\ m[c] = need[c] + 1
        /\ b # NULL => k[b] = need[b] + 1
        /\ \A d \in Copy : (d # b => k[d] = need[d]) /\ (d # c => m[d] = need[d])
     BY <1>1, <1>2, WithIs
  <1>7. ~On(s, c) /\ k[c] = 0 /\ Built(s, c) = {}
     BY <1>1, <1>2 DEF Exact, CopyRight, On
  <1> HIDE DEF c, u, k, m
  <1>8. b # NULL => b \in Copy /\ On(s, b) /\ b # c
     <2>1. b # NULL => b \in Copy /\ k[b] # 0
        BY <1>6
     <2> QED BY <1>1, <1>7, <2>1 DEF Exact, CopyRight
  <1>9. On(u, c) /\ \A d \in Copy \ {c} : On(u, d) <=> On(s, d)
     BY <1>4 DEF On
  <1>10. need[c] = 0 /\ m[c] = 1
     BY <1>1, <1>2, <1>6, <1>7, <1>8
  <1>11. ASSUME NEW x \in Data, u.table[x] # NULL PROVE On(u, u.table[x]) /\ u.data[u.table[x]].name = x /\ u.tableOpen = TRUE
     <2>1. s.table[x] # NULL => s.table[x] \in Copy /\ On(s, s.table[x]) /\ s.data[s.table[x]].name = x /\ s.tableOpen = TRUE
        BY <1>1, <1>3 DEF Exact, TableRight
     <2>2. s.table[x] # NULL => s.table[x] # c
        BY <1>7, <2>1
     <2>3. CASE share = TRUE
        BY <1>2, <1>4, <1>5, <1>9, <1>11, <2>1, <2>2, <2>3
     <2>4. CASE share = FALSE
        BY <1>2, <1>4, <1>5, <1>9, <1>11, <2>1, <2>2, <2>4
     <2> QED BY <2>3, <2>4
  <1>12. ASSUME NEW d \in Copy PROVE CopyRight(u, m, d)
     <2>1. CopyRight(s, k, d)
        BY <1>1 DEF Exact
     <2>2. CASE d = c
        <3>1. Built(u, c) = {}
           <4>1. \A e \in Copy : e \notin Built(s, c)
              BY <1>7
           <4> QED BY <1>4, <1>8, <1>9, <1>1, <1>2, <4>1 DEF Built
        <3>2. Cardinality(Built(u, c)) = 0
           BY <3>1, FS_EmptySet
        <3>3. u.table[n] = c <=> share = TRUE
           <4>1. s.table[n] # c
              BY <1>1, <1>2, <1>7 DEF Exact, TableRight
           <4> QED BY <1>5, <4>1
        <3>4. b # NULL => b \in Copy /\ u.data[b] = s.data[b]
           BY <1>4, <1>8
        <3> QED BY <1>4, <1>9, <1>10, <2>2, <3>2, <3>3, <3>4 DEF CopyRight
     <2>3. CASE d # c
        <3>1. u.data[d] = s.data[d] /\ (On(u, d) <=> On(s, d))
           BY <1>4, <1>9, <2>3
        <3>2. On(s, d) => (s.data[d].cached = TRUE <=> u.table[s.data[d].name] = d)
           <4>1. On(s, d) => s.data[d].name \in Data /\ (s.data[d].cached = TRUE <=> s.table[s.data[d].name] = d)
              BY <2>1 DEF CopyRight
           <4>2. NULL # d
              BY <1>1
           <4> QED BY <1>5, <2>3, <4>1, <4>2
        <3>3. On(s, d) /\ s.data[d].base # NULL => u.data[s.data[d].base].name = s.data[s.data[d].base].name
           <4>1. s.data[d].base \in Copy \cup {NULL}
              BY <1>1, HeapFields
           <4>2. On(s, d) => s.data[d].base # c
              BY <1>7 DEF Built
           <4> QED BY <1>4, <4>1, <4>2
        <3>4. CASE d # b
           <4>1. Built(u, d) = Built(s, d)
              <5>1. \A e \in Copy \ {c} : e \in Built(u, d) <=> e \in Built(s, d)
                 BY <1>4, <1>9 DEF Built
              <5>2. c \notin Built(u, d) /\ c \notin Built(s, d)
                 BY <1>4, <1>7, <3>4 DEF Built
              <5>3. Built(u, d) \subseteq Copy /\ Built(s, d) \subseteq Copy
                 BY DEF Built
              <5> QED BY <5>1, <5>2, <5>3
           <4>2. m[d] = k[d]
              BY <1>6, <2>3, <3>4
           <4> QED BY <2>1, <3>1, <3>2, <3>3, <4>1, <4>2 DEF CopyRight
        <3>5. CASE d = b
           <4>1. Built(u, d) = Built(s, d) \cup {c} /\ c \notin Built(s, d)
              <5>1. \A e \in Copy \ {c} : e \in Built(u, d) <=> e \in Built(s, d)
                 BY <1>4, <1>9 DEF Built
              <5>2. c \in Built(u, d) /\ c \notin Built(s, d)
                 BY <1>2, <1>4, <1>7, <1>9, <3>5 DEF Built, c
              <5>3. Built(u, d) \subseteq Copy /\ Built(s, d) \subseteq Copy
                 BY DEF Built
              <5> QED BY <5>1, <5>2, <5>3
           <4>2. Cardinality(Built(u, d)) = Cardinality(Built(s, d)) + 1
              BY <4>1, BuiltFinite, FS_AddElement
           <4>3. On(s, d) /\ k[d] = m[d] + 1 /\ m[d] \in Nat
              BY <1>1, <1>6, <1>8, <2>3, <3>5
           <4>4. Cardinality(Built(s, d)) \in Nat /\ s.data[d].refs = k[d] + Cardinality(Built(s, d))
              BY <2>1, <4>3, BuiltFinite DEF CopyRight
           <4>5. s.data[d].refs = m[d] + Cardinality(Built(u, d))
              BY <4>2, <4>3, <4>4
           <4> QED BY <2>1, <3>1, <3>2, <3>3, <4>3, <4>5 DEF CopyRight
        <3> QED BY <3>4, <3>5
     <2> QED BY <2>2, <2>3
  <1>13. ASSUME NEW d \in Copy PROVE Kept(u, d)
     BY <1>4, <1>9 DEF Good, Kept, On
  <1> QED BY <1>2, <1>6, <1>11, <1>12, <1>13 DEF Good, Exact, TableRight, u, c, m

LEMMA LoadPlainGood ==
  ASSUME NEW s, NEW need, Good(s, need), NEW n \in Plain, NEW pkg \in BOOLEAN, NEW test \in BOOLEAN,
         NEW r \in LoadPlain(s, n, pkg, test)
  PROVE  /\ r.copy \in Copy \cup {NULL} /\ Good(r.state, With(need, r.copy))
         /\ r.copy # NULL => r.state.data[r.copy].name = n
         /\ \A m \in Data \ {n} : r.state.table[m] = s.table[m]
  <1>1. s \in Heaps /\ need \in [Copy -> Nat] /\ NULL \notin Copy /\ n \in Data /\ 1 \in Int /\ Exact(s, need)
     BY DEF Good, Exact, NULL, Copy, Data
  <1>2. CASE s.table[n] \in Copy /\ r = Got(Count(s, s.table[n], 1), s.table[n])
     <2>1. r.copy = s.table[n] /\ r.state = Count(s, s.table[n], 1)
        BY <1>2 DEF Got
     <2>2. On(s, s.table[n]) /\ s.data[s.table[n]].name = n
        BY <1>1, <1>2 DEF Exact, TableRight
     <2>3. r.state.table = s.table /\ r.state.data[r.copy].name = n
        BY <1>1, <1>2, <2>1, <2>2, CountIs, SMTT(30)
     <2> QED BY <1>2, <2>1, <2>2, <2>3, AddGood
  <1>3. CASE r = Got(s, NULL)
     BY <1>1, <1>3 DEF Got, With
  <1>4. ASSUME CanRead(s), NEW share \in BOOLEAN, share = TRUE => s.table[n] = NULL, r = FromFile(s, n, NULL, share)
        PROVE  /\ r.copy \in Copy /\ Good(r.state, With(need, r.copy))
               /\ r.state.data[r.copy].name = n
               /\ \A m \in Data \ {n} : r.state.table[m] = s.table[m]
     <2>1. Good(s, With(need, NULL)) /\ NULL \in Copy \cup {NULL}
        BY DEF With
     <2>2. r.copy \in Copy /\ Good(r.state, With(need, r.copy))
        BY <1>1, <1>4, <2>1, FromFileGood
     <2>3. r.state.data[r.copy].name = n /\ \A m \in Data \ {n} : r.state.table[m] = s.table[m]
        <3>1. ReadFrom(s, n, NULL, share, r)
           BY <1>1, <1>4, <2>1, FromFileIs
        <3> QED BY <3>1 DEF ReadFrom
     <2> QED BY <2>2, <2>3
  <1>5. \/ s.table[n] \in Copy /\ r = Got(Count(s, s.table[n], 1), s.table[n])
        \/ r = Got(s, NULL)
        \/ CanRead(s) /\ \E share \in BOOLEAN : /\ share = TRUE => s.table[n] = NULL
                                             /\ r = FromFile(s, n, NULL, share)
     BY <1>1, LoadPlainCases
  <1> QED BY <1>2, <1>3, <1>4, <1>5

LEMMA LoadGood ==
  ASSUME NEW s, NEW need, Good(s, need), NEW n \in Data, NEW pkg \in BOOLEAN, NEW test \in BOOLEAN,
         NEW r \in Load(s, n, pkg, test)
  PROVE  r.copy \in Copy \cup {NULL} /\ Good(r.state, With(need, r.copy))
  <1>1. s \in Heaps /\ need \in [Copy -> Nat] /\ NULL \notin Copy /\ Exact(s, need)
     BY DEF Good, Exact, NULL, Copy
  <1>2. CASE n \in Plain
     BY <1>2, LoadPlainGood DEF Load
  <1>3. CASE n \in Ext
     <2>1. CASE s.table[n] \in Copy /\ r = Got(Count(s, s.table[n], 1), s.table[n])
        <3>1. r.copy = s.table[n] /\ r.state = Count(s, s.table[n], 1)
           BY <2>1 DEF Got
        <3>2. On(s, s.table[n])
           BY <1>1, <2>1 DEF Exact, TableRight
        <3> QED BY <2>1, <3>1, <3>2, AddGood
     <2>2. CASE r = Got(s, NULL)
        BY <1>1, <2>2 DEF Got, With
     <2>3. ASSUME NEW b \in LoadPlain(s, Base[n], pkg, test), FromBase(s, n, r, b)
           PROVE  r.copy \in Copy \cup {NULL} /\ Good(r.state, With(need, r.copy))
        <3>1. Base[n] \in Plain /\ Base[n] # n
           BY <1>3, DataAssumption
        <3>2. /\ b.copy \in Copy \cup {NULL} /\ Good(b.state, With(need, b.copy))
              /\ b.copy # NULL => b.state.data[b.copy].name \in Plain
              /\ b.state.table[n] = s.table[n]
           BY <3>1, LoadPlainGood
        <3>3. b.copy # NULL => Good(Drop(b.state, b.copy), need)
           <4>1. SUFFICES ASSUME b.copy \in Copy PROVE Good(Drop(b.state, b.copy), need)
              BY <3>2
           <4>2. PICK k : k = With(need, b.copy)
              OBVIOUS
           <4>3. Good(b.state, k) /\ k[b.copy] > 0 /\ [k EXCEPT ![b.copy] = @ - 1] = need
              BY <1>1, <3>2, <4>1, <4>2, TakeBack
           <4>4. b.state.data[b.copy].base = NULL
              <5>1. k \in [Copy -> Nat] /\ Exact(b.state, k)
                 BY <4>3 DEF Good, Exact
              <5>2. CopyRight(b.state, k, b.copy) /\ k[b.copy] # 0
                 BY <4>1, <4>3, <5>1 DEF Exact
              <5> QED BY <1>1, <3>2, <4>1, <5>2, DataAssumption DEF CopyRight
           <4> QED BY <4>1, <4>3, <4>4, DropGood
        <3>4. CASE b.copy = NULL /\ r = Got(b.state, NULL)
           BY <3>2, <3>4 DEF Got, With
        <3>5. CASE b.copy # NULL /\ r = Got(Drop(b.state, b.copy), NULL)
           BY <3>3, <3>5 DEF Got, With
        <3>6. CASE /\ b.copy # NULL /\ CanRead(Drop(b.state, b.copy))
                   /\ r = FromFile(Drop(b.state, b.copy), n, NULL, FALSE)
           <4>1. Good(Drop(b.state, b.copy), With(need, NULL)) /\ NULL \in Copy \cup {NULL} /\ FALSE \in BOOLEAN
              BY <3>3, <3>6 DEF With
           <4> QED BY <1>1, <3>6, <4>1, FromFileGood
        <3>7. ASSUME b.copy # NULL, CanRead(b.state), NEW share \in BOOLEAN, share = TRUE => s.table[n] = NULL,
                     r = FromFile(b.state, n, b.copy, share)
              PROVE  r.copy \in Copy \cup {NULL} /\ Good(r.state, With(need, r.copy))
           BY <1>1, <1>3, <3>2, <3>7, FromFileGood
        <3> QED BY <2>3, <3>4, <3>5, <3>6, <3>7 DEF FromBase
     <2>4. \/ s.table[n] \in Copy /\ r = Got(Count(s, s.table[n], 1), s.table[n])
           \/ r = Got(s, NULL)
           \/ \E b \in LoadPlain(s, Base[n], pkg, test) : FromBase(s, n, r, b)
        BY <1>1, <1>3, LoadCases
     <2> QED BY <2>1, <2>2, <2>3, <2>4
  <1> QED BY <1>2, <1>3 DEF Data

-------------------------------------------------------------------------------
(* Flushes.  A turn leaves what is in use, and data without a base stay      *)
(* unless the turn takes what is built on them: so after one turn nothing    *)
(* unused has a base, and after two nothing unused is left.                  *)

Stays(s, n) == s.table[n] # NULL => s.data[s.table[n]].refs # 0

LEMMA DropFrame ==
  ASSUME NEW s \in Heaps, NEW c \in Copy
  PROVE  \A d \in Copy \ {c} : Drop(s, c).data[d] = s.data[d]
  <1>1. PICK r : r = Count(s, c, -1)
     OBVIOUS
  <1>2. r \in Heaps /\ \A d \in Copy \ {c} : r.data[d] = s.data[d]
     BY <1>1, CountIs, -1 \in Int
  <1>3. Drop(s, c) = Free(r, c) \/ Drop(s, c) = r
     BY <1>1 DEF Drop
  <1>4. \A d \in Copy \ {c} : Free(r, c).data[d] = r.data[d]
     BY <1>2, FreeFrame
  <1> QED BY <1>2, <1>3, <1>4

LEMMA DeleteFrame ==
  ASSUME NEW s \in Heaps, NEW c \in Copy, NEW d \in Copy, d # c, d # s.data[c].base
  PROVE  Delete(s, c).data[d] = s.data[d]
  <1>1. PICK r : r = Free(s, c)
     OBVIOUS
  <1>2. r \in Heaps /\ r.data[d] = s.data[d]
     BY <1>1, FreeIs, FreeFrame
  <1>3. PICK b : b = s.data[c].base
     OBVIOUS
  <1>4. Delete(s, c) = IF b = NULL THEN r ELSE Drop(r, b)
     BY <1>1, <1>3 DEF Delete
  <1>5. b \in Copy \cup {NULL}
     BY <1>3, HeapFields
  <1>6. b # NULL => Drop(r, b).data[d] = r.data[d]
     BY <1>2, <1>3, <1>5, DropFrame
  <1> QED BY <1>2, <1>4, <1>6

(* What is taken out of the table is no longer marked as cached. *)
LEMMA UnlistedExact ==
  ASSUME NEW s, NEW need, Exact(s, need), NEW n \in Data, NEW c \in Copy, s.table[n] = c
  PROVE  Exact(Unlisted(s, n, c), need)
  <1>1. s \in Heaps /\ need \in [Copy -> Nat] /\ NULL \notin Copy
     BY DEF Exact, NULL, Copy
  <1>2. PICK r : r = Unlisted(s, n, c)
     OBVIOUS
  <1>3. /\ r \in Heaps /\ r.tableOpen = s.tableOpen
        /\ r.table[n] = NULL /\ \A m \in Data \ {n} : r.table[m] = s.table[m]
        /\ r.data[c].refs = s.data[c].refs /\ r.data[c].name = s.data[c].name
        /\ r.data[c].cached = FALSE /\ r.data[c].base = s.data[c].base
        /\ \A d \in Copy \ {c} : r.data[d] = s.data[d]
     <2>1. TakenOut(s, n, c, r)
        BY <1>1, <1>2, FlushFirst
     <2> QED BY <2>1 DEF TakenOut
  <1>4. On(s, c) /\ s.data[c].name = n
     BY <1>1 DEF Exact, TableRight
  <1>5. \A d \in Copy : /\ On(r, d) <=> On(s, d)
                        /\ r.data[d].base = s.data[d].base /\ r.data[d].name = s.data[d].name
                        /\ r.data[d].refs = s.data[d].refs
     BY <1>3 DEF On
  <1>6. \A d : Built(r, d) = Built(s, d)
     BY <1>5 DEF Built
  <1>7. TableRight(r)
     <2>1. ASSUME NEW m \in Data, r.table[m] # NULL
           PROVE  On(r, r.table[m]) /\ r.data[r.table[m]].name = m /\ r.tableOpen = TRUE
        <3>1. m # n /\ r.table[m] = s.table[m]
           BY <1>3, <2>1
        <3>2. s.table[m] \in Copy /\ On(s, s.table[m]) /\ s.data[s.table[m]].name = m /\ s.tableOpen = TRUE
           BY <1>1, <2>1, <3>1, HeapFields DEF Exact, TableRight
        <3> QED BY <1>3, <1>5, <3>1, <3>2
     <2> QED BY <2>1 DEF TableRight
  <1>8. ASSUME NEW d \in Copy PROVE CopyRight(r, need, d)
     <2>1. CopyRight(s, need, d)
        BY DEF Exact
     <2>2. s.data[d].base \in Copy \cup {NULL}
        BY <1>1, HeapFields
     <2>3. CASE ~On(s, d)
        <3>1. d # c
           BY <1>4, <2>3
        <3> QED BY <1>3, <1>5, <1>6, <2>1, <2>3, <3>1 DEF CopyRight
     <2>4. CASE On(s, d)
        <3>1. r.data[d].cached = TRUE <=> r.table[r.data[d].name] = d
           <4>1. s.data[d].name \in Data /\ (s.data[d].cached = TRUE <=> s.table[s.data[d].name] = d)
              BY <2>1, <2>4 DEF CopyRight
           <4>2. CASE d = c
              BY <1>1, <1>3, <1>4, <4>2
           <4>3. CASE d # c
              BY <1>1, <1>3, <4>1, <4>3
           <4> QED BY <4>2, <4>3
        <3> QED BY <1>5, <1>6, <2>1, <2>2, <2>4, <3>1 DEF CopyRight
     <2> QED BY <2>3, <2>4
  <1> QED BY <1>1, <1>2, <1>3, <1>7, <1>8 DEF Exact

LEMMA FlushOneGood ==
  ASSUME NEW s, NEW need, Good(s, need), NEW n \in Data
  PROVE  /\ Good(FlushOne(s, n), need)
         /\ Stays(FlushOne(s, n), n)
         /\ Stays(s, n) => FlushOne(s, n) = s
         /\ \A m \in Data : Stays(s, m) /\ (m \in Ext \/ n \in Plain) => Stays(FlushOne(s, n), m)
  <1>1. s \in Heaps /\ Exact(s, need) /\ NULL \notin Copy
     BY DEF Good, Exact, NULL, Copy
  <1>2. CASE Stays(s, n)
     <2>1. FlushOne(s, n) = s
        BY <1>2 DEF FlushOne, Stays
     <2> QED BY <1>2, <2>1
  <1>3. CASE ~Stays(s, n)
     <2>1. PICK c \in Copy : c = s.table[n]
        BY <1>1, <1>3, TableField DEF Stays
     <2>2. On(s, c) /\ s.data[c].name = n /\ s.data[c].refs = 0
        BY <1>1, <1>3, <2>1 DEF Exact, TableRight, Stays
     <2>3. PICK r : r = Unlisted(s, n, c)
        OBVIOUS
     <2>4. FlushOne(s, n) = Delete(r, c)
        BY <1>3, <2>1, <2>3 DEF FlushOne, Unlisted, Stays
     <2>5. /\ r \in Heaps
           /\ r.table[n] = NULL /\ \A m \in Data \ {n} : r.table[m] = s.table[m]
           /\ r.data[c].refs = s.data[c].refs
           /\ r.data[c].cached = FALSE /\ r.data[c].base = s.data[c].base
           /\ \A d \in Copy \ {c} : r.data[d] = s.data[d]
        <3>1. TakenOut(s, n, c, r)
           BY <1>1, <2>3, FlushFirst
        <3> QED BY <3>1 DEF TakenOut
     <2>6. Exact(r, need)
        BY <1>1, <2>1, <2>3, UnlistedExact
     <2>7. On(r, c) /\ \A d \in Copy \ {c} : Kept(r, d)
        BY <2>2, <2>5 DEF On, Kept, Good
     <2>8. Good(Delete(r, c), need)
        BY <2>2, <2>5, <2>6, <2>7, DeleteGood
     <2>9. Delete(r, c).table = r.table
        BY <2>5, DeleteIs
     <2>10. Stays(Delete(r, c), n)
        BY <2>5, <2>9 DEF Stays
     <2>11. ASSUME NEW m \in Data, Stays(s, m), m \in Ext \/ n \in Plain
            PROVE  Stays(Delete(r, c), m)
        <3>1. CASE s.table[m] = NULL
           BY <1>3, <2>5, <2>9, <2>11, <3>1 DEF Stays
        <3>2. CASE s.table[m] # NULL
           <4>1. PICK d \in Copy : d = s.table[m]
              BY <1>1, <3>2, HeapFields
           <4>2. m # n /\ s.data[d].name = m /\ d # c /\ s.data[d].refs # 0
              BY <1>1, <1>3, <2>2, <2>11, <3>2, <4>1 DEF Exact, TableRight, Stays
           <4>3. d # s.data[c].base
              <5>1. CopyRight(s, need, c)
                 BY <1>1 DEF Exact
              <5>2. s.data[c].base # NULL => n \in Ext /\ s.data[s.data[c].base].name \in Plain
                 BY <2>2, <5>1 DEF CopyRight
              <5> QED BY <1>1, <2>11, <4>2, <5>2, DataAssumption
           <4>4. Delete(r, c).data[d] = s.data[d]
              <5>1. d # r.data[c].base /\ r.data[d] = s.data[d]
                 BY <2>5, <4>2, <4>3
              <5> QED BY <2>5, <4>2, <5>1, DeleteFrame
           <4>5. Delete(r, c).table[m] = d
              BY <2>5, <2>9, <4>1, <4>2
           <4> QED BY <4>2, <4>4, <4>5 DEF Stays
        <3> QED BY <3>1, <3>2
     <2> QED BY <1>3, <2>4, <2>8, <2>10, <2>11
  <1> QED BY <1>2, <1>3

OrderIs(q) == q \in Seq(Data) /\ \A m \in Data : \E j \in 1..Len(q) : q[j] = m

LEMMA OrdersAre == ASSUME NEW q \in Orders PROVE OrderIs(q)
  <1>1. Cardinality(Data) \in Nat
     BY DataAssumption, FS_CardinalityType
  <1>2. q \in [1..Cardinality(Data) -> Data] /\ \A m \in Data : \E j \in DOMAIN q : q[j] = m
     BY DEF Orders
  <1>3. q \in Seq(Data)
     BY <1>1, <1>2, SeqDef
  <1>4. DOMAIN q = 1..Len(q)
     BY <1>3
  <1> QED BY <1>2, <1>3, <1>4 DEF OrderIs

(* After i elements of the order q. *)
Turned(s, need, q, u, i) ==
  /\ Good(u, need)
  /\ \A j \in 1..i : q[j] \in Ext => Stays(u, q[j])
  /\ (\A m \in Ext : Stays(s, m)) => (\A m \in Ext : Stays(u, m)) /\ \A j \in 1..i : Stays(u, q[j])

LEMMA PassGood ==
  ASSUME NEW s, NEW need, Good(s, need), NEW q, OrderIs(q)
  PROVE  /\ Good(Pass(s, q), need)
         /\ \A m \in Ext : Stays(Pass(s, q), m)
         /\ (\A m \in Ext : Stays(s, m)) => \A m \in Data : Stays(Pass(s, q), m)
  <1>1. s \in Heaps /\ q \in Seq(Data) /\ Ext \subseteq Data
     BY DEF Good, Exact, OrderIs, Data
  <1>2. PICK n \in Nat : n = Len(q)
     BY <1>1
  <1>3. PICK g \in [0..n -> Heaps] : /\ g[0] = s /\ Pass(s, q) = g[n]
                                    /\ \A i \in 1..n : g[i] = FlushOne(g[i - 1], q[i])
     BY <1>1, <1>2, PassRuns
  <1> DEFINE P == {i \in Nat : i <= n => Turned(s, need, q, g[i], i)}
  <1>4. 0 \in P
     BY <1>3 DEF Turned
  <1>5. ASSUME NEW i \in 0..(n - 1), i \in P PROVE i + 1 \in P
     <2>1. Turned(s, need, q, g[i], i)
        BY <1>2, <1>5
     <2>2. i + 1 \in 1..n /\ (i + 1) - 1 = i /\ q[i + 1] \in Data
        BY <1>1, <1>2
     <2>3. PICK m \in Data : m = q[i + 1]
        BY <2>2
     <2>4. PICK u : u = g[i]
        OBVIOUS
     <2>5. g[i + 1] = FlushOne(u, m) /\ Good(u, need)
        BY <1>3, <2>1, <2>2, <2>3, <2>4 DEF Turned
     <2>6. PICK v : v = FlushOne(u, m)
        OBVIOUS
     <2>7. /\ Good(v, need) /\ Stays(v, m) /\ (Stays(u, m) => v = u)
           /\ \A x \in Data : Stays(u, x) /\ (x \in Ext \/ m \in Plain) => Stays(v, x)
        BY <2>5, <2>6, FlushOneGood
     <2>8. \A j \in 1..(i + 1) : j \in 1..i \/ q[j] = m
        BY <2>2, <2>3
     <2>9. \A j \in 1..(i + 1) : q[j] \in Data
        BY <1>1, <1>2, <2>2
     <2>10. \A j \in 1..(i + 1) : q[j] \in Ext => Stays(v, q[j])
        BY <2>1, <2>4, <2>7, <2>8, <2>9 DEF Turned
     <2>11. ASSUME \A x \in Ext : Stays(s, x)
            PROVE  (\A x \in Ext : Stays(v, x)) /\ \A j \in 1..(i + 1) : Stays(v, q[j])
        <3>1. (\A x \in Ext : Stays(u, x)) /\ \A j \in 1..i : Stays(u, q[j])
           BY <2>1, <2>4, <2>11 DEF Turned
        <3>2. CASE m \in Ext
           BY <2>7, <2>8, <3>1, <3>2
        <3>3. CASE m \in Plain
           BY <1>1, <2>7, <2>8, <2>9, <3>1, <3>3
        <3> QED BY <3>2, <3>3 DEF Data
     <2>12. Turned(s, need, q, v, i + 1)
        BY <2>7, <2>10, <2>11 DEF Turned
     <2> QED BY <2>2, <2>5, <2>6, <2>12
  <1> HIDE DEF P
  <1>6. n \in P
     BY <1>4, <1>5, Induct
  <1>7. Turned(s, need, q, Pass(s, q), n)
     BY <1>3, <1>6 DEF P
  <1>8. \A m \in Data : \E j \in 1..n : q[j] = m
     BY <1>2 DEF OrderIs
  <1> QED BY <1>1, <1>7, <1>8 DEF Turned

LEMMA FlushedGood ==
  ASSUME NEW s, NEW need, Good(s, need), NEW q \in Orders
  PROVE  Good(Flushed(s, q), need) /\ \A m \in Data : Stays(Flushed(s, q), m)
  <1>1. PICK r : r = Pass(s, q)
     OBVIOUS
  <1>2. OrderIs(q) /\ Good(r, need) /\ \A m \in Ext : Stays(r, m)
     BY <1>1, OrdersAre, PassGood
  <1>3. CASE \E n \in Data : r.table[n] # NULL
     <2>1. Flushed(s, q) = Pass(r, q)
        BY <1>1, <1>3 DEF Flushed
     <2>2. Good(Pass(r, q), need) /\ \A m \in Data : Stays(Pass(r, q), m)
        BY <1>2, PassGood
     <2> QED BY <2>1, <2>2
  <1>4. CASE ~ \E n \in Data : r.table[n] # NULL
     <2>1. Flushed(s, q) = r
        BY <1>1, <1>4 DEF Flushed
     <2> QED BY <1>2, <1>4, <2>1 DEF Stays
  <1> QED BY <1>3, <1>4

(* When all that is in the table is in use, so is all that is cached; and if *)
(* no converter has any data, there are none.                                *)
LEMMA StaysUsed ==
  ASSUME NEW s, NEW need, Good(s, need), \A n \in Data : Stays(s, n), NEW c \in Copy, s.data[c].cached
  PROVE  s.data[c].refs > 0
  <1>1. s \in Heaps /\ CopyRight(s, need, c) /\ NULL \notin Copy
     BY DEF Good, Exact, NULL, Copy
  <1>2. s.data[c].refs \in Int /\ s.data[c].cached = TRUE
     BY <1>1, HeapFields
  <1>3. On(s, c)
     BY <1>1, <1>2 DEF CopyRight, NoData
  <1>4. s.data[c].name \in Data /\ s.table[s.data[c].name] = c
     BY <1>1, <1>2, <1>3 DEF CopyRight
  <1> QED BY <1>1, <1>2, <1>3, <1>4 DEF Stays, On

LEMMA StaysEmpty ==
  ASSUME NEW s, NEW need, Good(s, need), \A n \in Data : Stays(s, n), \A c \in Copy : need[c] = 0
  PROVE  (\A c \in Copy : s.data[c] = NoData) /\ \A n \in Data : s.table[n] = NULL
  <1>1. s \in Heaps /\ NULL \notin Copy /\ Exact(s, need)
     BY DEF Good, Exact, NULL, Copy
  <1>2. ASSUME NEW c \in Copy, On(s, c) PROVE \E d \in Copy : On(s, d) /\ s.data[d].base = c
     <2>1. s.data[c].refs > 0
        <3>1. CASE s.data[c].cached
           BY <3>1, StaysUsed
        <3>2. CASE ~s.data[c].cached
           BY <1>1, <1>2, <3>2, HeapFields DEF Good, Kept, On
        <3> QED BY <3>1, <3>2
     <2>2. s.data[c].refs = 0 + Cardinality(Built(s, c))
        BY <1>1, <1>2 DEF Exact, CopyRight
     <2>3. Built(s, c) # {}
        BY <2>1, <2>2, FS_EmptySet
     <2> QED BY <2>3 DEF Built
  <1>3. ASSUME NEW c \in Copy, On(s, c) PROVE FALSE
     <2>1. PICK d \in Copy : On(s, d) /\ s.data[d].base = c
        BY <1>2, <1>3
     <2>2. PICK e \in Copy : On(s, e) /\ s.data[e].base = d
        BY <1>2, <2>1
     <2>3. s.data[d].name \in Ext
        BY <1>1, <2>1 DEF Exact, CopyRight
     <2>4. s.data[d].name \in Plain
        BY <1>1, <2>2 DEF Exact, CopyRight
     <2> QED BY <2>3, <2>4, DataAssumption
  <1>4. \A c \in Copy : s.data[c] = NoData
     BY <1>1, <1>3 DEF Exact, CopyRight
  <1>5. ASSUME NEW n \in Data PROVE s.table[n] = NULL
     BY <1>1, <1>3, TableField DEF Exact, TableRight
  <1> QED BY <1>4, <1>5

-------------------------------------------------------------------------------
(* How often converters use a copy, and how that changes with the data of    *)
(* one converter.                                                            *)

Within(q, c)       == {i \in DOMAIN q : q[i] = c}
PlacesOf(f, H, c)  == UNION {{h} \X Within(f[h].uses, c) : h \in H}
NeedOf(f)          == [c \in Copy |-> Cardinality(PlacesOf(f, Handle, c))]

LEMMA WithinFinite ==
  ASSUME NEW q \in Seq(Copy), NEW c
  PROVE  IsFiniteSet(Within(q, c)) /\ Cardinality(Within(q, c)) \in Nat
  <1>1. Len(q) \in Nat /\ DOMAIN q = 1..Len(q)
     OBVIOUS
  <1>2. IsFiniteSet(DOMAIN q)
     BY <1>1, FS_Interval
  <1> QED BY <1>2, FS_Subset, FS_CardinalityType DEF Within

LEMMA WithinEmpty == ASSUME NEW c PROVE Cardinality(Within(<<>>, c)) = 0
  BY FS_EmptySet DEF Within

LEMMA WithinAppend ==
  ASSUME NEW q \in Seq(Copy), NEW d \in Copy, NEW c \in Copy
  PROVE  Cardinality(Within(Append(q, d), c)) = Cardinality(Within(q, c)) + (IF c = d THEN 1 ELSE 0)
  <1>1. PICK n \in Nat : n = Len(q) /\ DOMAIN q = 1..n
     OBVIOUS
  <1>2. PICK r : r = Append(q, d)
     OBVIOUS
  <1>3. r \in Seq(Copy) /\ Len(r) = n + 1 /\ (\A i \in 1..n : r[i] = q[i]) /\ r[n + 1] = d
     BY <1>1, <1>2, AppendProperties
  <1>4. DOMAIN r = 1..(n + 1)
     BY <1>3
  <1>5. Within(r, c) = IF c = d THEN Within(q, c) \cup {n + 1} ELSE Within(q, c)
     <2>1. \A i \in 1..(n + 1) : i \in 1..n \/ i = n + 1
        OBVIOUS
     <2>2. \A i \in 1..n : i \in Within(r, c) <=> i \in Within(q, c)
        BY <1>1, <1>3, <1>4 DEF Within
     <2>3. n + 1 \in Within(r, c) <=> c = d
        BY <1>3, <1>4 DEF Within
     <2>4. Within(r, c) \subseteq 1..(n + 1) /\ Within(q, c) \subseteq 1..n
        BY <1>1, <1>4 DEF Within
     <2>5. \A i : i \in Within(r, c) <=> i \in Within(q, c) \/ (i = n + 1 /\ c = d)
        BY <2>1, <2>2, <2>3, <2>4
     <2>6. CASE c = d
        BY <2>5, <2>6
     <2>7. CASE c # d
        BY <2>5, <2>7
     <2> QED BY <2>6, <2>7
  <1>6. n + 1 \notin Within(q, c)
     BY <1>1 DEF Within
  <1>7. IsFiniteSet(Within(q, c)) /\ Cardinality(Within(q, c)) \in Nat
     BY WithinFinite
  <1>8. Cardinality(Within(q, c) \cup {n + 1}) = Cardinality(Within(q, c)) + 1
     BY <1>6, <1>7, FS_AddElement
  <1> QED BY <1>2, <1>5, <1>7, <1>8

LEMMA WithinTail ==
  ASSUME NEW q \in Seq(Copy), q # <<>>, NEW c \in Copy
  PROVE  Cardinality(Within(q, c)) = Cardinality(Within(Tail(q), c)) + (IF c = Head(q) THEN 1 ELSE 0)
  <1>1. PICK n \in Nat : n = Len(q) /\ DOMAIN q = 1..n /\ n # 0
     OBVIOUS
  <1>2. PICK r : r = Tail(q)
     OBVIOUS
  <1>3. /\ r \in Seq(Copy) /\ Len(r) = n - 1 /\ DOMAIN r = 1..(n - 1) /\ \A i \in 1..(n - 1) : r[i] = q[i + 1]
        /\ Head(q) = q[1]
     BY <1>1, <1>2, HeadTailProperties
  <1> DEFINE A == Within(r, c)
             B == Within(q, c) \ {1}
             f == [i \in A |-> i + 1]
  <1>4. IsFiniteSet(A) /\ IsFiniteSet(Within(q, c)) /\ Cardinality(Within(q, c)) \in Nat
     BY <1>3, WithinFinite
  <1>5. A \subseteq 1..(n - 1) /\ \A i \in A : i + 1 \in B
     BY <1>1, <1>3 DEF Within
  <1>6. \A j \in B : j - 1 \in A /\ (j - 1) + 1 = j
     <2>1. \A j \in B : j \in 2..n /\ q[j] = c
        BY <1>1 DEF Within
     <2>2. \A j \in 2..n : j - 1 \in 1..(n - 1) /\ (j - 1) + 1 = j
        BY <1>1
     <2> QED BY <1>3, <2>1, <2>2 DEF Within
  <1>7. f \in Bijection(A, B)
     <2>1. f \in [A -> B]
        BY <1>5
     <2>2. \A i, j \in A : f[i] = f[j] => i = j
        BY <1>5
     <2>3. \A j \in B : \E i \in A : f[i] = j
        BY <1>6
     <2> HIDE DEF f, A, B
     <2> QED BY <2>1, <2>2, <2>3 DEF Bijection, Injection, Surjection, IsInjective
  <1>8. Cardinality(B) = Cardinality(A)
     <2>1. ExistsBijection(A, B)
        BY <1>7 DEF ExistsBijection
     <2> QED BY <1>4, <2>1, FS_Bijection
  <1>9. Cardinality(B) = IF 1 \in Within(q, c) THEN Cardinality(Within(q, c)) - 1 ELSE Cardinality(Within(q, c))
     BY <1>4, FS_RemoveElement
  <1>10. 1 \in Within(q, c) <=> c = Head(q)
     BY <1>1, <1>3 DEF Within
  <1> QED BY <1>2, <1>4, <1>8, <1>9, <1>10

LEMMA PlacesFinite ==
  ASSUME NEW f \in [Handle -> Converter], NEW H \in SUBSET Handle, NEW c
  PROVE  IsFiniteSet(PlacesOf(f, H, c)) /\ Cardinality(PlacesOf(f, H, c)) \in Nat
  <1> DEFINE P == {i \in Nat : i <= MaxConverters => IsFiniteSet(PlacesOf(f, 1..i, c))}
  <1>1. 0 \in P
     <2>1. PlacesOf(f, 1..0, c) = {}
        BY DEF PlacesOf
     <2> QED BY <2>1, FS_EmptySet
  <1>2. ASSUME NEW i \in 0..(MaxConverters - 1), i \in P PROVE i + 1 \in P
     <2>1. i + 1 \in Handle /\ IsFiniteSet(PlacesOf(f, 1..i, c))
        BY <1>2, BoundsAssumption DEF Handle
     <2>2. f[i + 1].uses \in Seq(Copy)
        BY <2>1 DEF Converter
     <2>3. IsFiniteSet({i + 1} \X Within(f[i + 1].uses, c))
        BY <2>2, WithinFinite, FS_Singleton, FS_Product
     <2>4. 1..(i + 1) = (1..i) \cup {i + 1}
        OBVIOUS
     <2>5. PlacesOf(f, 1..(i + 1), c) = PlacesOf(f, 1..i, c) \cup ({i + 1} \X Within(f[i + 1].uses, c))
        BY <2>4 DEF PlacesOf
     <2>6. IsFiniteSet(PlacesOf(f, 1..(i + 1), c))
        <3>1. PICK X, Y : X = PlacesOf(f, 1..i, c) /\ Y = {i + 1} \X Within(f[i + 1].uses, c)
           OBVIOUS
        <3>2. IsFiniteSet(X \cup Y)
           BY <2>1, <2>3, <3>1, FS_Union
        <3> QED BY <2>5, <3>1, <3>2
     <2> QED BY <2>6
  <1> HIDE DEF P
  <1>3. MaxConverters \in P
     BY <1>1, <1>2, BoundsAssumption, Induct
  <1>4. IsFiniteSet(PlacesOf(f, Handle, c))
     BY <1>3, BoundsAssumption DEF P, Handle
  <1>5. PlacesOf(f, H, c) \subseteq PlacesOf(f, Handle, c)
     BY DEF PlacesOf
  <1> QED BY <1>4, <1>5, FS_Subset, FS_CardinalityType

LEMMA PlacesSplit ==
  ASSUME NEW f \in [Handle -> Converter], NEW h \in Handle, NEW c
  PROVE  Cardinality(PlacesOf(f, Handle, c)) = Cardinality(PlacesOf(f, Handle \ {h}, c)) + Cardinality(Within(f[h].uses, c))
  <1> DEFINE A == PlacesOf(f, Handle \ {h}, c)
             B == {h} \X Within(f[h].uses, c)
  <1>1. PlacesOf(f, Handle, c) = A \cup B
     BY DEF PlacesOf
  <1>2. A \cap B = {}
     BY DEF PlacesOf
  <1>3. IsFiniteSet(A) /\ Cardinality(A) \in Nat
     BY PlacesFinite
  <1>4. f[h].uses \in Seq(Copy)
     BY DEF Converter
  <1>5. IsFiniteSet(Within(f[h].uses, c)) /\ Cardinality(Within(f[h].uses, c)) \in Nat
     BY <1>4, WithinFinite
  <1>6. IsFiniteSet(B) /\ Cardinality(B) = 1 * Cardinality(Within(f[h].uses, c))
     <2>1. IsFiniteSet({h}) /\ Cardinality({h}) = 1
        BY FS_Singleton
     <2> QED BY <1>5, <2>1, FS_Product
  <1>6a. Cardinality(B) = Cardinality(Within(f[h].uses, c)) /\ Cardinality(B) \in Nat
     BY <1>5, <1>6
  <1> HIDE DEF A, B
  <1>7. Cardinality(A \cup B) = Cardinality(A) + Cardinality(B)
     <2>1. Cardinality(A \cup B) = Cardinality(A) + Cardinality(B) - Cardinality(A \cap B)
        BY <1>3, <1>6, FS_Union
     <2>2. Cardinality(A \cap B) = 0
        BY <1>2, FS_EmptySet
     <2> QED BY <1>3, <1>6a, <2>1, <2>2
  <1> QED BY <1>1, <1>6a, <1>7 DEF A

LEMMA NeedType == ASSUME NEW f \in [Handle -> Converter] PROVE NeedOf(f) \in [Copy -> Nat]
  <1>1. \A c \in Copy : Cardinality(PlacesOf(f, Handle, c)) \in Nat
     BY PlacesFinite
  <1> QED BY <1>1 DEF NeedOf

(* What all converters but one need. *)
LEMMA NeedBut ==
  ASSUME NEW f \in [Handle -> Converter], NEW g \in [Handle -> Converter], NEW h \in Handle,
         \A k \in Handle \ {h} : g[k].uses = f[k].uses
  PROVE  \E rest \in [Copy -> Nat] : \A c \in Copy :
           /\ NeedOf(f)[c] = rest[c] + Cardinality(Within(f[h].uses, c))
           /\ NeedOf(g)[c] = rest[c] + Cardinality(Within(g[h].uses, c))
  <1> DEFINE rest == [c \in Copy |-> Cardinality(PlacesOf(f, Handle \ {h}, c))]
  <1>1. \A c : PlacesOf(g, Handle \ {h}, c) = PlacesOf(f, Handle \ {h}, c)
     BY DEF PlacesOf
  <1>2. rest \in [Copy -> Nat]
     BY PlacesFinite
  <1>3. ASSUME NEW c \in Copy
        PROVE  /\ NeedOf(f)[c] = rest[c] + Cardinality(Within(f[h].uses, c))
               /\ NeedOf(g)[c] = rest[c] + Cardinality(Within(g[h].uses, c))
     BY <1>1, PlacesSplit, ZenonT(40) DEF NeedOf
  <1> HIDE DEF rest
  <1> QED BY <1>2, <1>3

(* The same data in use are needed as often. *)
LEMMA NeedSame ==
  ASSUME NEW f, NEW g, \A h \in Handle : g[h].uses = f[h].uses
  PROVE  NeedOf(g) = NeedOf(f)
  <1>1. \A c : PlacesOf(g, Handle, c) = PlacesOf(f, Handle, c)
     BY DEF PlacesOf
  <1> QED BY <1>1 DEF NeedOf

(* The close of a converter gives back what it had. *)
Left(q, i, c) == {j \in (i + 1)..Len(q) : q[j] = c}

LEMMA CloseGood ==
  ASSUME NEW s, NEW h \in Handle, NEW q \in Seq(Copy), cnv[h].uses = q,
         NEW rest \in [Copy -> Nat], NEW need, Good(s, need),
         \A c \in Copy : need[c] = rest[c] + Cardinality(Within(q, c))
  PROVE  Good(CloseNow(s, h), rest)
  <1>1. s \in Heaps /\ need \in [Copy -> Nat]
     BY DEF Good, Exact
  <1>2. PICK n \in Nat : n = Len(q) /\ DOMAIN q = 1..n
     OBVIOUS
  <1>3. PICK g \in [0..n -> Heaps] : /\ g[0] = s /\ CloseNow(s, h) = g[n]
                                    /\ \A i \in 1..n : g[i] = Unload(g[i - 1], q[i])
     <2>1. \E g \in [0..Len(q) -> Heaps] : /\ g[0] = s /\ CloseNow(s, h) = g[Len(q)]
                                           /\ \A i \in 1..Len(q) : g[i] = Unload(g[i - 1], q[i])
        BY <1>1, CloseRuns
     <2> QED BY <1>2, <2>1
  <1> DEFINE N(i) == [c \in Copy |-> rest[c] + Cardinality(Left(q, i, c))]
             P == {i \in Nat : i <= n => Good(g[i], N(i))}
  <1>4. ASSUME NEW i \in 0..n, NEW c PROVE IsFiniteSet(Left(q, i, c)) /\ Cardinality(Left(q, i, c)) \in Nat
     <2>1. i + 1 \in Int /\ Len(q) \in Int
        BY <1>2
     <2>2. IsFiniteSet((i + 1)..Len(q))
        BY <2>1, FS_Interval
     <2>3. Left(q, i, c) \subseteq (i + 1)..Len(q)
        BY DEF Left
     <2> QED BY <2>2, <2>3, FS_Subset, FS_CardinalityType
  <1>5. 0 \in P
     <2>1. \A c : Left(q, 0, c) = Within(q, c)
        BY <1>2 DEF Left, Within
     <2>2. N(0) = need
        BY <1>1, <2>1
     <2> HIDE DEF N
     <2> QED BY <1>3, <2>2
  <1>6. ASSUME NEW i \in 0..(n - 1), i \in P PROVE i + 1 \in P
     <2>1. i + 1 \in 1..n /\ i + 1 \in 0..n /\ i \in 0..n /\ (i + 1) - 1 = i /\ i <= n
        BY <1>2
     <2>2. PICK d \in Copy : d = q[i + 1]
        BY <1>2, <2>1
     <2>3. Left(q, i, d) = Left(q, i + 1, d) \cup {i + 1} /\ i + 1 \notin Left(q, i + 1, d)
        BY <1>2, <2>1, <2>2 DEF Left
     <2>4. ASSUME NEW c \in Copy, c # d PROVE Left(q, i, c) = Left(q, i + 1, c)
        BY <1>2, <2>1, <2>2, <2>4 DEF Left
     <2>5. Cardinality(Left(q, i, d)) = Cardinality(Left(q, i + 1, d)) + 1
        BY <1>4, <2>1, <2>3, FS_AddElement, ZenonT(40)
     <2>6. N(i)[d] > 0 /\ [N(i) EXCEPT ![d] = @ - 1] = N(i + 1)
        <3>1. PICK u, v : u = N(i) /\ v = N(i + 1)
           OBVIOUS
        <3>2. \A c \in Copy : /\ u[c] = rest[c] + Cardinality(Left(q, i, c))
                              /\ v[c] = rest[c] + Cardinality(Left(q, i + 1, c))
           BY <3>1
        <3>3. \A c \in Copy : rest[c] \in Nat /\ Cardinality(Left(q, i + 1, c)) \in Nat
           BY <1>4, <2>1
        <3>4. u = [c \in Copy |-> u[c]] /\ v = [c \in Copy |-> v[c]]
           BY <3>1
        <3>5. u[d] = v[d] + 1 /\ v[d] \in Nat
           BY <2>5, <3>2, <3>3
        <3>6. \A c \in Copy : c # d => u[c] = v[c]
           BY <2>4, <3>2
        <3> HIDE DEF N
        <3>7. \A c \in Copy : [u EXCEPT ![d] = @ - 1][c] = v[c]
           BY <3>4, <3>5, <3>6
        <3>8. [u EXCEPT ![d] = @ - 1] = [c \in Copy |-> [u EXCEPT ![d] = @ - 1][c]]
           BY <3>4
        <3>9. [u EXCEPT ![d] = @ - 1] = v
           BY <3>4, <3>7, <3>8
        <3> QED BY <3>1, <3>5, <3>9
     <2> HIDE DEF N
     <2>7. Good(g[i], N(i))
        BY <1>6, <2>1
     <2>8. Good(Unload(g[i], d), N(i + 1))
        BY <2>6, <2>7, UnloadGood
     <2>9. g[i + 1] = Unload(g[i], d)
        BY <1>3, <2>1, <2>2
     <2> QED BY <2>1, <2>8, <2>9
  <1> HIDE DEF P
  <1>7. n \in P
     BY <1>5, <1>6, Induct
  <1>8. N(n) = rest
     <2>1. \A c \in Copy : Left(q, n, c) = {}
        BY <1>2 DEF Left
     <2>2. \A c \in Copy : rest[c] + Cardinality(Left(q, n, c)) = rest[c]
        <3>1. \A c \in Copy : Cardinality(Left(q, n, c)) = 0 /\ rest[c] \in Nat
           BY <2>1, FS_EmptySet
        <3> QED BY <3>1
     <2> QED BY <2>2
  <1> QED BY <1>3, <1>7, <1>8 DEF P

-------------------------------------------------------------------------------
(* The counts are right for what the converters have, step by step. *)

Counted == Good(State, NeedOf(cnv)) /\ (tableOpen => registered)

LEMMA NewState == ASSUME NEW s \in Heaps, Becomes(s) PROVE State' = s
  BY DEF Becomes, State, Heaps

LEMMA StateFields == State.data = data /\ State.table = table /\ State.tableOpen = tableOpen
  BY DEF State

LEMMA ConverterTypes ==
  ASSUME OwnerInv
  PROVE  cnv \in [Handle -> Converter] /\ default \in Handle \cup {NULL} /\ \A h \in Handle : cnv[h].uses \in Seq(Copy)
  BY DEF OwnerInv, ControlInv, Converter

(* Steps that leave the data, and open a converter without data at most. *)
LEMMA SameCounted ==
  ASSUME OwnerInv, Counted, UNCHANGED <<data, table, tableOpen>>, registered => registered',
         \A h \in Handle : cnv'[h].uses = cnv[h].uses
  PROVE  Counted'
  <1>1. State' = State
     BY DEF State
  <1>2. NeedOf(cnv') = NeedOf(cnv)
     BY NeedSame
  <1> QED BY <1>1, <1>2 DEF Counted

LEMMA StartUses ==
  ASSUME OwnerInv, NEW t \in User, NEW n, NEW for, NEW pkg, StartOpen(t, n, for, pkg)
  PROVE  \A h \in Handle : cnv'[h].uses = cnv[h].uses
  <1>1. PICK h \in Handle : h = NewHandle /\ cnv[h] = NoConverter
     BY HandleIsNew DEF StartOpen
  <1>2. cnv' = [cnv EXCEPT ![h] = [name |-> n, uses |-> <<>>]]
     BY <1>1 DEF StartOpen
  <1>3. cnv \in [Handle -> Converter]
     BY ConverterTypes
  <1> QED BY <1>1, <1>2, <1>3 DEF NoConverter

LEMMA QuietCounted ==
  ASSUME OwnerInv, Counted, NEW t \in User,
         \/ Opened(t) \/ TakeDefault(t) \/ OpenDefault(t) \/ OpenNamed(t) \/ ProbeSetsName(t)
         \/ ProbeFallsBack(t) \/ ReleaseDefault(t) \/ PutBack(t) \/ FlushDefault(t)
         \/ GetDefault(t) \/ FlushCache(t) \/ SetDefaultNameNull(t) \/ Closed(t)
         \/ (\E n \in Names, pkg \in BOOLEAN, for \in {"client", "test"} : Open(t, n, pkg, for))
         \/ (\E h \in Handle : Close(t, h))
  PROVE  Counted'
  <1>1. UNCHANGED <<data, table, tableOpen>> /\ (registered => registered')
     <2>1. CASE ProbeSetsName(t) \/ ProbeFallsBack(t)
        BY <2>1 DEF ProbeSetsName, ProbeFallsBack, ProbeSets, InternalSetName
     <2>2. CASE ~(ProbeSetsName(t) \/ ProbeFallsBack(t))
        <3>1. UNCHANGED cacheVars
           BY <2>2 DEF Opened, TakeDefault, OpenDefault, OpenNamed, ReleaseDefault, PutBack, FlushDefault, GetDefault,
                       FlushCache, SetDefaultNameNull, Closed, Open, Close
        <3> QED BY <3>1 DEF cacheVars
     <2> QED BY <2>1, <2>2
  <1>2. UNCHANGED cnv => \A h \in Handle : cnv'[h].uses = cnv[h].uses
     OBVIOUS
  <1>3. CASE Opened(t) \/ TakeDefault(t) \/ ProbeSetsName(t) \/ ProbeFallsBack(t) \/ ReleaseDefault(t) \/ PutBack(t)
             \/ FlushDefault(t) \/ GetDefault(t) \/ FlushCache(t) \/ SetDefaultNameNull(t)
             \/ (\E h \in Handle : Close(t, h))
     <2>1. UNCHANGED cnv
        BY <1>3 DEF Opened, TakeDefault, ProbeSetsName, ProbeFallsBack, ReleaseDefault, PutBack,
                    FlushDefault, GetDefault, FlushCache, SetDefaultNameNull, Close
     <2> QED BY <1>1, <1>2, <2>1, SameCounted
  <1>4. CASE OpenDefault(t)
     <2>1. \A h \in Handle : cnv'[h].uses = cnv[h].uses
        BY <1>2, <1>4, StartUses DEF OpenDefault
     <2> QED BY <1>1, <2>1, SameCounted
  <1>5. CASE OpenNamed(t)
     <2>1. \A h \in Handle : cnv'[h].uses = cnv[h].uses
        BY <1>2, <1>5, StartUses DEF OpenNamed
     <2> QED BY <1>1, <2>1, SameCounted
  <1>6. CASE \E n \in Names, pkg \in BOOLEAN, for \in {"client", "test"} : Open(t, n, pkg, for)
     <2>1. \A h \in Handle : cnv'[h].uses = cnv[h].uses
        BY <1>6, StartUses DEF Open
     <2> QED BY <1>1, <2>1, SameCounted
  <1>7. CASE Closed(t)
     <2>1. cnv[job[t].h].uses = <<>> /\ cnv' = [cnv EXCEPT ![job[t].h] = NoConverter]
        BY <1>7 DEF Closed
     <2>2. \A h \in Handle : cnv'[h].uses = cnv[h].uses
        BY <2>1, ConverterTypes DEF NoConverter
     <2> QED BY <1>1, <2>2, SameCounted
  <1> QED BY <1>3, <1>4, <1>5, <1>6, <1>7

(* A load adds a reference. *)
LEMMA LoadCounted ==
  ASSUME OwnerInv, OwnerInv', Counted, NEW t \in User, LoadSharedData(t)
  PROVE  Counted'
  <1>1. job[t].pc = "load" /\ job[t].todo # <<>>
     BY DEF LoadSharedData, JobAt
  <1>2. PICK h : h = job[t].h
     OBVIOUS
  <1>3. h \in Handle /\ job[t].todo \in Seq(Data) /\ job[t].pkg \in BOOLEAN
     BY <1>1, <1>2, JobOf, JobKinds
  <1>4. PICK n \in Data : n = Head(job[t].todo)
     BY <1>1, <1>3, HeadTailProperties
  <1>5. PICK test \in BOOLEAN : test = (job[t].for = "test")
     OBVIOUS
  <1>6. PICK r \in Load(State, n, job[t].pkg, test) :
           /\ Becomes(r.state)
           /\ registered' = (registered \/ (r.state.tableOpen /\ ~tableOpen))
           /\ r.copy = NULL => UNCHANGED cnv
           /\ r.copy # NULL => cnv' = [cnv EXCEPT ![h].uses = Append(@, r.copy)]
     BY <1>2, <1>4, <1>5 DEF LoadSharedData
  <1>7. PICK need : need = NeedOf(cnv)
     OBVIOUS
  <1>8. Good(State, need)
     BY <1>7 DEF Counted
  <1>9. r.copy \in Copy \cup {NULL} /\ Good(r.state, With(need, r.copy))
     BY <1>3, <1>6, <1>8, LoadGood
  <1>10. State' = r.state
     BY <1>6, <1>9, NewState DEF Good, Exact
  <1>11. tableOpen' => registered'
     <2>1. tableOpen' = r.state.tableOpen
        BY <1>6 DEF Becomes
     <2> QED BY <1>6, <2>1 DEF Counted
  <1>12. NeedOf(cnv') = With(need, r.copy)
     <2>1. CASE r.copy = NULL
        BY <1>6, <1>7, <2>1 DEF With
     <2>2. CASE r.copy # NULL
        <3>1. PICK d \in Copy : d = r.copy
           BY <1>9, <2>2
        <3>2. cnv \in [Handle -> Converter] /\ cnv' \in [Handle -> Converter] /\ cnv[h].uses \in Seq(Copy)
           BY <1>3, ConverterTypes DEF OwnerInv, ControlInv
        <3>3. cnv'[h].uses = Append(cnv[h].uses, d) /\ \A k \in Handle \ {h} : cnv'[k].uses = cnv[k].uses
           BY <1>3, <1>6, <2>2, <3>1, <3>2 DEF Converter
        <3>4. PICK rest \in [Copy -> Nat] : \A c \in Copy :
                 /\ NeedOf(cnv)[c] = rest[c] + Cardinality(Within(cnv[h].uses, c))
                 /\ NeedOf(cnv')[c] = rest[c] + Cardinality(Within(cnv'[h].uses, c))
           BY <1>3, <3>2, <3>3, NeedBut
        <3>5. \A c \in Copy : /\ Cardinality(Within(cnv[h].uses, c)) \in Nat
                              /\ Cardinality(Within(cnv'[h].uses, c))
                                   = Cardinality(Within(cnv[h].uses, c)) + (IF c = d THEN 1 ELSE 0)
           BY <3>2, <3>3, WithinFinite, WithinAppend
        <3>6. PICK now : now = NeedOf(cnv')
           OBVIOUS
        <3>7. need \in [Copy -> Nat] /\ now \in [Copy -> Nat]
           BY <1>7, <3>2, <3>6, NeedType
        <3>8. \A c \in Copy : now[c] = need[c] + (IF c = d THEN 1 ELSE 0)
           <4>1. \A c \in Copy : rest[c] \in Nat
              OBVIOUS
           <4> QED BY <1>7, <3>4, <3>5, <3>6, <4>1
        <3>9. now = [need EXCEPT ![d] = @ + 1]
           BY <3>7, <3>8
        <3> QED BY <2>2, <3>1, <3>6, <3>9 DEF With
     <2> QED BY <2>1, <2>2
  <1> QED BY <1>9, <1>10, <1>11, <1>12 DEF Counted

(* An unload takes one away. *)
LEMMA UnloadCounted ==
  ASSUME OwnerInv, OwnerInv', Counted, NEW t \in User, UnloadSharedData(t)
  PROVE  Counted'
  <1>1. PICK h : h = job[t].h
     OBVIOUS
  <1>2. /\ job[t].pc = "close" /\ cnv[h].uses # <<>>
        /\ Becomes(Unload(State, Head(cnv[h].uses))) /\ cnv' = [cnv EXCEPT ![h].uses = Tail(@)]
        /\ UNCHANGED registered
     BY <1>1 DEF UnloadSharedData, JobAt
  <1>3. h \in Handle
     BY <1>1, <1>2, JobOf, JobKinds
  <1>4. cnv \in [Handle -> Converter] /\ cnv' \in [Handle -> Converter] /\ cnv[h].uses \in Seq(Copy)
     BY <1>3, ConverterTypes DEF OwnerInv, ControlInv
  <1>5. PICK d \in Copy : d = Head(cnv[h].uses)
     BY <1>2, <1>4, HeadTailProperties
  <1>6. cnv'[h].uses = Tail(cnv[h].uses) /\ \A k \in Handle \ {h} : cnv'[k].uses = cnv[k].uses
     BY <1>2, <1>3, <1>4 DEF Converter
  <1>7. PICK rest \in [Copy -> Nat] : \A c \in Copy :
           /\ NeedOf(cnv)[c] = rest[c] + Cardinality(Within(cnv[h].uses, c))
           /\ NeedOf(cnv')[c] = rest[c] + Cardinality(Within(cnv'[h].uses, c))
     BY <1>3, <1>4, <1>6, NeedBut
  <1>8. PICK need, now : need = NeedOf(cnv) /\ now = NeedOf(cnv')
     OBVIOUS
  <1>9. need \in [Copy -> Nat] /\ now \in [Copy -> Nat]
     BY <1>4, <1>8, NeedType
  <1>10. \A c \in Copy : need[c] = now[c] + (IF c = d THEN 1 ELSE 0)
     <2>1. Tail(cnv[h].uses) \in Seq(Copy)
        BY <1>2, <1>4, HeadTailProperties
     <2>2. \A c \in Copy : /\ Cardinality(Within(Tail(cnv[h].uses), c)) \in Nat
                           /\ Cardinality(Within(cnv[h].uses, c))
                                = Cardinality(Within(Tail(cnv[h].uses), c)) + (IF c = d THEN 1 ELSE 0)
        BY <1>2, <1>4, <1>5, <2>1, WithinFinite, WithinTail
     <2>3. \A c \in Copy : rest[c] \in Nat
        OBVIOUS
     <2> QED BY <1>6, <1>7, <1>8, <2>2, <2>3
  <1>11. need[d] > 0 /\ now = [need EXCEPT ![d] = @ - 1]
     BY <1>9, <1>10
  <1>12. Good(Unload(State, d), now)
     <2>1. Good(State, need)
        BY <1>8 DEF Counted
     <2> QED BY <1>11, <2>1, UnloadGood
  <1>13. State' = Unload(State, d)
     BY <1>2, <1>5, <1>12, NewState DEF Good, Exact
  <1>14. tableOpen' => registered'
     <2>1. State \in Heaps
        BY DEF OwnerInv, ControlInv
     <2>2. Unload(State, d).tableOpen = tableOpen
        BY <2>1, UnloadIs, StateFields
     <2>3. tableOpen' = Unload(State, d).tableOpen
        BY <1>2, <1>5 DEF Becomes
     <2> QED BY <1>2, <2>2, <2>3 DEF Counted
  <1> QED BY <1>8, <1>12, <1>13, <1>14 DEF Counted

-------------------------------------------------------------------------------
(* A clone has what the original has. *)

(* r is s with as many more references as more says. *)
Added(s, need, more, r, m) ==
  /\ more \in [Copy -> Nat] /\ \A c \in Copy : more[c] > 0 => On(s, c)
  /\ r \in Heaps /\ r.table = s.table /\ r.tableOpen = s.tableOpen
  /\ \A c \in Copy : r.data[c] = [s.data[c] EXCEPT !.refs = @ + more[c]]
  /\ m \in [Copy -> Nat] /\ \A c \in Copy : m[c] = need[c] + more[c]

LEMMA AddAllGood ==
  ASSUME NEW s, NEW need, Good(s, need), NEW more, NEW r, NEW m, Added(s, need, more, r, m)
  PROVE  Good(r, m)
  <1>0. /\ more \in [Copy -> Nat] /\ \A c \in Copy : more[c] > 0 => On(s, c)
        /\ r \in Heaps /\ r.table = s.table /\ r.tableOpen = s.tableOpen
        /\ \A c \in Copy : r.data[c] = [s.data[c] EXCEPT !.refs = @ + more[c]]
        /\ m \in [Copy -> Nat] /\ \A c \in Copy : m[c] = need[c] + more[c]
     BY DEF Added
  <1>1. s \in Heaps /\ need \in [Copy -> Nat] /\ Exact(s, need)
     BY DEF Good, Exact
  <1>2. \A c \in Copy : s.data[c] \in Datum
     BY <1>1 DEF Heaps
  <1>3. ASSUME NEW c \in Copy
        PROVE  /\ r.data[c].refs = s.data[c].refs + more[c] /\ r.data[c].name = s.data[c].name
               /\ r.data[c].cached = s.data[c].cached /\ r.data[c].base = s.data[c].base
     BY <1>0, <1>2 DEF Datum
  <1>4. ASSUME NEW c \in Copy, ~On(s, c) PROVE r.data[c] = s.data[c] /\ more[c] = 0
     <2>1. more[c] = 0
        BY <1>0, <1>4
     <2>2. s.data[c].refs + more[c] = s.data[c].refs
        BY <1>2, <2>1 DEF Datum
     <2> QED BY <1>0, <1>2, <2>1, <2>2 DEF Datum
  <1>5. ASSUME NEW c \in Copy PROVE On(r, c) <=> On(s, c)
     BY <1>0, <1>1, <1>3, <1>4, HeapFields DEF On
  <1>6. \A c : Built(r, c) = Built(s, c)
     BY <1>3, <1>5 DEF Built
  <1>7. TableRight(r)
     <2>1. ASSUME NEW n \in Data, r.table[n] # NULL
           PROVE  On(r, r.table[n]) /\ r.data[r.table[n]].name = n /\ r.tableOpen = TRUE
        <3>1. s.table[n] \in Copy /\ On(s, s.table[n]) /\ s.data[s.table[n]].name = n /\ s.tableOpen = TRUE
           BY <1>0, <1>1, <2>1, TableField DEF Exact, TableRight
        <3> QED BY <1>0, <1>3, <1>5, <3>1
     <2> QED BY <2>1 DEF TableRight
  <1>8. ASSUME NEW c \in Copy PROVE CopyRight(r, m, c)
     <2>1. CopyRight(s, need, c) /\ need[c] \in Nat /\ more[c] \in Nat
        BY <1>0, <1>1 DEF Exact
     <2>2. CASE ~On(s, c)
        BY <1>0, <1>4, <1>5, <1>6, <2>1, <2>2 DEF CopyRight
     <2>3. CASE On(s, c)
        <3>1. s.data[c].refs = need[c] + Cardinality(Built(s, c)) /\ Cardinality(Built(s, c)) \in Nat
           BY <2>1, <2>3, BuiltFinite DEF CopyRight
        <3>2. r.data[c].refs = m[c] + Cardinality(Built(r, c))
           BY <1>0, <1>3, <1>6, <2>1, <3>1
        <3>3. s.data[c].base # NULL => s.data[c].base \in Copy
           BY <1>1, HeapFields
        <3>4. r.data[c].base # NULL => r.data[c].name \in Ext /\ r.data[r.data[c].base].name \in Plain
           BY <1>3, <2>1, <2>3, <3>3 DEF CopyRight
        <3>5. r.data[c].name \in Data /\ (r.data[c].cached = TRUE <=> r.table[r.data[c].name] = c)
           BY <1>0, <1>3, <2>1, <2>3 DEF CopyRight
        <3> QED BY <1>5, <2>3, <3>2, <3>4, <3>5 DEF CopyRight
     <2> QED BY <2>2, <2>3
  <1>9. ASSUME NEW c \in Copy PROVE Kept(r, c)
     <2>1. CASE ~On(s, c)
        BY <1>5, <2>1 DEF Kept
     <2>2. CASE On(s, c)
        <3>1. s.data[c].refs = 0 => s.data[c].cached = TRUE
           BY <2>2 DEF Good, Kept
        <3>2. r.data[c].refs = 0 => s.data[c].refs = 0
           BY <1>0, <1>1, <1>3, <2>2, HeapFields DEF On
        <3> QED BY <1>3, <3>1, <3>2 DEF Kept
     <2> QED BY <2>1, <2>2
  <1> QED BY <1>0, <1>7, <1>8, <1>9 DEF Good, Exact

LEMMA CloneCounted ==
  ASSUME OwnerInv, OwnerInv', Counted, NEW t \in User, NEW h \in Handle, SafeClone(t, h)
  PROVE  Counted'
  <1>1. PICK g \in Handle : g = NewHandle /\ cnv[g] = NoConverter
     BY HandleIsNew DEF SafeClone
  <1>2. PICK q \in Seq(Copy) : q = cnv[h].uses
     BY ConverterTypes
  <1>3. /\ cnv' = [cnv EXCEPT ![g] = cnv[h]]
        /\ data' = [c \in Copy |-> [data[c] EXCEPT !.refs = @ + Cardinality(Within(q, c))]]
        /\ UNCHANGED <<table, tableOpen, registered>>
     BY <1>1, <1>2 DEF SafeClone, Within
  <1>4. cnv \in [Handle -> Converter] /\ cnv' \in [Handle -> Converter]
     BY DEF OwnerInv, ControlInv
  <1>5. cnv[g].uses = <<>> /\ cnv'[g].uses = q /\ \A k \in Handle \ {g} : cnv'[k].uses = cnv[k].uses
     BY <1>1, <1>2, <1>3, <1>4 DEF NoConverter
  <1>6. PICK need, now : need = NeedOf(cnv) /\ now = NeedOf(cnv')
     OBVIOUS
  <1>7. need \in [Copy -> Nat] /\ now \in [Copy -> Nat]
     BY <1>4, <1>6, NeedType
  <1>8. PICK more \in [Copy -> Nat] : \A c \in Copy : more[c] = Cardinality(Within(q, c))
     <2> DEFINE f == [c \in Copy |-> Cardinality(Within(q, c))]
     <2>1. f \in [Copy -> Nat]
        BY WithinFinite
     <2>2. \A c \in Copy : f[c] = Cardinality(Within(q, c))
        OBVIOUS
     <2> HIDE DEF f
     <2> QED BY <2>1, <2>2
  <1>9. \A c \in Copy : now[c] = need[c] + more[c]
     <2>1. PICK rest \in [Copy -> Nat] : \A c \in Copy :
              /\ NeedOf(cnv)[c] = rest[c] + Cardinality(Within(cnv[g].uses, c))
              /\ NeedOf(cnv')[c] = rest[c] + Cardinality(Within(cnv'[g].uses, c))
        BY <1>4, <1>5, NeedBut
     <2>2. \A c \in Copy : Cardinality(Within(cnv[g].uses, c)) = 0
        BY <1>5, WithinEmpty
     <2>3. \A c \in Copy : rest[c] \in Nat
        OBVIOUS
     <2> QED BY <1>5, <1>6, <1>8, <2>1, <2>2, <2>3
  <1>10. Good(State, need)
     BY <1>6 DEF Counted
  <1>11. ASSUME NEW c \in Copy, more[c] > 0 PROVE On(State, c)
     <2>1. PICK rest \in [Copy -> Nat] : \A d \in Copy :
              /\ NeedOf(cnv)[d] = rest[d] + Cardinality(Within(cnv[h].uses, d))
              /\ NeedOf(cnv)[d] = rest[d] + Cardinality(Within(cnv[h].uses, d))
        BY <1>4, NeedBut
     <2>2. rest[c] \in Nat /\ more[c] \in Nat
        OBVIOUS
     <2>3. need[c] = rest[c] + more[c]
        BY <1>2, <1>6, <1>8, <2>1
     <2>4. need[c] # 0
        BY <1>11, <2>2, <2>3
     <2>5. CopyRight(State, need, c)
        BY <1>10 DEF Good, Exact
     <2> QED BY <2>4, <2>5 DEF CopyRight
  <1>12. /\ State' \in Heaps /\ State'.table = State.table /\ State'.tableOpen = State.tableOpen
         /\ \A c \in Copy : State'.data[c] = [State.data[c] EXCEPT !.refs = @ + more[c]]
     BY <1>3, <1>8 DEF State, OwnerInv, ControlInv
  <1>13. PICK r \in Heaps, s \in Heaps : r = State' /\ s = State
     BY <1>12 DEF OwnerInv, ControlInv
  <1>14. Good(r, now)
     <2>1. Good(s, need) /\ \A c \in Copy : more[c] > 0 => On(s, c)
        BY <1>10, <1>11, <1>13
     <2>2. r.table = s.table /\ r.tableOpen = s.tableOpen
        BY <1>12, <1>13
     <2>3. \A c \in Copy : r.data[c] = [s.data[c] EXCEPT !.refs = @ + more[c]]
        BY <1>12, <1>13
     <2>4. Added(s, need, more, r, now)
        BY <1>7, <1>9, <2>1, <2>2, <2>3 DEF Added
     <2> QED BY <2>1, <2>4, AddAllGood
  <1>15. tableOpen' => registered'
     BY <1>3 DEF Counted
  <1> QED BY <1>6, <1>13, <1>14, <1>15 DEF Counted

-------------------------------------------------------------------------------
(* Flushes, and what goes with the default converter. *)

LEMMA FlushTableCounted ==
  ASSUME OwnerInv, Counted, NEW t \in User, FlushTable(t)
  PROVE  Counted'
  <1>1. UNCHANGED <<registered, cnv>>
     BY DEF FlushTable
  <1>2. PICK need : need = NeedOf(cnv)
     OBVIOUS
  <1>3. NeedOf(cnv') = need
     BY <1>1, <1>2
  <1>4. Good(State, need) /\ (tableOpen => registered)
     BY <1>2 DEF Counted
  <1>5. CASE tableOpen
     <2>1. PICK q \in Orders : Becomes(Flushed(State, q))
        BY <1>5 DEF FlushTable
     <2>2. Good(Flushed(State, q), need)
        BY <1>4, FlushedGood
     <2>3. State' = Flushed(State, q)
        BY <2>1, <2>2, NewState DEF Good, Exact
     <2> QED BY <1>1, <1>3, <1>4, <1>5, <2>2, <2>3 DEF Counted
  <1>6. CASE ~tableOpen
     <2>1. UNCHANGED <<data, table, tableOpen>>
        BY <1>6 DEF FlushTable
     <2>2. State' = State
        BY <2>1 DEF State
     <2> QED BY <1>1, <1>3, <1>4, <2>1, <2>2 DEF Counted
  <1> QED BY <1>5, <1>6

(* The default converter, if there is one, gives back what it has. *)
LEMMA DefaultBack ==
  ASSUME OwnerInv, OwnerInv', Counted, cnv' = IF default = NULL THEN cnv ELSE [cnv EXCEPT ![default] = NoConverter]
  PROVE  Good(CloseNow(State, default), NeedOf(cnv'))
  <1>0. PICK f : f = cnv'
     OBVIOUS
  <1>1. PICK need, now : need = NeedOf(cnv) /\ now = NeedOf(f)
     OBVIOUS
  <1>2. Good(State, need)
     BY <1>1 DEF Counted
  <1>3. CASE default = NULL
     BY <1>0, <1>1, <1>2, <1>3 DEF CloseNow
  <1>4. CASE default # NULL
     <2>1. PICK h \in Handle : h = default
        BY <1>4, ConverterTypes
     <2>2. cnv \in [Handle -> Converter] /\ f \in [Handle -> Converter] /\ f = [cnv EXCEPT ![h] = NoConverter]
        BY <1>0, <1>4, <2>1 DEF OwnerInv, ControlInv
     <2>3. f[h].uses = <<>> /\ \A k \in Handle \ {h} : f[k].uses = cnv[k].uses
        BY <2>2 DEF NoConverter
     <2>4. PICK rest \in [Copy -> Nat] : \A c \in Copy :
              /\ NeedOf(cnv)[c] = rest[c] + Cardinality(Within(cnv[h].uses, c))
              /\ NeedOf(f)[c] = rest[c] + Cardinality(Within(f[h].uses, c))
        BY <2>2, <2>3, NeedBut
     <2>5. PICK q \in Seq(Copy) : q = cnv[h].uses
        BY ConverterTypes
     <2>6. now = rest
        <3>1. \A c \in Copy : rest[c] \in Nat /\ Cardinality(Within(f[h].uses, c)) = 0
           BY <2>3, WithinEmpty
        <3>2. \A c \in Copy : now[c] = rest[c]
           BY <1>1, <2>4, <3>1
        <3>3. now \in [Copy -> Nat]
           BY <1>1, <2>2, NeedType
        <3> QED BY <3>2, <3>3
     <2>7. \A c \in Copy : need[c] = rest[c] + Cardinality(Within(q, c))
        BY <1>1, <2>4, <2>5
     <2>8. Good(CloseNow(State, h), rest)
        BY <1>2, <2>5, <2>7, CloseGood
     <2> QED BY <1>0, <1>1, <2>1, <2>6, <2>8
  <1> QED BY <1>3, <1>4

LEMMA SetNameCounted ==
  ASSUME OwnerInv, OwnerInv', Counted, NEW t \in User, NEW n \in Names, SetDefaultName(t, n)
  PROVE  Counted'
  <1>1. /\ registered' = TRUE /\ Becomes(CloseNow(State, default))
        /\ cnv' = IF default = NULL THEN cnv ELSE [cnv EXCEPT ![default] = NoConverter]
     BY DEF SetDefaultName
  <1>2. Good(CloseNow(State, default), NeedOf(cnv'))
     BY <1>1, DefaultBack
  <1>3. State' = CloseNow(State, default)
     BY <1>1, <1>2, NewState DEF Good, Exact
  <1> QED BY <1>1, <1>2, <1>3 DEF Counted

(* With no owner left there is no converter, and so nothing is needed. *)
LEMMA NoneNeeds ==
  ASSUME NEW f, \A h \in Handle : f[h] = NoConverter
  PROVE  \A c \in Copy : NeedOf(f)[c] = 0
  <1>1. \A c : PlacesOf(f, Handle, c) = {}
     BY DEF PlacesOf, Within, NoConverter
  <1> QED BY <1>1, FS_EmptySet DEF NeedOf

LEMMA CleanupEmpties ==
  ASSUME OwnerInv, OwnerInv', Counted, NEW t \in User, Cleanup(t)
  PROVE  /\ \A c \in Copy : data'[c] = NoData
         /\ \A n \in Data : table'[n] = NULL
         /\ \A h \in Handle : cnv'[h] = NoConverter
         /\ tableOpen' = FALSE
  <1>1. /\ Alone(t) /\ \A u \in User : mine'[u] = {}
        /\ cnv' = IF default = NULL THEN cnv ELSE [cnv EXCEPT ![default] = NoConverter]
        /\ default' = NULL /\ job' = job
     BY DEF Cleanup
  <1>2. ASSUME NEW h \in Handle PROVE cnv'[h] = NoConverter
     <2>1. h # NULL /\ \A u \in User : HoldOf(job'[u]) = NULL
        BY <1>1, AllIdle
     <2>2. ~Owned(h)'
        BY <1>1, <2>1 DEF Owned
     <2>3. OwnedOnce(h)'
        BY DEF OwnerInv, OneOwner, OwnedOnce
     <2> QED BY <2>2, <2>3 DEF OwnedOnce
  <1>3. PICK now : now = NeedOf(cnv')
     OBVIOUS
  <1>4. \A c \in Copy : now[c] = 0
     BY <1>2, <1>3, NoneNeeds
  <1>5. PICK z : z = CloseNow(State, default)
     OBVIOUS
  <1>6. Good(z, now)
     BY <1>1, <1>3, <1>5, DefaultBack
  <1>7. PICK q \in Orders : LET s == Flushed(z, q) IN Becomes([s EXCEPT !.tableOpen = \E n \in Data : s.table[n] # NULL])
     BY <1>5 DEF Cleanup
  <1>8. PICK s : s = Flushed(z, q)
     OBVIOUS
  <1>9. Good(s, now) /\ \A n \in Data : Stays(s, n)
     BY <1>6, <1>8, FlushedGood
  <1>10. (\A c \in Copy : s.data[c] = NoData) /\ \A n \in Data : s.table[n] = NULL
     BY <1>4, <1>9, StaysEmpty
  <1>11. PICK e \in BOOLEAN : e = \E n \in Data : s.table[n] # NULL
     OBVIOUS
  <1>12. Becomes([s EXCEPT !.tableOpen = e])
     BY <1>7, <1>8, <1>11
  <1>13. s \in Heaps
     BY <1>9 DEF Good, Exact
  <1>14. data' = s.data /\ table' = s.table /\ tableOpen' = e
     BY <1>12, <1>13 DEF Becomes, Heaps
  <1> QED BY <1>2, <1>10, <1>11, <1>14

LEMMA CleanupCounted ==
  ASSUME OwnerInv, OwnerInv', Counted, NEW t \in User, Cleanup(t)
  PROVE  Counted'
  <1>1. PICK now : now = NeedOf(cnv')
     OBVIOUS
  <1>2. \A c \in Copy : now[c] = 0
     BY <1>1, CleanupEmpties, NoneNeeds
  <1>3. PICK r : r = State'
     OBVIOUS
  <1>4. r \in Heaps /\ now \in [Copy -> Nat]
     BY <1>1, <1>3, NeedType DEF OwnerInv, ControlInv
  <1>5. (\A c \in Copy : r.data[c] = NoData) /\ \A n \in Data : r.table[n] = NULL
     BY <1>3, CleanupEmpties DEF State
  <1>6. \A c \in Copy : ~On(r, c)
     BY <1>5 DEF On, NoData
  <1>7. TableRight(r)
     BY <1>5 DEF TableRight
  <1>8. \A c : Built(r, c) = {}
     BY <1>6 DEF Built
  <1>9. \A c \in Copy : CopyRight(r, now, c) /\ Kept(r, c)
     BY <1>2, <1>5, <1>6, <1>8 DEF CopyRight, Kept
  <1>10. Good(r, now)
     BY <1>4, <1>7, <1>9 DEF Good, Exact
  <1>11. tableOpen' = FALSE
     BY CleanupEmpties
  <1> QED BY <1>1, <1>3, <1>10, <1>11 DEF Counted

-------------------------------------------------------------------------------
LEMMA CountedInit == ConverterInit => Counted
  <1> SUFFICES ASSUME ConverterInit PROVE Counted
     OBVIOUS
  <1>1. PICK s, need : s = State /\ need = NeedOf(cnv)
     OBVIOUS
  <1>2. OwnerInv
     BY OwnerInit
  <1>3. s \in Heaps /\ need \in [Copy -> Nat]
     BY <1>1, <1>2, NeedType DEF OwnerInv, ControlInv
  <1>4. \A h \in Handle : cnv[h] = NoConverter
     BY DEF ConverterInit
  <1>5. \A c \in Copy : need[c] = 0
     BY <1>1, <1>4, NoneNeeds
  <1>6. (\A c \in Copy : s.data[c] = NoData) /\ \A n \in Data : s.table[n] = NULL
     BY <1>1 DEF ConverterInit, State
  <1>7. \A c \in Copy : ~On(s, c)
     BY <1>6 DEF On, NoData
  <1>8. \A c : Built(s, c) = {}
     BY <1>7 DEF Built
  <1>9. TableRight(s) /\ \A c \in Copy : CopyRight(s, need, c) /\ Kept(s, c)
     BY <1>5, <1>6, <1>7, <1>8 DEF TableRight, CopyRight, Kept
  <1>10. Good(s, need)
     BY <1>3, <1>9 DEF Good, Exact
  <1>11. tableOpen = FALSE
     BY DEF ConverterInit
  <1> QED BY <1>1, <1>10, <1>11 DEF Counted

LEMMA CountedInductive ==
  ASSUME OwnerInv, OwnerInv', Counted, [ConverterNext]_converterVars
  PROVE  Counted'
  <1>1. CASE UNCHANGED converterVars
     BY <1>1 DEF converterVars, cacheVars, Counted, State
  <1>2. ASSUME NEW t \in User, ConverterStep(t) PROVE Counted'
     BY <1>2, LoadCounted, QuietCounted, UnloadCounted, FlushTableCounted DEF ConverterStep
  <1>3. ASSUME NEW t \in User, ConverterCall(t) PROVE Counted'
     BY <1>3, QuietCounted, CloneCounted, SetNameCounted, CleanupCounted DEF ConverterCall
  <1> QED BY <1>1, <1>2, <1>3 DEF ConverterNext

LEMMA CountedAlways == ConverterSpec => [](OwnerInv /\ Counted)
  <1>1. ConverterInit => OwnerInv /\ Counted
     BY OwnerInit, CountedInit
  <1>2. OwnerInv /\ Counted /\ [ConverterNext]_converterVars => (OwnerInv /\ Counted)'
     BY OwnerInductive, CountedInductive
  <1> QED BY <1>1, <1>2, PTL DEF ConverterSpec

(* Shared converter data are counted exactly, freed when they should be and  *)
(* never while a converter, an extension or the table refers to them, and    *)
(* found by a later u_cleanup (ucnv_bld.cpp).                                *)
THEOREM DataInvAlways == ConverterSpec => []DataInv
  <1>1. OwnerInv /\ Counted => DataInv
     <2> SUFFICES ASSUME OwnerInv, Counted PROVE DataInv
        OBVIOUS
     <2>1. PICK s, need : s = State /\ need = NeedOf(cnv)
        OBVIOUS
     <2>2. s.data = data /\ s.table = table /\ s.tableOpen = tableOpen
        BY <2>1, StateFields
     <2>3. Good(s, need) /\ (tableOpen => registered)
        BY <2>1 DEF Counted
     <2>4. s \in Heaps /\ TableRight(s) /\ NULL \notin Copy
        BY <2>3 DEF Good, Exact, NULL, Copy
     <2>5. ASSUME NEW c \in Copy
           PROVE  /\ CopyRight(s, need, c) /\ Kept(s, c)
                  /\ Allocated(c) <=> On(s, c)
        BY <2>2, <2>3 DEF Good, Exact, Allocated, On
     <2>6. ConverterTypeOK
        <3>1. ASSUME NEW c \in Copy
              PROVE  data[c] = NoData \/ data[c] \in
                       [name : Data, refs : Nat, cached : BOOLEAN, base : Copy \cup {NULL}]
           <4>1. CASE ~On(s, c)
              BY <2>2, <2>5, <4>1 DEF CopyRight
           <4>2. CASE On(s, c)
              <5>1. s.data[c].name \in Data /\ s.data[c].refs >= 0
                 BY <2>5, <4>2 DEF CopyRight, On
              <5>2. s.data[c] \in Datum
                 BY <2>4 DEF Heaps
              <5> QED BY <2>2, <5>1, <5>2 DEF Datum
           <4> QED BY <4>1, <4>2
        <3>2. table \in [Data -> Copy \cup {NULL}] /\ tableOpen \in BOOLEAN
           BY <2>2, <2>4 DEF Heaps
        <3>3. ASSUME NEW h \in Handle
              PROVE  cnv[h] = NoConverter \/ (cnv[h].name \in Names /\ cnv[h].uses \in Seq(Copy))
           BY DEF OwnerInv, ControlInv, Converter
        <3> QED BY <3>1, <3>2, <3>3 DEF ConverterTypeOK, OwnerInv, ControlInv
     <2>7. DataRefsExact
        <3>1. ASSUME NEW c \in Copy, Allocated(c)
              PROVE  /\ data[c].refs = Uses(c) + Cardinality({d \in Copy : Allocated(d) /\ data[d].base = c})
                     /\ data[c].refs = 0 => data[c].cached
           <4>1. Built(s, c) = {d \in Copy : Allocated(d) /\ data[d].base = c}
              BY <2>2, <2>5 DEF Built
           <4>2. need[c] = Uses(c)
              <5>1. PlacesOf(cnv, Handle, c) = Places(c)
                 BY DEF PlacesOf, Places, Within
              <5> QED BY <2>1, <5>1 DEF NeedOf, Uses
           <4>3. s.data[c].refs = need[c] + Cardinality(Built(s, c)) /\ (s.data[c].refs = 0 => s.data[c].cached = TRUE)
              BY <2>5, <3>1 DEF CopyRight, Kept
           <4> QED BY <2>2, <4>1, <4>2, <4>3
        <3> QED BY <3>1 DEF DataRefsExact
     <2>8. NoDanglingData
        <3>1. ASSUME NEW h \in Handle, NEW i \in DOMAIN cnv[h].uses PROVE Allocated(cnv[h].uses[i])
           <4>1. PICK q \in Seq(Copy) : q = cnv[h].uses
              BY ConverterTypes
           <4>2. PICK c \in Copy : c = q[i]
              BY <3>1, <4>1
           <4>3. i \in Within(q, c)
              BY <3>1, <4>1, <4>2 DEF Within
           <4>4. Cardinality(Within(q, c)) # 0 /\ Cardinality(Within(q, c)) \in Nat
              BY <4>1, <4>3, WithinFinite, FS_EmptySet
           <4>5. PICK rest \in [Copy -> Nat] : \A d \in Copy :
                    /\ NeedOf(cnv)[d] = rest[d] + Cardinality(Within(cnv[h].uses, d))
                    /\ NeedOf(cnv)[d] = rest[d] + Cardinality(Within(cnv[h].uses, d))
              BY ConverterTypes, NeedBut
           <4>6. need[c] = rest[c] + Cardinality(Within(q, c)) /\ rest[c] \in Nat
              BY <2>1, <4>1, <4>5
           <4>7. need[c] # 0
              BY <4>4, <4>6
           <4>8. On(s, c)
              BY <2>5, <4>7 DEF CopyRight
           <4> QED BY <2>5, <4>1, <4>2, <4>8
        <3>2. ASSUME NEW c \in Copy, Allocated(c)
              PROVE  /\ data[c].base = NULL \/ Allocated(data[c].base)
                     /\ data[c].cached <=> table[data[c].name] = c
           <4>1. On(s, c) /\ s.data[c].base \in Copy \cup {NULL} /\ s.data[c].cached \in BOOLEAN
              BY <2>4, <2>5, <3>2, HeapFields
           <4>2. s.data[c].cached = TRUE <=> s.table[s.data[c].name] = c
              BY <2>5, <4>1 DEF CopyRight
           <4>3. ASSUME s.data[c].base # NULL PROVE Allocated(s.data[c].base)
              <5>1. PICK b \in Copy : b = s.data[c].base
                 BY <4>1, <4>3
              <5>2. c \in Built(s, b)
                 BY <4>1, <5>1 DEF Built
              <5>3. On(s, b)
                 BY <2>5, <5>2 DEF CopyRight
              <5> QED BY <2>5, <5>1, <5>3
           <4> QED BY <2>2, <4>1, <4>2, <4>3
        <3>3. ASSUME NEW n \in Data, table[n] # NULL PROVE tableOpen /\ data[table[n]].name = n
           BY <2>2, <2>4, <3>3 DEF TableRight
        <3> QED BY <3>1, <3>2, <3>3 DEF NoDanglingData
     <2>9. CleanupRegistered
        BY <2>3 DEF CleanupRegistered, OwnerInv, NameRegistered
     <2> QED BY <2>6, <2>7, <2>8, <2>9 DEF DataInv
  <1> QED BY <1>1, CountedAlways, PTL

-------------------------------------------------------------------------------
(* What is freed. *)

(* The jobs of the other threads stay as they are. *)
LEMMA OthersStay ==
  ASSUME OwnerInv, NEW u \in User, ConverterStep(u) \/ ConverterCall(u), NEW t \in User, t # u
  PROVE  job'[t] = job[t]
  <1>1. job \in [User -> Jobs] /\ \A x : job' = [job EXCEPT ![u] = x] => job'[t] = job[t]
     BY DEF OwnerInv, ControlInv
  <1>2. CASE Opened(u)
     <2>1. job[u].for \in {"client", "default", "test", "probe"}
        BY <1>2, JobOf, JobKinds DEF Opened, JobAt
     <2> QED BY <1>1, <1>2, <2>1 DEF Opened, ThenClose, Goes
  <1>3. CASE Closed(u)
     <2>1. job[u].for \in {"none", "flush", "probed", "probeFailed"}
        BY <1>3, JobOf, JobKinds DEF Closed, JobAt
     <2> QED BY <1>1, <1>3, <2>1 DEF Closed, Goes
  <1>4. CASE LoadSharedData(u)
     BY <1>1, <1>4 DEF LoadSharedData, ThenClose, Goes
  <1>5. CASE OpenDefault(u) \/ OpenNamed(u)
     <2>1. CASE OpenDefault(u)
        BY <1>1, <2>1 DEF OpenDefault, StartOpen, Goes
     <2>2. CASE OpenNamed(u)
        <3>1. \/ StartOpen(u, defaultAlg, "default", FALSE)
              \/ StartOpen(u, job[u].name, "default", FALSE)
              \/ Goes(u, NoJob)
           BY <2>2 DEF OpenNamed
        <3> QED BY <1>1, <3>1 DEF StartOpen, Goes
     <2> QED BY <1>5, <2>1, <2>2
  <1>6. CASE UnloadSharedData(u)
     BY <1>6 DEF UnloadSharedData
  <1>7. CASE \/ TakeDefault(u) \/ ProbeSetsName(u) \/ ProbeFallsBack(u) \/ ReleaseDefault(u) \/ PutBack(u)
             \/ FlushDefault(u) \/ FlushTable(u) \/ GetDefault(u) \/ FlushCache(u)
     BY <1>1, <1>7 DEF TakeDefault, ProbeSetsName, ProbeFallsBack, ReleaseDefault, PutBack, FlushDefault, FlushTable,
                       GetDefault, FlushCache, ThenClose, Goes
  <1>8. CASE \/ \E h \in Handle : Close(u, h) \/ SafeClone(u, h)
             \/ \E n \in Names : SetDefaultName(u, n)
             \/ SetDefaultNameNull(u) \/ Cleanup(u)
     BY <1>1, <1>8 DEF Close, SafeClone, SetDefaultName, SetDefaultNameNull, Cleanup, ThenClose, Goes
  <1>9. CASE \E n \in Names, pkg \in BOOLEAN, for \in {"client", "test"} : Open(u, n, pkg, for)
     BY <1>1, <1>9 DEF Open, StartOpen, Goes
  <1> QED BY <1>2, <1>3, <1>4, <1>5, <1>6, <1>7, <1>8, <1>9 DEF ConverterStep, ConverterCall

(* Only FlushTable goes on from "flushTable". *)
LEMMA OnlyFlushTable ==
  ASSUME OwnerInv, NEW u \in User, ConverterStep(u) \/ ConverterCall(u), NEW t \in User,
         JobAt(t, "flushTable"), job'[t] = NoJob
  PROVE  FlushTable(t)
  <1>1. job[t].pc = "flushTable" /\ job'[t] # job[t]
     BY DEF JobAt, NoJob
  <1>2. u = t
     BY <1>1, OthersStay
  <1>3. ASSUME ConverterStep(t) PROVE FlushTable(t)
     BY <1>1, <1>3 DEF ConverterStep, JobAt, LoadSharedData, Opened, UnloadSharedData, Closed, TakeDefault, OpenDefault,
                       OpenNamed, ProbeSetsName, ProbeFallsBack, ReleaseDefault, PutBack, FlushDefault
  <1>4. ASSUME ConverterCall(t) PROVE FALSE
     BY <1>1, <1>4 DEF ConverterCall, JobAt, Open, Close, SafeClone, GetDefault, FlushCache, SetDefaultName,
                       SetDefaultNameNull, Cleanup, Alone
  <1> QED BY <1>2, <1>3, <1>4

(* Only Cleanup takes the registration back. *)
LEMMA OnlyCleanup ==
  ASSUME NEW u \in User, ConverterStep(u) \/ ConverterCall(u), registered, ~registered'
  PROVE  Cleanup(u)
  <1>1. ~LoadSharedData(u)
     BY DEF LoadSharedData
  <1>2. ~ProbeSetsName(u) /\ ~ProbeFallsBack(u) /\ \A n \in Names : ~SetDefaultName(u, n)
     BY DEF ProbeSetsName, ProbeFallsBack, ProbeSets, InternalSetName, SetDefaultName
  <1>3. registered' # registered
     OBVIOUS
  <1>4. ASSUME ConverterStep(u) PROVE FALSE
     BY <1>1, <1>2, <1>3, <1>4 DEF ConverterStep, Opened, UnloadSharedData, Closed, TakeDefault, OpenDefault, OpenNamed,
                       ReleaseDefault, PutBack, FlushDefault, FlushTable, cacheVars
  <1>5. ASSUME ConverterCall(u) PROVE Cleanup(u)
     BY <1>2, <1>3, <1>5 DEF ConverterCall, Open, Close, SafeClone, GetDefault, FlushCache, SetDefaultNameNull, cacheVars
  <1> QED BY <1>4, <1>5

LEMMA FlushFrees ==
  ASSUME OwnerInv, Counted, NEW t \in User, FlushTable(t)
  PROVE  \A c \in Copy : data'[c].cached => data'[c].refs > 0
  <1>1. PICK need : need = NeedOf(cnv)
     OBVIOUS
  <1>2. Good(State, need)
     BY <1>1 DEF Counted
  <1>3. CASE tableOpen
     <2>1. PICK q \in Orders : Becomes(Flushed(State, q))
        BY <1>3 DEF FlushTable
     <2>2. PICK s : s = Flushed(State, q)
        OBVIOUS
     <2>3. Good(s, need) /\ \A n \in Data : Stays(s, n)
        BY <1>2, <2>2, FlushedGood
     <2>4. data' = s.data
        BY <2>1, <2>2 DEF Becomes
     <2> QED BY <2>3, <2>4, StaysUsed
  <1>4. CASE ~tableOpen
     <2>1. data' = data
        BY <1>4 DEF FlushTable
     <2>2. PICK s : s = State
        OBVIOUS
     <2>3. s.data = data /\ s.tableOpen = tableOpen
        BY <2>2, StateFields
     <2>4. \A n \in Data : Stays(s, n)
        BY <1>2, <1>4, <2>2, <2>3 DEF Good, Exact, TableRight, Stays
     <2> QED BY <1>2, <2>1, <2>2, <2>3, <2>4, StaysUsed
  <1> QED BY <1>3, <1>4

(* ucnv_flushCache leaves only data that somebody uses in the table, and     *)
(* u_cleanup, with all converters closed, leaves nothing.                    *)
THEOREM ConvertersFreedAlways == ConverterSpec => ConvertersFreed
  <1>1. (OwnerInv /\ Counted) /\ [ConverterNext]_converterVars
          => [FlushLeavesUsed /\ CleanupLeavesNothing]_converterVars
     <2> SUFFICES ASSUME OwnerInv, Counted, ConverterNext PROVE FlushLeavesUsed /\ CleanupLeavesNothing
        OBVIOUS
     <2>1. OwnerInv'
        BY OwnerInductive
     <2>2. PICK u \in User : ConverterStep(u) \/ ConverterCall(u)
        BY DEF ConverterNext
     <2>3. FlushLeavesUsed
        BY <2>2, OnlyFlushTable, FlushFrees DEF FlushLeavesUsed
     <2>4. CleanupLeavesNothing
        <3> SUFFICES ASSUME registered, ~registered'
                     PROVE  /\ \A c \in Copy : data'[c] = NoData
                            /\ \A h \in Handle : cnv'[h] = NoConverter
                            /\ ~tableOpen' /\ default' = NULL
           BY DEF CleanupLeavesNothing
        <3>1. Cleanup(u)
           BY <2>2, OnlyCleanup
        <3>2. /\ \A c \in Copy : data'[c] = NoData
              /\ \A h \in Handle : cnv'[h] = NoConverter
              /\ tableOpen' = FALSE
           BY <2>1, <3>1, CleanupEmpties
        <3>3. default' = NULL
           BY <3>1 DEF Cleanup
        <3> QED BY <3>2, <3>3
     <2> QED BY <2>3, <2>4
  <1> QED BY <1>1, CountedAlways, PTL DEF ConverterSpec, ConvertersFreed

===============================================================================

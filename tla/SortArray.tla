------------------------------- MODULE SortArray -------------------------------
(***************************************************************************)
(* uprv_sortArray (uarrsort.c): insertion sort with a binary search for      *)
(* short or stable sorting, else a quicksort that recurses into the smaller  *)
(* part and goes on with the larger one.  Arrays are sequences of records    *)
(* with a key, which is all the comparator looks at; index i of the code is  *)
(* i + 1 here.                                                              *)
(***************************************************************************)
EXTENDS Integers, SequencesExt

CONSTANT MIN_QSORT   \* 9 in the code; at least 2

-------------------------------------------------------------------------------
(* uprv_stableBinarySearch among the elements [start, limit[ of the sorted   *)
(* array a: [found, at], where at is the last equal element, or else the     *)
(* place to insert.                                                         *)
RECURSIVE LinearSearch(_, _, _, _, _)
LinearSearch(a, key, start, limit, found) ==
  IF start < limit /\ a[start + 1].key <= key
  THEN LinearSearch(a, key, start + 1, limit, found \/ a[start + 1].key = key)
  ELSE [found |-> found, at |-> IF found THEN start - 1 ELSE start]

RECURSIVE Search(_, _, _, _, _)
Search(a, key, start, limit, found) ==
  IF limit - start >= MIN_QSORT
  THEN LET i == (start + limit) \div 2   k == a[i + 1].key IN
       CASE key = k -> Search(a, key, i + 1, limit, TRUE)
         [] key < k -> Search(a, key, start, i, found)
         [] key > k -> Search(a, key, i, limit, found)
  ELSE LinearSearch(a, key, start, limit, found)

stableBinarySearch(a, limit, key) == Search(a, key, 0, limit, FALSE)

(* doInsertionSort of the elements [start, limit[, from the j-th on. *)
RECURSIVE Insert(_, _, _, _)
Insert(a, start, limit, j) ==
  IF j >= limit THEN a
  ELSE LET part == SubSeq(a, start + 1, j)
           s  == stableBinarySearch(part, j - start, a[j + 1].key)
           to == start + (IF s.found THEN s.at + 1 ELSE s.at)
       IN  Insert(SubSeq(a, 1, to) \o <<a[j + 1]>> \o SubSeq(a, to + 1, j)
                    \o SubSeq(a, j + 2, Len(a)), start, limit, j + 1)
doInsertionSort(a, start, limit) == Insert(a, start, limit, start + 1)

(* The inner loop of subQuickSort with pivot x: the scans and the swap. *)
RECURSIVE Upwards(_, _, _), Downwards(_, _, _), Partition(_, _, _, _)
Upwards(a, left, x)    == IF a[left + 1].key < x THEN Upwards(a, left + 1, x) ELSE left
Downwards(a, right, x) == IF x < a[right].key THEN Downwards(a, right - 1, x) ELSE right
Swapped(a, i, j)       == [a EXCEPT ![i + 1] = a[j + 1], ![j + 1] = a[i + 1]]

Partition(a, left, right, x) ==
  LET l == Upwards(a, left, x)   r == Downwards(a, right, x) IN
  IF l >= r THEN [a |-> a, left |-> l, right |-> r]
  ELSE LET b == IF l < r - 1 THEN Swapped(a, l, r - 1) ELSE a IN
       IF l + 1 < r - 1 THEN Partition(b, l + 1, r - 1, x)
       ELSE [a |-> b, left |-> l + 1, right |-> r - 1]

RECURSIVE subQuickSort(_, _, _)
subQuickSort(a, start, limit) ==
  IF start + MIN_QSORT >= limit THEN doInsertionSort(a, start, limit)
  ELSE LET p == Partition(a, start, limit, a[((start + limit) \div 2) + 1].key)
           lower == IF start < p.right - 1 THEN subQuickSort(p.a, start, p.right) ELSE p.a
           upper == IF p.left < limit - 1 THEN subQuickSort(p.a, p.left, limit) ELSE p.a
       IN  IF p.right - start < limit - p.left
           THEN IF p.left < limit - 1 THEN subQuickSort(lower, p.left, limit) ELSE lower
           ELSE IF start < p.right - 1 THEN subQuickSort(upper, start, p.right) ELSE upper

sortArray(a, sortStable) ==
  CASE Len(a) <= 1 -> a
    [] Len(a) > 1 /\ (Len(a) < MIN_QSORT \/ sortStable) -> doInsertionSort(a, 0, Len(a))
    [] OTHER -> subQuickSort(a, 0, Len(a))

-------------------------------------------------------------------------------
(* The result is the same elements (their tags differ) in ascending order;   *)
(* equal elements keep their order if that was asked for.                    *)
IsSortOf(b, a, sortStable) ==
  /\ Len(b) = Len(a) /\ ToSet(b) = ToSet(a)
  /\ \A i, j \in DOMAIN b : i < j => b[i].key <= b[j].key
  /\ sortStable => \A i, j \in DOMAIN b : i < j /\ b[i].key = b[j].key => b[i].tag < b[j].tag
===============================================================================

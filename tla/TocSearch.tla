-------------------------------- MODULE TocSearch -------------------------------
(***************************************************************************)
(* The search for a name in the table of contents of a data package          *)
(* (ucmndata.c): a binary search that does not compare again the prefix      *)
(* which the sought name shares with both ends of what is left.  Names are   *)
(* sequences of positive numbers, with a 0 behind; indexes begin with 0, as  *)
(* in the code, and tables are functions from 0..count - 1.                  *)
(***************************************************************************)
EXTENDS Integers, SequencesExt

-------------------------------------------------------------------------------
(* strcmpAfterPrefix: [cmp, prefix], beginning with the prefix-th character. *)
RECURSIVE strcmpAfterPrefix(_, _, _)
strcmpAfterPrefix(s, t, prefix) ==
  LET c1 == Append(s, 0)[prefix + 1]
      c2 == Append(t, 0)[prefix + 1]
  IN  IF c1 # c2 \/ c1 = 0 THEN [cmp |-> c1 - c2, prefix |-> prefix]
      ELSE strcmpAfterPrefix(s, t, prefix + 1)

Shared(startPrefix, limitPrefix) == Min({startPrefix, limitPrefix})

(* The loop of offsetTOCPrefixBinarySearch and pointerTOCPrefixBinarySearch. *)
RECURSIVE Narrow(_, _, _, _, _, _)
Narrow(s, toc, start, limit, startPrefix, limitPrefix) ==
  IF start >= limit THEN -1
  ELSE LET i == (start + limit) \div 2
           r == strcmpAfterPrefix(s, toc[i], Shared(startPrefix, limitPrefix))
       IN  CASE r.cmp < 0 -> Narrow(s, toc, start, i, startPrefix, r.prefix)
             [] r.cmp = 0 -> i
             [] r.cmp > 0 -> Narrow(s, toc, i + 1, limit, r.prefix, limitPrefix)

TOCPrefixBinarySearch(s, toc, count) ==
  IF count = 0 THEN -1
  ELSE LET first == strcmpAfterPrefix(s, toc[0], 0)
           last  == strcmpAfterPrefix(s, toc[count - 1], 0)
       IN  CASE first.cmp = 0 -> 0
             [] first.cmp # 0 /\ last.cmp = 0 -> count - 1
             [] OTHER -> Narrow(s, toc, 1, count - 1, first.prefix, last.prefix)

-------------------------------------------------------------------------------
(* A name is found at its place exactly when the table has it. *)
FoundWhereItIs(i, s, toc, count) ==
  IF \E j \in 0..count - 1 : toc[j] = s THEN i \in 0..count - 1 /\ toc[i] = s ELSE i = -1
===============================================================================

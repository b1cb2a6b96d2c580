----------------------------- MODULE CodePointOrder -----------------------------
(***************************************************************************)
(* uprv_strCompare (ustring.cpp): compares UTF-16 strings by code point      *)
(* without decoding them, by fixing up the first code units that differ.     *)
(* Unit i of the code is s[i + 1] here; a string that ends with NUL has the  *)
(* NUL in the sequence.  A read past the end has no value.                   *)
(***************************************************************************)
EXTENDS Integers, SequencesExt

IsLead(u)  == u \in 55296..56319     \* U16_IS_LEAD: 0xd800..0xdbff
IsTrail(u) == u \in 56320..57343     \* U16_IS_TRAIL: 0xdc00..0xdfff
NoLimit == -1

-------------------------------------------------------------------------------
(* Mutant: a trail unit is part of a pair whatever comes before it. *)
FixUpLoose(s, i, limit) ==
  LET c == s[i + 1] IN
  IF \/ IsLead(c) /\ i + 1 # limit /\ IsTrail(s[i + 2])
     \/ IsTrail(c)
  THEN c ELSE c - 10240

(* The unit at i as it compares in code point order: a unit that is not part *)
(* of a surrogate pair moves below all that are (0x2800 down).               *)
FixUp(s, i, limit) ==
  LET c == s[i + 1] IN
  IF \/ IsLead(c) /\ i + 1 # limit /\ IsTrail(s[i + 2])
     \/ IsTrail(c) /\ i # 0 /\ IsLead(s[i])
  THEN c ELSE c - 10240

(* Both units differ at i: the result of the comparison. *)
Differ(s, t, i, limitS, limitT, codePointOrder) ==
  IF s[i + 1] >= 55296 /\ t[i + 1] >= 55296 /\ codePointOrder
  THEN FixUp(s, i, limitS) - FixUp(t, i, limitT)
  ELSE s[i + 1] - t[i + 1]

(* strcmp style: both end with NUL. *)
RECURSIVE CompareNul(_, _, _, _)
CompareNul(s, t, i, order) ==
  IF s[i + 1] # t[i + 1] THEN Differ(s, t, i, NoLimit, NoLimit, order)
  ELSE IF s[i + 1] = 0 THEN 0 ELSE CompareNul(s, t, i + 1, order)

(* strncmp style: at most n units, or up to a NUL. *)
RECURSIVE CompareN(_, _, _, _, _)
CompareN(s, t, i, n, order) ==
  IF i = n THEN 0
  ELSE IF s[i + 1] # t[i + 1] THEN Differ(s, t, i, n, n, order)
  ELSE IF s[i + 1] = 0 THEN 0 ELSE CompareN(s, t, i + 1, n, order)

(* memcmp style: both lengths are given. *)
RECURSIVE CompareMem(_, _, _, _)
CompareMem(s, t, i, order) ==
  IF i = Min({Len(s), Len(t)}) THEN Len(s) - Len(t)   \* the code: its sign
  ELSE IF s[i + 1] # t[i + 1] THEN Differ(s, t, i, Len(s), Len(t), order)
  ELSE CompareMem(s, t, i + 1, order)

uprv_strCompare(style, s, t, n, order) ==
  CASE style = "strcmp"  -> CompareNul(Append(s, 0), Append(t, 0), 0, order)
    [] style = "strncmp" -> CompareN(Append(s, 0), Append(t, 0), 0, n, order)
    [] style = "memcmp"  -> CompareMem(s, t, 0, order)

-------------------------------------------------------------------------------
(* The reference: decode, then compare.  (x - y) below has the right sign.   *)
RECURSIVE CodePoints(_), Lexical(_, _)
CodePoints(s) ==
  IF s = <<>> THEN <<>>
  ELSE IF Len(s) > 1 /\ IsLead(s[1]) /\ IsTrail(s[2])
  THEN <<65536 + (s[1] - 55296) * 1024 + (s[2] - 56320)>> \o CodePoints(SubSeq(s, 3, Len(s)))
  ELSE <<s[1]>> \o CodePoints(Tail(s))
Lexical(x, y) ==
  IF x = <<>> \/ y = <<>> THEN Len(x) - Len(y)
  ELSE IF x[1] # y[1] THEN x[1] - y[1] ELSE Lexical(Tail(x), Tail(y))
SameSign(d, e) == (d < 0 <=> e < 0) /\ (d > 0 <=> e > 0)

Prefix(s, n) == SubSeq(s, 1, Min({n, Len(s)}))
(* uprv_strCompare orders strings as their code points do, or as their units *)
(* do, in each style, also when they hold unpaired surrogates and when n     *)
(* cuts a pair.                                                              *)
OrdersLike(result, style, s, t, n, order) ==
  LET x == IF style = "strncmp" THEN Prefix(s, n) ELSE s
      y == IF style = "strncmp" THEN Prefix(t, n) ELSE t
  IN  SameSign(result, IF order THEN Lexical(CodePoints(x), CodePoints(y)) ELSE Lexical(x, y))
===============================================================================

-------------------------------- MODULE Punycode --------------------------------
(***************************************************************************)
(* Punycode (punycode.cpp), which domain names with other than ASCII letters *)
(* travel as.  Text is a sequence of UTF-16 units with a flag for upper case *)
(* (the caseFlags); encoded text is a sequence of ASCII codes.  The buffers  *)
(* are large enough; unit i of the code is element i + 1 here.               *)
(***************************************************************************)
EXTENDS Integers, SequencesExt

CONSTANT MAX_CP_COUNT   \* 200 in the code

BASE == 36
TMIN == 1
TMAX == 26
SKEW == 38
DAMP == 700
INITIAL_BIAS == 72
INITIAL_N == 128
DELIMITER == 45
MaxInt == 2147483647
EncodeError == <<-1>>
DecodeError == <<[unit |-> -1, upper |-> FALSE]>>

IS_BASIC(c) == c < 128
IsLead(u)   == u \in 55296..56319
IsTrail(u)  == u \in 56320..57343
Capital(c)  == c \in 65..90
Small(c)    == c \in 97..122

-------------------------------------------------------------------------------
digitToBasic(digit, uppercase) ==
  IF digit < 26 THEN digit + (IF uppercase THEN 65 ELSE 97) ELSE digit + 22
(* An index of the table is a byte; what is above it in a unit is lost. *)
basicToDigit(c) ==
  LET b == c % 256 IN
  CASE b \in 48..57 -> b - 22 [] Capital(b) -> b - 65 [] Small(b) -> b - 97 [] OTHER -> -1
asciiCaseMap(c, uppercase) ==
  CASE uppercase /\ Small(c) -> c - 32 [] ~uppercase /\ Capital(c) -> c + 32 [] OTHER -> c

(* adaptBias; its loop divides until delta is small. *)
RECURSIVE Reduced(_, _)
Reduced(delta, count) ==
  IF delta > ((BASE - TMIN) * TMAX) \div 2 THEN Reduced(delta \div (BASE - TMIN), count + BASE)
  ELSE count + ((BASE - TMIN + 1) * delta) \div (delta + SKEW)
adaptBias(delta, length, firstTime) ==
  LET d == IF firstTime THEN delta \div DAMP ELSE delta \div 2
  IN  Reduced(d + d \div length, 0)

Threshold(k, bias) ==
  CASE k - bias < TMIN -> TMIN
    [] k - bias >= TMIN /\ k >= bias + TMAX -> TMAX
    [] OTHER -> k - bias

-------------------------------------------------------------------------------
(* u_strToPunycode.  cpBuffer has 0 for a basic code point. *)
RECURSIVE CpBuffer(_)
CpBuffer(src) ==
  IF src = <<>> THEN <<>>
  ELSE LET c == src[1] IN
       CASE IS_BASIC(c.unit) -> <<[cp |-> 0, upper |-> FALSE]>> \o CpBuffer(Tail(src))
         [] IsLead(c.unit) -> <<[cp |-> 65536 + (c.unit - 55296) * 1024 + (src[2].unit - 56320),
                                 upper |-> c.upper]>> \o CpBuffer(SubSeq(src, 3, Len(src)))
         [] OTHER -> <<[cp |-> c.unit, upper |-> c.upper]>> \o CpBuffer(Tail(src))

Matched(src) ==
  \A j \in DOMAIN src :
    /\ IsLead(src[j].unit)  => j < Len(src) /\ IsTrail(src[j + 1].unit)
    /\ IsTrail(src[j].unit) => j > 1 /\ IsLead(src[j - 1].unit)

RECURSIVE VariableLength(_, _, _, _)
VariableLength(q, k, bias, upper) ==
  LET t == Threshold(k, bias) IN
  IF q < t THEN <<digitToBasic(q, upper)>>
  ELSE <<digitToBasic(t + ((q - t) % (BASE - t)), FALSE)>>
         \o VariableLength((q - t) \div (BASE - t), k + BASE, bias, upper)

(* The main loop; s has the delta, the bias, handledCPCount and the output. *)
RECURSIVE EncodeFrom(_, _, _, _)
EncodeFrom(cps, n, basicLength, s) ==
  IF s.handled = Len(cps) THEN s.out
  ELSE LET m == Min({cps[j].cp : j \in {i \in DOMAIN cps : cps[i].cp >= n}})
           Visit(r, c) ==
             CASE c.cp < m -> [r EXCEPT !.delta = @ + 1]
               [] c.cp = m -> [delta |-> 0, handled |-> r.handled + 1,
                               bias |-> adaptBias(r.delta, r.handled + 1, r.handled = basicLength),
                               out |-> r.out \o VariableLength(r.delta, BASE, r.bias, c.upper)]
               [] OTHER -> r
           visited == FoldLeft(Visit, [s EXCEPT !.delta = @ + (m - n) * (s.handled + 1)], cps)
       IN  IF m - n > (MaxInt - MAX_CP_COUNT - s.delta) \div (s.handled + 1) THEN EncodeError
           ELSE EncodeFrom(cps, m + 1, basicLength, [visited EXCEPT !.delta = @ + 1])

u_strToPunycode(src) ==
  IF ~Matched(src) \/ Len(CpBuffer(src)) > MAX_CP_COUNT THEN EncodeError
  ELSE LET basic == SelectSeq(src, LAMBDA c : IS_BASIC(c.unit))
           mapped == [j \in DOMAIN basic |-> asciiCaseMap(basic[j].unit, basic[j].upper)]
           start == IF basic = <<>> THEN <<>> ELSE Append(mapped, DELIMITER)
       IN  EncodeFrom(CpBuffer(src), INITIAL_N, Len(basic),
                      [delta |-> 0, bias |-> INITIAL_BIAS, handled |-> Len(basic), out |-> start])

-------------------------------------------------------------------------------
(* u_strFromPunycode.  One variable-length integer is added to i: the result *)
(* is [i, in] after it, or NoInteger.                                        *)
NoInteger == [i |-> -1, in |-> -1]
RECURSIVE AddInteger(_, _, _, _, _, _)
AddInteger(src, in, i, w, k, bias) ==
  LET digit == basicToDigit(src[in + 1])
      t == Threshold(k, bias)
  IN
  IF in >= Len(src) THEN NoInteger
  ELSE IF digit < 0 \/ digit > (MaxInt - i) \div w THEN NoInteger
  ELSE IF digit < t THEN [i |-> i + digit * w, in |-> in + 1]
  ELSE IF w > MaxInt \div (BASE - t) THEN NoInteger
  ELSE AddInteger(src, in + 1, i + digit * w, w * (BASE - t), k + BASE, bias)

(* U16_FWD_N: the index of the unit n code points after index at. *)
RECURSIVE Forward(_, _, _)
Forward(dest, at, n) ==
  IF n = 0 \/ at >= Len(dest) THEN at
  ELSE IF IsLead(dest[at + 1].unit) /\ at + 1 < Len(dest) /\ IsTrail(dest[at + 2].unit)
       THEN Forward(dest, at + 2, n - 1) ELSE Forward(dest, at + 1, n - 1)

UnitsOf(n, upper) ==
  IF n < 65536 THEN <<[unit |-> n, upper |-> upper]>>
  ELSE <<[unit |-> 55296 + (n - 65536) \div 1024, upper |-> upper],
         [unit |-> 56320 + ((n - 65536) % 1024),  upper |-> FALSE]>>

(* Mutant: supplementary characters before the place are not looked for. *)
PlaceAsIs(dest, i, first) == i
(* The unit index of code point index i; first is firstSupplementaryIndex. *)
Place(dest, i, first) == IF i <= first THEN i ELSE Forward(dest, first, i - first)

(* The main loop; s has in, n, i, bias, the code points so far (cps), the    *)
(* index of the first supplementary one and the output.                      *)
RECURSIVE DecodeFrom(_, _)
DecodeFrom(src, s) ==
  IF s.in >= Len(src) THEN s.out
  ELSE LET r == AddInteger(src, s.in, s.i, 1, BASE, s.bias)
           cps == s.cps + 1
           n == s.n + r.i \div cps
           i == r.i % cps
           at == Place(s.out, i, s.first)
           units == UnitsOf(n, Capital(src[r.in]))
           first == IF i <= s.first THEN IF Len(units) > 1 THEN at ELSE s.first + 1 ELSE s.first
       IN  IF \/ r = NoInteger
              \/ r.i \div cps > MaxInt - s.n
              \/ n > 1114111 \/ IsLead(n) \/ IsTrail(n)
           THEN DecodeError
           ELSE DecodeFrom(src,
                  [in |-> r.in, n |-> n, i |-> i + 1, cps |-> cps, first |-> first,
                   bias |-> adaptBias(r.i - s.i, cps, s.i = 0),
                   out |-> SubSeq(s.out, 1, at) \o units \o SubSeq(s.out, at + 1, Len(s.out))])

u_strFromPunycode(src) ==
  LET b == Max({0} \cup {j \in 0..Len(src) - 1 : src[j + 1] = DELIMITER})
      basic == SubSeq(src, 1, b)
  IN  IF \E c \in ToSet(basic) : ~IS_BASIC(c) THEN DecodeError
      ELSE DecodeFrom(src, [in |-> IF b > 0 THEN b + 1 ELSE 0, n |-> INITIAL_N, i |-> 0,
                            bias |-> INITIAL_BIAS, cps |-> b, first |-> 1000000000,
                            out |-> [j \in 1..b |-> [unit |-> basic[j], upper |-> Capital(basic[j])]]])

-------------------------------------------------------------------------------
(* What comes back from a text: its units, with the case in letters and in   *)
(* flags, where there is one to keep.                                        *)
Returned(src) ==
  [j \in DOMAIN src |->
     LET c == src[j]   u == asciiCaseMap(c.unit, c.upper) IN
     IF IS_BASIC(c.unit) THEN [unit |-> u, upper |-> Capital(u)]
     ELSE [c EXCEPT !.upper = @ /\ ~IsTrail(c.unit)]]

(* Encoding fails on unmatched surrogates and on too many code points only,  *)
(* and otherwise decoding gives the text back.                               *)
ComesBack(encoded, src) ==
  IF ~Matched(src) \/ Len(CpBuffer(src)) > MAX_CP_COUNT THEN encoded = EncodeError
  ELSE encoded # EncodeError /\ u_strFromPunycode(encoded) = Returned(src)

(* ASCII text that decodes at all is the encoding of what it decodes to: no   *)
(* two encodings stand for the same name.  Case aside, which decoding turns   *)
(* into flags of the whole code point.                                        *)
Lower(src) == [j \in DOMAIN src |-> asciiCaseMap(src[j], FALSE)]
IsCanonical(decoded, src) ==
  /\ \A c \in ToSet(src) : IS_BASIC(c)
  /\ decoded # DecodeError /\ Len(CpBuffer(decoded)) <= MAX_CP_COUNT
  => Lower(u_strToPunycode(decoded)) = Lower(src)

(* What is not a letter or a digit of ASCII after the last delimiter is an   *)
(* error.                                                                    *)
FailsOnOthers(decoded, src) ==
  LET last == Max({0} \cup {j \in DOMAIN src : src[j] = DELIMITER})
  IN  (\E j \in DOMAIN src : j > last /\ ~(src[j] \in 48..57 \/ Capital(src[j]) \/ Small(src[j])))
        => decoded = DecodeError
===============================================================================

------------------------------ MODULE MCAlgorithms ------------------------------
(* Sequential code, one part at a time: the command line on its way to the   *)
(* running program; ICU's hash table, set of code points and reordering      *)
(* buffer under any sequence of calls; and ICU functions on all inputs up to *)
(* a size (a job and its result).                                            *)
EXTENDS CommandLine, Integers

CONSTANTS SortLength, NameLength, TableLength, StringLength, CodeLength

VARIABLES part, job, result,
          elements, count, primeIndex, contents, keyObjects, leaked, broken,
          list, bogus, members,
          buf, fixed, appended

tableVars  == <<elements, count, primeIndex, contents, keyObjects, leaked, broken>>
listVars   == <<list, bogus, members>>
bufferVars == <<buf, fixed, appended>>

(* In the small table all keys begin at one slot and "a" goes the other way; *)
(* in the next one "a" and "c" begin at one slot.                            *)
Table == INSTANCE HashTable WITH
           Key <- {"a", "b", "c"}, Copy <- {1, 2}, HashCode <- [a |-> 0, b |-> 3, c |-> 15, d |-> 1],
           Value <- {1, 2}, PRIMES <- <<3, 5>>, HighPercent <- 50
List == INSTANCE InversionList WITH HIGH <- 6
(* A base letter, a mark of class 1, two of class 220, and two characters of *)
(* two units, one of them a mark.                                            *)
Buffer == INSTANCE ReorderingBuffer WITH
            Char <- {"a", "o", "b", "B", "S", "T"}, Supplementary <- {"S", "T"},
            CC <- [a |-> 0, o |-> 1, b |-> 220, B |-> 220, S |-> 230, T |-> 0],
            Text <- {<<"a", "b">>, <<"b", "S">>, <<"S", "a">>, <<"T", "B">>, <<"o", "S">>,
                     <<"b", "a", "B">>, <<"a", "b", "a">>},
            MinCapacity <- 2, MaxLength <- 4, MaxCapacity <- 6
Sort  == INSTANCE SortArray WITH MIN_QSORT <- 3
Order == INSTANCE CodePointOrder
Toc   == INSTANCE TocSearch
Code  == INSTANCE Punycode WITH MAX_CP_COUNT <- 4

-------------------------------------------------------------------------------
Arrays == {[i \in DOMAIN s |-> [key |-> s[i], tag |-> i]] : s \in SeqOf(1..3, SortLength)}
SortJobs == [f : {"sort"}, a : Arrays, stable : BOOLEAN]

CodeUnit == {97, 55296, 56320, 57344}   \* a letter, a lead, a trail, one above them
Strings == SeqOf(CodeUnit, StringLength)
OrderJobs ==
  [f : {"order"}, s : Strings, t : Strings, order : BOOLEAN, style : {"strcmp", "memcmp"}, n : {0}]
    \cup [f : {"order"}, s : Strings, t : Strings, order : BOOLEAN,
          style : {"strncmp"}, n : 1..StringLength]

Names == SeqOf(1..2, NameLength) \ {<<>>}
Tables == {T \in SUBSET Names : Cardinality(T) <= TableLength}
(* The names of T in order; a 0 ends each, so that a prefix comes first. *)
Before(s, t) == \/ Len(s) < Len(t) /\ s = SubSeq(t, 1, Len(s))
                \/ \E i \in DOMAIN s : /\ i <= Len(t) /\ s[i] < t[i]
                                       /\ SubSeq(s, 1, i - 1) = SubSeq(t, 1, i - 1)
Sorted(T) == [i \in 0..Cardinality(T) - 1 |->
                CHOOSE s \in T : Cardinality({t \in T : Before(t, s)}) = i]
TocJobs == [f : {"toc"}, s : Names, names : Tables]

(* Lower and upper case, the delimiter, the first and the last code points   *)
(* of one unit, leads and trails; and longer texts with many pairs.          *)
Labels == SeqOf([unit : {97, 45, 128, 65535, 55296, 56320}, upper : BOOLEAN], 3)
           \cup SeqOf([unit : {97, 128, 55296, 56320}, upper : {FALSE}], 5)
EncodeJobs == [f : {"encode"}, s : Labels]
(* "a", "b", "B", "z", "-", "0", "9" and U+0161, whose low byte is that of "a". *)
DecodeJobs == [f : {"decode"}, s : SeqOf({97, 98, 66, 122, 45, 48, 57, 353}, CodeLength)]

NoJob == [f |-> "none"]
Done(v) == [done |-> TRUE, value |-> v]
Open == [done |-> FALSE]

Value(j) ==
  CASE j.f = "sort"   -> Sort!sortArray(j.a, j.stable)
    [] j.f = "order"  -> Order!uprv_strCompare(j.style, j.s, j.t, j.n, j.order)
    [] j.f = "toc"    -> Toc!TOCPrefixBinarySearch(j.s, Sorted(j.names), Cardinality(j.names))
    [] j.f = "encode" -> Code!u_strToPunycode(j.s)
    [] j.f = "decode" -> Code!u_strFromPunycode(j.s)

Compute == /\ part = "jobs" /\ ~result.done
           /\ result' = Done(Value(job)) /\ UNCHANGED job

AlgorithmsInit ==
  /\ Init /\ Table!Init /\ List!Init /\ Buffer!Init /\ result = Open
  /\ \/ part = "command line" /\ job = NoJob /\ appended = <<>>
     \/ part = "buffer" /\ job = NoJob /\ args = <<>>
     \/ part \in {"table", "list"} /\ job = NoJob /\ appended = <<>> /\ args = <<>>
     \/ /\ part = "jobs" /\ appended = <<>> /\ args = <<>>
        /\ \/ job \in SortJobs
           \/ job \in OrderJobs
           \/ job \in TocJobs
           \/ job \in EncodeJobs
           \/ job \in DecodeJobs

AlgorithmsNext ==
  /\ UNCHANGED part
  /\ \/ part = "command line" /\ Next /\ UNCHANGED <<job, result, tableVars, listVars, bufferVars>>
     \/ part = "table"  /\ Table!Next  /\ UNCHANGED <<vars, job, result, listVars, bufferVars>>
     \/ part = "list"   /\ List!Next   /\ UNCHANGED <<vars, job, result, tableVars, bufferVars>>
     \/ part = "buffer" /\ Buffer!Next /\ UNCHANGED <<vars, job, result, tableVars, listVars>>
     \/ Compute /\ UNCHANGED <<vars, tableVars, listVars, bufferVars>>

AlgorithmsSpec ==
  AlgorithmsInit /\ [][AlgorithmsNext]_<<vars, part, job, result, tableVars, listVars, bufferVars>>

-------------------------------------------------------------------------------
Finished(f) == job.f = f /\ result.done

(* uhash: the table is the mapping built, is never full, and owns its keys.  *)
TableInv == part = "table" => Table!TableIsMap /\ Table!NeverFull /\ Table!KeysOwned

(* UnicodeSet: the list is the set built. *)
ListIsSet == part = "list" => List!ListIsSet

(* ReorderingBuffer: the text is in canonical order and within its memory,   *)
(* and what is settled stays.                                                *)
BufferInv    == part = "buffer" => Buffer!InCanonicalOrder /\ Buffer!WithinCapacity
SettledStays == Buffer!SettledStays

(* uprv_sortArray sorts, and keeps the order of equal elements if asked to.  *)
Sorts == Finished("sort") => Sort!IsSortOf(result.value, job.a, job.stable)

(* uprv_strCompare orders as code points or as units do.                     *)
Orders == Finished("order") =>
            Order!OrdersLike(result.value, job.style, job.s, job.t, job.n, job.order)

(* The search in a table of contents finds what is there, where it is.       *)
FindsName == Finished("toc") =>
               Toc!FoundWhereItIs(result.value, job.s, Sorted(job.names), Cardinality(job.names))

(* Sorting, comparing and searching give what they promise, on all inputs.  *)
ResultsRight == Sorts /\ Orders /\ FindsName

(* Punycode comes back, and no two encodings stand for the same text.        *)
EncodingIsBijective ==
  /\ Finished("encode") => Code!ComesBack(result.value, job.s)
  /\ Finished("decode") => Code!IsCanonical(result.value, job.s)

(* "U_INVALID_CHAR_FOUND ... if an invalid character (not a-zA-Z0-9) is found *)
(* after the last delimiter" (punycode.h, of u_strFromPunycode).              *)
OtherCharactersFail == Finished("decode") => Code!FailsOnOthers(result.value, job.s)
===============================================================================

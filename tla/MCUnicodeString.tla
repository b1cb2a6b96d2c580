---------------------------- MODULE MCUnicodeString ----------------------------
(* Small strings: a text that needs an array and one that does not. *)
EXTENDS UnicodeString, TLC

Texts == {<<"a", "b">>, <<"c">>}
Symmetry == Permutations(Thread) \cup Permutations(Array)
===============================================================================

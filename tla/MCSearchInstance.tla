--------------------------- MODULE MCSearchInstance ---------------------------
(* Small instances of SearchInstance: the processes are interchangeable. *)
EXTENDS SearchInstance, TLC

Symmetry == Permutations(Proc)
===============================================================================

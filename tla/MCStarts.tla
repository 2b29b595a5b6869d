------------------------------ MODULE MCStarts ------------------------------
(* Small instances of CallStarts.                                          *)
EXTENDS CallStarts, TLC

CONSTANTS c1, c2, c3, p1, p2

(* Calls are told apart by nothing, and neither are processes.             *)
Symmetry == Permutations(CallIds) \cup Permutations(Procs)
==============================================================================

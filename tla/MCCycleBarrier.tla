--------------------------- MODULE MCCycleBarrier ---------------------------
(* Instances of CycleBarrier for TLC. *)
EXTENDS CycleBarrier, TLC
CONSTANTS d1, d2, p1, p2

Symmetry == Permutations(Dispatchers) \cup Permutations(Recorders)
=============================================================================

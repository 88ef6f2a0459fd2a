---------------------------- MODULE MCCollector ----------------------------
(***************************************************************************)
(* Instances of Collector for TLC.                                         *)
(***************************************************************************)
EXTENDS Collector, TLC

Symmetry ==
  Permutations(Obj) \cup Permutations(Tab) \cup Permutations(Ctx \ {Global})
============================================================================

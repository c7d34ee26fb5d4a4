------------------------------- MODULE Tally -------------------------------
(***************************************************************************)
(* The sum of a function of natural numbers, written as the number of unit  *)
(* tokens it stands for: f[a] tokens marked a, for every a.  The definition *)
(* needs no recursion, so facts about sums follow from facts about finite   *)
(* sets (BOBTTokenProofs).                                                  *)
(***************************************************************************)
EXTENDS Naturals, FiniteSets

Units(f) == UNION {{a} \X (1..f[a]) : a \in DOMAIN f}

Total(f) == Cardinality(Units(f))
=============================================================================

------------------------------- MODULE Totals -------------------------------
(***************************************************************************)
(* The sum of the values of a function into the natural numbers, counted:  *)
(* one pair for each unit of each value.  Unlike a fold over the domain    *)
(* this is not recursive, so that DataProofs can reason about it.          *)
(***************************************************************************)
EXTENDS Naturals, FiniteSets

Units(f) == UNION {{x} \X (1..f[x]) : x \in DOMAIN f}

Total(f) == Cardinality(Units(f))
=============================================================================

------------------------------- MODULE Arrays -------------------------------
(***************************************************************************)
(* Array.prototype.filter and sort, by where each element ends up.  Unlike *)
(* SelectSeq and SortSeq this is not recursive, so that DataProofs can     *)
(* reason about it.                                                        *)
(***************************************************************************)
EXTENDS Naturals, Sequences, FiniteSets

\* How many of the positions come no later than i, in an order given as pairs.
Rank(i, positions, before) == Cardinality({j \in positions : <<j, i>> \in before})

Position(k, positions, before) == CHOOSE i \in positions : Rank(i, positions, before) = k

\* The elements of s at the positions, in that order of the positions.
Arranged(s, positions, before) ==
    [k \in 1..Cardinality(positions) |-> s[Position(k, positions, before)]]

\* What a filter leaves keeps its order.
AsTheyAre(positions) == {p \in positions \X positions : p[1] <= p[2]}

Kept(s, positions) == Arranged(s, positions, AsTheyAre(positions))
=============================================================================

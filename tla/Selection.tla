-------------------------------- MODULE Selection --------------------------------
(***************************************************************************)
(* Lists as the Python code makes them: sorted(...) of distinct items and  *)
(* [x for x in items if ...].  Both are said by the rank of an item, the   *)
(* number of those before it, so that the provers can reason about them.   *)
(***************************************************************************)
EXTENDS Naturals, FiniteSets

\* The elements of S that come before x.
Before(S, precedes, x) == {y \in S : <<y, x>> \in precedes}

\* The elements of a finite set in the order of a relation that is a strict total order on it.
InOrder(S, precedes) ==
    [k \in 1..Cardinality(S) |-> CHOOSE x \in S : Cardinality(Before(S, precedes, x)) = k - 1]

Ascending(numbers) == InOrder(numbers, {p \in numbers \X numbers : p[1] < p[2]})

\* The items of s at these positions, in the order of s.
Picked(s, positions) ==
    LET order == Ascending(positions) IN [k \in DOMAIN order |-> s[order[k]]]
================================================================================

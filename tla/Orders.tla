------------------------------- MODULE Orders -------------------------------
(***************************************************************************)
(* Sorting and filtering, by ranks: the k-th element is the one that has    *)
(* k - 1 before it. What SortSeq and SelectSeq compute, in a form that can  *)
(* be reasoned about.                                                       *)
(***************************************************************************)
EXTENDS Integers, Sequences, FiniteSets

\* The elements of S one after the other, x before y if <<x, y>> is in R.
InOrder(S, R) ==
  [k \in 1 .. Cardinality(S) |->
    CHOOSE x \in S : Cardinality({y \in S : <<y, x>> \in R}) = k - 1]

Increasing(numbers) == InOrder(numbers, {p \in numbers \X numbers : p[1] < p[2]})

\* What s has at the places.
Those(s, places) ==
  LET order == Increasing(places)
  IN  [k \in DOMAIN order |-> s[order[k]]]
=============================================================================

------------------------------- MODULE Ordered -------------------------------
(* Walking through what a condition leaves of a listing, in its order.       *)
EXTENDS Naturals, FiniteSets, Sequences

\* The numbers of a set, in ascending order.
InOrder(S) ==
  [k \in 1 .. Cardinality(S) |-> CHOOSE i \in S : Cardinality({j \in S : j <= i}) = k]

\* What a sequence has at those places, in the order it has it.
AtPlaces(s, S) == LET order == InOrder(S) IN [k \in DOMAIN order |-> s[order[k]]]
=============================================================================

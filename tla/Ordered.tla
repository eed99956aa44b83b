------------------------------- MODULE Ordered -------------------------------
(***************************************************************************)
(* The numbers of a set in order, and the places of a sequence that are    *)
(* picked by their position: what the loops "for x in xs: if ...: append"  *)
(* of the code come to.                                                    *)
(***************************************************************************)
EXTENDS Integers, Sequences, FiniteSets

\* the numbers of a set, the least first
InOrder(S) ==
  [k \in 1..Cardinality(S) |-> CHOOSE i \in S : Cardinality({j \in S : j < i}) = k - 1]

\* what s has at these positions
Picked(s, at) == LET order == InOrder(at) IN [k \in DOMAIN order |-> s[order[k]]]
=============================================================================

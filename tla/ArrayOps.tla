------------------------------ MODULE ArrayOps ------------------------------
(* Array.filter, by rank and not by recursion. *)
EXTENDS Naturals, Sequences, FiniteSets

\* The elements of s at the indices in S, in order.
Kept(s, S) ==
  LET Rank(i) == Cardinality({k \in S : k <= i})
  IN  [j \in 1..Cardinality(S) |-> s[CHOOSE i \in S : Rank(i) = j]]
=============================================================================

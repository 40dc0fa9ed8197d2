------------------------------ MODULE Sorting ------------------------------
(***************************************************************************)
(* Distinct numbers in increasing order, as sort.Slice leaves the column   *)
(* ids of a map, and as a ranked search returns its hits.                  *)
(***************************************************************************)
EXTENDS Integers, FiniteSets

\* How many members of S are not above n.
Rank(S, n) == Cardinality({m \in S : m <= n})

Sorted(S) == [i \in 1..Cardinality(S) |-> CHOOSE n \in S : Rank(S, n) = i]
=============================================================================

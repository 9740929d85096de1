------------------------------- MODULE Lists -------------------------------
(***************************************************************************)
(* Lists in the order of their numbers, parts of a list, and sums.         *)
(***************************************************************************)
EXTENDS Integers, Sequences, FiniteSets

\* The members of a finite set of numbers, in order.
Ascending(list) == \A m, n \in DOMAIN list : m < n => list[m] < list[n]
Sorted(set) == CHOOSE list \in [1 .. Cardinality(set) -> set] : Ascending(list)

\* The elements at some of the positions of a list, in their order.
Chosen(list, positions) ==
  LET ks == Sorted(positions) IN [n \in 1 .. Cardinality(positions) |-> list[ks[n]]]

\* The sum of a list of numbers.
SumOf(list) ==
  LET sum[n \in 0 .. Len(list)] == IF n = 0 THEN 0 ELSE sum[n - 1] + list[n]
  IN sum[Len(list)]

=============================================================================

-------------------------------- MODULE Ranks --------------------------------
(***************************************************************************)
(* Listing a finite set of numbers in increasing order, as code does that  *)
(* scans a file or sorts what it collected.                                *)
(***************************************************************************)
EXTENDS Integers, FiniteSets

\* The n-th smallest of a set of numbers.
Nth(S, n) == CHOOSE e \in S : Cardinality({x \in S : x <= e}) = n
=============================================================================

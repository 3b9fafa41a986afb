-------------------------------- MODULE Orders --------------------------------
(* Sets of numbers in order. *)
EXTENDS Naturals, FiniteSets

(* The members of a finite set in ascending order: each where as many are   *)
(* below it as are before it.                                               *)
Ascending(S) ==
  [i \in 1 .. Cardinality(S) |-> CHOOSE s \in S : Cardinality({t \in S : t < s}) = i - 1]
================================================================================

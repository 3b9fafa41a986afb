-------------------------------- MODULE MCTimer --------------------------------
(* Instances of Timer for TLC. *)
EXTENDS Timer

CONSTANTS a, b       (* Characters. *)

(* Names that only a comparison of their characters tells apart; no order of names matters. *)
TwoKeys == {<<a>>, <<b>>}
KeySymmetry == Permutations({a, b})

(* A stop without modes keeps those of the node. *)
DefaultOrTwo == {<< >>, <<"min", "gather">>}

(* Ranks that diverge make fewer calls than ranks that run the same program. *)
FewerIfDiverging == [d \in BOOLEAN |-> IF d THEN 3 ELSE 5]

LeastAndMost == {"light", "heavy_communication"}
================================================================================

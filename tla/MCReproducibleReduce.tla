------------------------ MODULE MCReproducibleReduce ------------------------
(* Instances of ReproducibleReduce for TLC. *)
EXTENDS ReproducibleReduce

Orders == {f \in [Rank -> Rank] : \A r, s \in Rank : f[r] = f[s] => r = s}

(* The counts c over the ranks, with the regions in any order.             *)
Distributions(Counts, message, flush) ==
  {[count |-> c,
    displ |-> [r \in Rank |-> IF c[r] = 0 THEN 0 ELSE
                 MapThenSumSet(LAMBDA s : c[s], {s \in Rank : o[s] < o[r]})],
    message |-> message, flush |-> flush] : c \in Counts, o \in Orders}

(* All distributions of so many elements, with ranks that have none.       *)
AllOf(sizes) ==
  {c \in [Rank -> 0 .. Max(sizes)] : MapThenSumSet(LAMBDA r : c[r], Rank) \in sizes}

(* 34 elements on the first two ranks, so that a rank has subtrees of more *)
(* than 16 elements and more than four results for the other.              *)
Uneven == {[r \in Rank |-> IF r = 0 THEN k ELSE IF r = 1 THEN 34 - k ELSE 0] :
             k \in {1, 17, 33}}

SmallAndReal == Distributions(AllOf(2 .. 5), 2, 4) \cup Distributions(Uneven, 4, 16)

OneElement == Distributions(AllOf({1}), 4, 16)
=============================================================================

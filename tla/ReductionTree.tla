---------------------------- MODULE ReductionTree ----------------------------
(***************************************************************************)
(* The index arithmetic of plugin/reproducible_reduce.hpp: the binary tree *)
(* over the global indices 0 .. n-1 that fixes the order of a reduction.   *)
(* An inner node shares its index with its leftmost leaf; the subtree of   *)
(* index i # 0 covers i .. i + (lowest set bit of i) - 1.                  *)
(***************************************************************************)
EXTENDS Integers, Sequences, FiniteSetsExt

(* Bit positions. The code has 64; eight are enough for 255 indices. *)
Bit == 0 .. 7

(* The lowest set bit of i > 0. *)
LowestBit(i) == 2^(CHOOSE k \in Bit : i % 2^k = 0 /\ i % 2^(k + 1) # 0)

(* i & (i - 1) *)
tree_parent(i) == i - LowestBit(i)

(* (i | (i - 1)) + 1 - i *)
tree_subtree_size(i) == LowestBit(i)

(* floor of the binary logarithm, 0 for 0 *)
log2l(v) == IF v = 0 THEN 0 ELSE CHOOSE k \in Bit : 2^k <= v /\ v < 2^(k + 1)

subtree_height(i) == log2l(tree_subtree_size(i))

(* A plausible mistake, used nowhere: the incomplete top level is lost. *)
tree_height_RoundedDown(n) == log2l(n)

tree_height(n) ==
  IF n = 0 THEN 0 ELSE IF n > 2^log2l(n) THEN log2l(n) + 1 ELSE log2l(n)

(* The subtrees a region [begin, end) contributes to subtrees of others.   *)
tree_rank_intersecting_elements(begin, end) ==
  LET starts[i \in begin .. end] ==
        IF i >= end THEN <<>> ELSE <<i>> \o starts[Min({end, i + tree_subtree_size(i)})]
  IN  IF begin = 0 \/ begin = end THEN <<>> ELSE starts[begin]

-----------------------------------------------------------------------------
(***************************************************************************)
(* The reference: a node at level y over x .. x + 2^y - 1 combines its two *)
(* halves, or passes on the left one if the right one lies beyond the      *)
(* array.  Values are expressions in prefix notation over an operation of  *)
(* which no law is assumed, so that equal values mean equal orders of      *)
(* evaluation.                                                             *)
(***************************************************************************)
Op(left, right) == <<-1>> \o left \o right

TreeValue(n, Leaf(_)) ==
  LET height == tree_height(n)
      node[y \in Nat, x \in Nat] ==
        IF y = 0 THEN Leaf(x)
        ELSE IF x + 2^(y - 1) > n - 1 THEN node[y - 1, x]
        ELSE Op(node[y - 1, x], node[y - 1, x + 2^(y - 1)])
  IN  node[height, 0]
=============================================================================

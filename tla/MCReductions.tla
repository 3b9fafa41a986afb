----------------------------- MODULE MCReductions -----------------------------
(* Instances of Reductions for TLC. *)
EXTENDS Reductions

AllOps == {"reduce", "reduce_single", "allreduce", "allreduce_inplace", "allreduce_single", "scan", "scan_inplace",
           "scan_single", "exscan", "exscan_inplace", "exscan_single"}

(* Buffers that are too small and too large, to be resized or not. *)
SomePolicies == {<<"no_resize", 1>>, <<"no_resize", 3>>, <<"grow_only", 1>>, <<"resize_to_fit", 3>>}

ToFit == {<<"resize_to_fit", 0>>}

JustOmitted == {Omitted}
OmittedOrSome == {Omitted, 1, 2}
================================================================================

----------------------------- MODULE MCCollectives -----------------------------
(* Instances of Collectives for TLC. *)
EXTENDS Collectives

AllOps == {"gather", "gatherv", "allgather", "allgather_inplace", "allgatherv", "scatter", "scatter_single",
           "scatterv", "alltoall", "alltoall_inplace", "alltoallv", "bcast", "bcast_single"}

(* Each policy, with a buffer that is too small and one that is too large. *)
EveryPolicy == {"no_resize", "grow_only", "resize_to_fit"} \X {1, 9}
GivenOrNot == {"omitted", "given"}
Arguments == {"root", "counts", "send_displs", "recv_displs", "amount", "buffer"}
Disagreements == {{}, Arguments, {"buffer"}}
================================================================================

-------------------------- MODULE MCSparseAlltoall --------------------------
(* Instances of SparseAlltoall for TLC. *)
EXTENDS SparseAlltoall, TLC

CONSTANTS a, b

To(dst, size) == [dst |-> dst, size |-> size]

(* Nothing to send; one message; one to each rank, including oneself; two  *)
(* to one destination after an empty one to another.                       *)
Bufs2 == {<<>>, <<To(a, 1)>>, <<To(b, 1), To(a, 1)>>, <<To(a, 0), To(b, 2), To(b, 1)>>}
=============================================================================

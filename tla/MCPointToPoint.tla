---------------------------- MODULE MCPointToPoint ----------------------------
(* Small programs of two or three ranks for TLC. *)
EXTENDS PointToPoint

S(op, mode, to, tag, size) == [op |-> op, mode |-> mode, to |-> to, tag |-> tag, size |-> size]
R(op, source, tag, count, policy) ==
  [op |-> op, source |-> source, tag |-> tag, count |-> count, policy |-> policy, room |-> 1]
Pr(op, source, tag) == [op |-> op, source |-> source, tag |-> tag, count |-> Omitted]
W == [op |-> "wait"]

T(r) == <<r, 0>>
Modes    == {"standard", "buffered", "synchronous"}
Sizing   == {"resize_to_fit", "grow_only"}
AnyRank      == MPI_ANY_SOURCE

Program(a, b) == [t \in {T(0), T(1)} |-> IF t = T(0) THEN a ELSE b]
Gather(a, b, c) == [t \in {T(0), T(1), T(2)} |-> IF t = T(0) THEN a ELSE IF t = T(1) THEN b ELSE c]

(* Two senders of messages of different lengths, received from any source. *)
AnySource ==
  {Gather(<<R(op1, AnyRank, MPI_ANY_TAG, Omitted, p), R(op2, AnyRank, MPI_ANY_TAG, Omitted, p), W>>,
          <<S("send", m, 0, 1, 2)>>, <<S("send", "standard", 0, 2, 0)>>) :
     op1 \in {"recv", "irecv"}, op2 \in {"recv", "irecv", "try_recv"}, p \in Sizing, m \in Modes}

(* One sender of two messages; received by tag in the other order, in order, or as probed. *)
InTurn ==
  {Program(<<R(op, 1, first, Omitted, "grow_only"), R("recv", 1, MPI_ANY_TAG, Omitted, "resize_to_fit"), W>>,
           <<S("isend", m, 0, 1, 2), S("isend", "standard", 0, tag, 0), W>>) :
     op \in {"recv", "irecv", "try_recv"}, first \in {1, MPI_ANY_TAG}, tag \in {1, 2}, m \in Modes}
  \cup
  {Program(<<R(op, 1, 2, Omitted, "grow_only"), R("recv", 1, 1, Omitted, "resize_to_fit"), W>>,
           <<S("isend", m, 0, 1, 2), S("isend", "standard", 0, 2, 3), W>>) :
     op \in {"recv", "irecv", "try_recv"}, m \in Modes}
  \cup
  {Program(<<Pr(op, 1, tag), R(by, FromProbe, FromProbe, FromProbe, "resize_to_fit"),
             R("recv", AnyRank, MPI_ANY_TAG, Omitted, "grow_only"), W>>,
           <<S("isend", "standard", 0, 1, 2), S("isend", "standard", 0, 2, 3), W>>) :
     op \in {"probe", "iprobe"}, by \in {"recv", "irecv"}, tag \in {1, 2, MPI_ANY_TAG}}

(* An exchange in which both ranks start with irecv, with room to spare. *)
Exchange ==
  {Program(<<R("irecv", 1, 1, 3, p), S(op, m, 1, 1, 2), W>>,
           <<R("irecv", 0, 1, 3, p), S(op, m, 0, 1, 3), W>>) :
     p \in Sizing, op \in {"send", "isend"}, m \in Modes}

(* Two threads of a rank that receive by try_recv what two ranks, or one, have sent. *)
Threaded ==
  {[t \in {<<0, 0>>, <<0, 1>>, <<1, 0>>, <<2, 0>>} |->
      CASE t = <<1, 0>> -> <<S("send", m, 0, 1, 2)>>
        [] t = <<2, 0>> -> <<S("send", "standard", 0, 1, 3)>>
        [] OTHER -> <<R("try_recv", AnyRank, tag, Omitted, "resize_to_fit")>>] : m \in Modes, tag \in {1, MPI_ANY_TAG}}
  \cup
  {[t \in {<<0, 0>>, <<0, 1>>, <<1, 0>>} |->
      IF t = <<1, 0>> THEN <<S("send", m, 0, 1, 2), S("send", m, 0, 1, 3)>>
      ELSE <<R("try_recv", 1, 1, Omitted, "grow_only")>>] : m \in Modes}

(* The null rank. *)
Null ==
  {Program(<<S(s, "standard", MPI_PROC_NULL, 1, 2), R(op, MPI_PROC_NULL, MPI_ANY_TAG, n, p), W>>, <<W>>) :
     s \in {"send", "isend"}, op \in {"recv", "irecv"}, n \in {Omitted, 2}, p \in Sizing}
  \cup
  {Program(<<Pr(op, MPI_PROC_NULL, MPI_ANY_TAG), R("try_recv", MPI_PROC_NULL, tag, Omitted, p), W>>, <<W>>) :
     op \in {"probe", "iprobe"}, tag \in {1, MPI_ANY_TAG}, p \in Sizing}

(* A buffer that may not be resized, large enough or not. *)
Fixed ==
  {Program(<<R(op, 1, 1, Omitted, "no_resize")>>, <<S("send", "buffered", 0, 1, n)>>) :
     op \in {"recv", "irecv", "try_recv"}, n \in 1 .. 2}

MCRank == 0 .. 2
MCScripts == AnySource \cup InTurn \cup Exchange \cup Threaded \cup Null \cup Fixed

(* Two threads that receive without recv_count by recv. *)
MCRacing ==
  {[t \in {<<0, 0>>, <<0, 1>>, <<1, 0>>} |->
      IF t = <<1, 0>> THEN <<S("send", "buffered", 0, 1, 2), S("send", "buffered", 0, 1, 3)>>
      ELSE <<R("recv", 1, 1, Omitted, "resize_to_fit")>>]}
================================================================================

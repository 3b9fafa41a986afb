---------------------------- MODULE NamedParameters ----------------------------
(***************************************************************************)
(* The named parameters of a wrapped MPI call: which parameter objects a   *)
(* program can make (named_parameters.hpp), which of them a wrapper takes  *)
(* (named_parameter_check.hpp), how it finds them                          *)
(* (named_parameter_selection.hpp), and which buffers it returns, in which *)
(* order (result.hpp, named_parameter_filtering.hpp).                      *)
(*                                                                         *)
(* A parameter object is [type, mode, owner]. Its storage is an lvalue of  *)
(* the caller ("referencing"), an rvalue moved into it ("moved"), a copy   *)
(* of an argument passed by value ("copied"), or made by the library       *)
(* ("library"). Resize policies are in DataBuffers.                        *)
(***************************************************************************)
EXTENDS Naturals, Sequences, SequencesExt, Orders

Parameters(t, m, owners) == [type : {t}, mode : {m}, owner : owners]

(* Container&& takes lvalues and rvalues; AllocNewT and the factories       *)
(* without an argument let the library allocate.                           *)
Given    == {"referencing", "moved"}
AnyOwner == Given \union {"library"}
NoRvalue == {"referencing", "library"}
ByValue  == {"copied"}

send_buf           == Parameters("send_buf", "in", Given)
send_buf_out       == Parameters("send_buf", "in_out", {"moved"})
send_recv_buf      == Parameters("send_recv_buf", "in_out", AnyOwner)
send_counts        == Parameters("send_counts", "in", Given)
send_counts_out    == Parameters("send_counts", "out", AnyOwner)
send_count         == Parameters("send_count", "in", ByValue)
send_count_out     == Parameters("send_count", "out", NoRvalue)
recv_counts        == Parameters("recv_counts", "in", Given)
recv_counts_out    == Parameters("recv_counts", "out", AnyOwner)
recv_count         == Parameters("recv_count", "in", ByValue)
recv_count_out     == Parameters("recv_count", "out", NoRvalue)
send_recv_count    == Parameters("send_recv_count", "in", ByValue)
send_recv_count_out == Parameters("send_recv_count", "out", NoRvalue)
send_displs        == Parameters("send_displs", "in", Given)
send_displs_out    == Parameters("send_displs", "out", AnyOwner)
recv_displs        == Parameters("recv_displs", "in", Given)
recv_displs_out    == Parameters("recv_displs", "out", AnyOwner)
recv_buf           == Parameters("recv_buf", "out", AnyOwner)
request            == Parameters("request", "out", NoRvalue \union ByValue)
status_out         == Parameters("status", "out", AnyOwner)
send_type          == Parameters("send_type", "in", ByValue)
send_type_out      == Parameters("send_type", "out", NoRvalue)
recv_type          == Parameters("recv_type", "in", ByValue)
recv_type_out      == Parameters("recv_type", "out", NoRvalue)
send_recv_type     == Parameters("send_recv_type", "in", ByValue)
send_recv_type_out == Parameters("send_recv_type", "out", NoRvalue)

AllParameters ==
  UNION {send_buf, send_buf_out, send_recv_buf, send_counts, send_counts_out,
         send_count, send_count_out, recv_counts, recv_counts_out, recv_count,
         recv_count_out, send_recv_count, send_recv_count_out, send_displs,
         send_displs_out, recv_displs, recv_displs_out, recv_buf, request,
         status_out, send_type, send_type_out, recv_type, recv_type_out,
         send_recv_type, send_recv_type_out}

Types == {p.type : p \in AllParameters}

IsOwning(p) == p.owner # "referencing"
IsOut(p) == p.mode \in {"out", "in_out"}

(* A plausible mistake, used nowhere. *)
has_to_be_computed_NotMoved(p) == p.owner # "moved"

has_to_be_computed(p) == IsOut(p) \/ p.owner = "library"

-----------------------------------------------------------------------------
(* The wrappers: the parameters they require and allow, and the buffers     *)
(* they hand to make_mpi_result. Parameters that carry no buffer (op, root, *)
(* tag, source, destination) are left out.                                  *)
Wrapper(req, opt, ret) == [required |-> req, optional |-> opt, returned |-> ret]

allgatherv ==
  Wrapper({"send_buf"},
          {"send_count", "recv_buf", "recv_counts", "recv_displs", "send_type", "recv_type"},
          {"recv_buf", "send_count", "recv_counts", "recv_displs", "send_type", "recv_type"})

alltoallv ==
  Wrapper({"send_buf", "send_counts"},
          {"recv_counts", "recv_buf", "send_displs", "recv_displs", "send_type", "recv_type"},
          {"recv_buf", "recv_counts", "recv_displs", "send_displs", "send_type", "recv_type"})

bcast ==
  Wrapper({},
          {"send_recv_buf", "send_recv_count", "send_recv_type"},
          {"send_recv_buf", "send_recv_count", "send_recv_type"})

probe == Wrapper({}, {"status"}, {"status"})

recv ==
  Wrapper({},
          {"recv_buf", "recv_count", "recv_type", "status"},
          {"recv_buf", "recv_count", "status", "recv_type"})

irecv ==
  Wrapper({},
          {"recv_buf", "recv_count", "recv_type", "request"},
          {"recv_buf", "recv_count", "recv_type", "request"})

isend ==
  Wrapper({"send_buf"},
          {"send_count", "request", "send_type"},
          {"send_buf", "request"})

Wrappers == {allgatherv, alltoallv, bcast, probe, recv, irecv, isend}

TypesOf(ps) == [i \in DOMAIN ps |-> ps[i].type]

(* CHECK_PARAMETERS: what is required is there, nothing else is unused, and *)
(* no type is there twice.                                                  *)
CheckParameters(w, ps) ==
  /\ w.required \subseteq ToSet(TypesOf(ps))
  /\ ToSet(TypesOf(ps)) \subseteq w.required \union w.optional
  /\ IsInjective(TypesOf(ps))

(* find_pos: the first argument of the type, 0 where there is none. *)
find_pos(t, ps) == SelectInSeq(ps, LAMBDA p : p.type = t)

(* A default is made by the library, except a status, which is ignored.     *)
Default(t) == [type |-> t, mode |-> IF t = "status" THEN "ignore" ELSE "out",
               owner |-> IF t = "status" THEN "referencing" ELSE "library"]

select_parameter_type_or_default(t, ps) ==
  IF find_pos(t, ps) = 0 THEN Default(t) ELSE ps[find_pos(t, ps)]

-----------------------------------------------------------------------------
(* What make_mpi_result returns: the value of one buffer, or an object with *)
(* the buffers of these types in this order; "nothing" has none.            *)
RecvTypes == {"recv_buf", "send_recv_buf"}

(* parameter_types_to_ignore_for_result_object, of those modelled. *)
Ignored == {"request"}

Kept(p) == p.type \notin Ignored /\ IsOwning(p) /\ IsOut(p)

(* A plausible mistake, used nowhere. *)
FilterOut_Backwards(ps) == SelectSeq(Reverse(ps), Kept)

(* FilterOut<PredicateForResultObject, CallerProvidedArgs> *)
FilterOut(ps) ==
  LET kept == Ascending({i \in DOMAIN ps : Kept(ps[i])})
  IN  [n \in DOMAIN kept |-> ps[kept[n]]]

OwningOut(ps) == TypesOf(FilterOut(ps))

return_send_buf_out_only(outs) == outs = <<"send_buf">>

return_recv_or_send_recv_buffer_only(outs) ==
  outs = <<>> \/ \E t \in RecvTypes : outs = <<t>>

Returned(kind, types) == [kind |-> kind, types |-> types]
Object(types) == Returned(IF types = <<>> THEN "nothing" ELSE "object", types)

(* The buffers the wrapper passes on are those of the types w.returned. *)
make_mpi_result(w, ps) ==
  LET outs == OwningOut(ps)
      recvs == w.returned \intersect RecvTypes
  IN  IF return_send_buf_out_only(outs) THEN Returned("value", outs)
      ELSE IF recvs = {} THEN Object(outs)
      ELSE LET t == CHOOSE r \in recvs : TRUE
           IN  IF ~IsOwning(select_parameter_type_or_default(t, ps)) THEN Object(outs)
               ELSE IF return_recv_or_send_recv_buffer_only(outs) THEN Returned("value", <<t>>)
               ELSE IF t \in ToSet(outs) THEN Object(outs)
               ELSE Object(<<t>> \o outs)

(* The call compiles: required counts are inputs, and what is to be         *)
(* returned is among the buffers the wrapper passes on, or retrieve_buffer  *)
(* does not find it.                                                        *)
Compiles(w, ps) ==
  /\ CheckParameters(w, ps)
  /\ \A i \in DOMAIN ps : ps[i].type \in w.required \ {"send_buf"} => ~IsOut(ps[i])
  /\ ToSet(make_mpi_result(w, ps).types) \subseteq w.returned
================================================================================

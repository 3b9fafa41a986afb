-------------------------------- MODULE Results --------------------------------
(***************************************************************************)
(* The data behind the named parameters of one wrapped call, from the      *)
(* containers of the caller through the builders (parameter_objects.hpp)   *)
(* and the data buffers (data_buffer.hpp) to the result object and what    *)
(* the caller reads and extracts from it (result.hpp).                     *)
(*                                                                         *)
(* A value is moved from place to place and stays behind as "moved-from".  *)
(* The caller has one container per type of parameter. Assertions are on.  *)
(***************************************************************************)
EXTENDS NamedParameters

CONSTANTS MaxParameters   (* Bound on the parameters of the call. *)

ASSUME MaxParametersAssumption == MaxParameters \in Nat

VARIABLES
  pc,          (* "caller", "named", "constructed", "executed", "returned" *)
  wrapper,     (* The wrapper called,                                      *)
  args,        (* and its parameter objects in the order of the caller.    *)
  container,   (* The value in the caller's variable for each type.        *)
  built,       (* The value in the builder of each type.                   *)
  buffer,      (* The value in the data buffer of each type.               *)
  result,      (* What the call returned,                                  *)
  slot,        (* the value in each buffer of it,                          *)
  extracted,   (* DataBuffer::is_extracted of each,                        *)
  seen         (* and the last value the caller read: <<type, value>>.     *)

vars == <<pc, wrapper, args, container, built, buffer, result, slot, extracted, seen>>

Nothing == "nothing"
Empty == [t \in Types |-> Nothing]

Init ==
  /\ pc = "caller"
  /\ wrapper = probe
  /\ args = <<>>
  /\ container = [t \in Types |-> "initial"]
  /\ built = Empty
  /\ buffer = Empty
  /\ result = Returned("nothing", <<>>)
  /\ slot = <<>>
  /\ extracted = {}
  /\ seen = <<>>

Arg(t) == select_parameter_type_or_default(t, args)
Passed == ToSet(TypesOf(args))
Own(p) == p.owner \in {"moved", "copied"}
Moved(p) == p.owner = "moved"

(* What a value in its place is in the end: a send buffer is only read. *)
Final(t) == IF t = "send_buf" THEN "initial" ELSE "computed"

-----------------------------------------------------------------------------
(* Plausible mistakes, used nowhere. *)
SetExtracted_Forgotten(i) == extracted \ {i}
-----------------------------------------------------------------------------

Usable(w) == {p \in AllParameters : p.type \in w.required \union w.optional}
Calls(w) == UNION {[1 .. n -> Usable(w)] : n \in 0 .. MaxParameters}

(* The caller names its parameters: a factory moves an rvalue into the      *)
(* builder, and keeps a reference to an lvalue.                             *)
Name(w) ==
  /\ pc = "caller"
  /\ pc' = "named"
  /\ wrapper' = w
  /\ \E ps \in {qs \in Calls(w) : Compiles(w, qs)} :
       LET taken(Test(_)) == {ps[i].type : i \in {j \in DOMAIN ps : Test(ps[j])}}
       IN  /\ args' = ps
           /\ built' = [t \in Types |-> IF t \in taken(Own) THEN container[t] ELSE Nothing]
           /\ container' = [t \in Types |-> IF t \in taken(Moved) THEN "moved-from" ELSE container[t]]
  /\ UNCHANGED <<buffer, result, slot, extracted, seen>>

(* select_parameter_type_or_default(...).construct_buffer_or_rebind() for   *)
(* each parameter; an owning buffer takes the value out of the builder.     *)
ConstructBuffers ==
  /\ pc = "named"
  /\ pc' = "constructed"
  /\ buffer' = [t \in Types |->
                  IF t \notin Passed \union wrapper.returned THEN Nothing
                  ELSE CASE Own(Arg(t))                -> built[t]
                         [] Arg(t).owner = "library" -> "allocated"
                         [] OTHER                    -> Nothing]
  /\ built' = [t \in Types |-> IF built[t] = Nothing THEN Nothing ELSE "moved-from"]
  /\ UNCHANGED <<wrapper, args, container, result, slot, extracted, seen>>

(* The types whose values the call computes or receives; a send buffer that *)
(* is to be returned is only read.                                          *)
Computed == {t \in Passed \union wrapper.returned : has_to_be_computed(Arg(t)) /\ t # "send_buf"}

(* The wrapper computes what it was not given and calls MPI.                *)
Execute ==
  /\ pc = "constructed"
  /\ pc' = "executed"
  /\ buffer' = [t \in Types |-> IF t \in Computed /\ IsOwning(Arg(t)) THEN "computed" ELSE buffer[t]]
  /\ container' = [t \in Types |-> IF t \in Computed /\ ~IsOwning(Arg(t))
                                   THEN "computed" ELSE container[t]]
  /\ UNCHANGED <<wrapper, args, built, result, slot, extracted, seen>>

(* A value returned alone was extracted by make_mpi_result and is the       *)
(* caller's. The other buffers die with the call.                           *)
Return ==
  /\ pc = "executed"
  /\ pc' = "returned"
  /\ result' = make_mpi_result(wrapper, args)
  /\ slot' = [i \in DOMAIN result'.types |-> buffer[result'.types[i]]]
  /\ seen' = IF result'.kind = "value" THEN <<result'.types[1], slot'[1]>> ELSE seen
  /\ built' = Empty
  /\ buffer' = Empty
  /\ UNCHANGED <<wrapper, args, container, extracted>>

(* kassert_not_extracted *)
NotExtracted(i) == i \notin extracted

SetExtracted(i) == extracted \union {i}

(* get<i>, of a structured binding, and what get_recv_buffer and its        *)
(* siblings do once they found their buffer.                                *)
Get(i) ==
  /\ pc = "returned" /\ result.kind = "object"
  /\ NotExtracted(i)
  /\ seen' = <<result.types[i], slot[i]>>
  /\ UNCHANGED <<pc, wrapper, args, container, built, buffer, result, slot, extracted>>

(* DataBuffer::extract *)
Extract(i) ==
  /\ pc = "returned" /\ result.kind = "object"
  /\ NotExtracted(i)
  /\ seen' = <<result.types[i], slot[i]>>
  /\ slot' = [slot EXCEPT ![i] = "moved-from"]
  /\ extracted' = SetExtracted(i)
  /\ UNCHANGED <<pc, wrapper, args, container, built, buffer, result>>

(* get_recv_buffer(), extract_recv_buffer() and so on. *)
PositionOf(t) == SelectInSeq(result.types, LAMBDA u : u = t)

(* The caller has what it wanted. *)
Finished ==
  /\ pc = "returned"
  /\ UNCHANGED vars

Next ==
  \/ \E w \in Wrappers : Name(w)
  \/ ConstructBuffers
  \/ Execute
  \/ Return
  \/ \E t \in ToSet(result.types) : Get(PositionOf(t)) \/ Extract(PositionOf(t))
  \/ \E i \in DOMAIN slot : Get(i)
  \/ Finished

Spec == Init /\ [][Next]_vars

-----------------------------------------------------------------------------
(* What is asked for by an owning out parameter, and the received data where *)
(* no receive buffer was named: this, and nothing else, is returned, whole,  *)
(* in the order of the caller, the unnamed receive buffer first.             *)
(* (make_mpi_result; what was moved in to be returned is not lost either)    *)
Delivered ==
  pc = "returned" =>
    LET asked == {t \in Passed \ Ignored : IsOut(Arg(t)) /\ IsOwning(Arg(t))}
        unnamed == (wrapper.returned \intersect RecvTypes) \ Passed
        types == result.types
    IN  /\ ToSet(types) = asked \union unnamed
        /\ \A i, j \in DOMAIN types : i < j =>
             /\ types[i] # types[j]
             /\ types[j] \notin unnamed
             /\ types[i] \in unnamed \/ find_pos(types[i], args) < find_pos(types[j], args)
        /\ \A i \in DOMAIN types \ extracted : slot[i] = Final(types[i])

(* Whatever the caller gets or extracts, in whatever order, is the value of  *)
(* the call, never one that was moved away (the assertions of data_buffer).  *)
ReadsAreFresh == seen # <<>> => seen[2] = Final(seen[1])

(* A variable of the caller loses its value only if it was moved into the    *)
(* call, and is written only if it was passed as an lvalue to be written;    *)
(* and such a variable has been written when the call returns.               *)
CallerKeepsItsData ==
  \A t \in Types :
    /\ container[t] = "moved-from" => t \in Passed /\ Moved(Arg(t))
    /\ container[t] = "computed" => t \in Passed /\ IsOut(Arg(t)) /\ ~IsOwning(Arg(t))
    /\ (pc = "returned" /\ t \in Passed /\ IsOut(Arg(t)) /\ ~IsOwning(Arg(t))) => container[t] = "computed"
================================================================================

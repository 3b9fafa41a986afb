------------------------------ MODULE NonBlocking ------------------------------
(***************************************************************************)
(* Non-blocking point-to-point operations of one rank: irecv and isend,    *)
(* the NonBlockingResult they return, its request, and the RequestPool a   *)
(* request may live in (p2p/irecv.hpp, p2p/isend.hpp, result.hpp,          *)
(* request.hpp, request_pool.hpp).                                         *)
(*                                                                         *)
(* What matters is where the memory given to MPI is, and who can reach the *)
(* MPI_Request.  An operation is handed one of                             *)
(*   "reference"  a buffer of the caller, recv_buf(v) or send_buf(v),      *)
(*   "container"  an owned container: alloc_new, or send_buf_out(move(v)), *)
(*   "single"     an owned single value,                                   *)
(*   "temporary"  send_buf(T{...}), an owned buffer that only goes in.     *)
(* The request is a member of the result, a Request of the caller, or a    *)
(* slot of the pool, to which the result then holds a C++ reference.       *)
(***************************************************************************)
EXTENDS Integers, Sequences, FiniteSets

CONSTANTS
  Op,            (* The operations of the run.                             *)
  Buffers,       (* The kinds of buffers the program uses.                 *)
  Homes,         (* Where requests live: subset of {"result","user","pool"}*)
  EarlyExtract,  (* The kinds of buffers the program extracts while the    *)
                 (* operation is under way.                                *)
  KeepsReferences(* Does it wait through a result whose request is pooled  *)
                 (* after taking further requests from the pool?           *)

ASSUME KindsAssumption ==
  /\ Buffers \subseteq {"reference", "container", "single", "temporary"}
  /\ Homes \subseteq {"result", "user", "pool"}
  /\ EarlyExtract \subseteq Buffers

VARIABLES
  mpi,           (* "idle", "pending" or "complete".                       *)
  buffer,        (* The kind of buffer of a started operation.             *)
  home,          (* Where its request is.                                  *)
  active,        (* Operations whose MPI_Request is not MPI_REQUEST_NULL.  *)
  result,        (* NonBlockingResult: "none", "held", "extracted" (still  *)
                 (* there, its value moved out) or "destroyed".            *)
  storage,       (* What is in the memory MPI was given: "old", "message". *)
  got,           (* The value moved out of the result.                     *)
  requests,      (* RequestPool::_requests: the operation of each slot.    *)
  generation,    (* Counts the blocks of memory _requests has had,         *)
  reference,     (* and the block a PooledRequest of a result points to.   *)
  last,          (* What the last call on the pool returned.               *)
  freedTouched,  (* MPI read or wrote memory that was freed.               *)
  dangling       (* A wait or test went through a dead reference.          *)

vars == <<mpi, buffer, home, active, result, storage, got,
          requests, generation, reference, last, freedTouched, dangling>>

pool == <<requests, generation, reference>>
faults == <<freedTouched, dangling>>

Init ==
  /\ mpi = [o \in Op |-> "idle"]
  /\ buffer = [o \in Op |-> "none"]
  /\ home = [o \in Op |-> "none"]
  /\ active = {}
  /\ result = [o \in Op |-> "none"]
  /\ storage = [o \in Op |-> "old"]
  /\ got = [o \in Op |-> "nothing"]
  /\ requests = <<>>
  /\ generation = 0
  /\ reference = [o \in Op |-> 0]
  /\ last = [call |-> "none"]
  /\ freedTouched = FALSE
  /\ dangling = FALSE

-----------------------------------------------------------------------------
(* Plausible mistakes, used nowhere. *)
Given_BeforeTheMove(b) == IF b \in {"single", "temporary"} THEN "call" ELSE IF b = "container" THEN "block" ELSE "caller"
Finished_Ignored(o) == o \in Op
num_requests_OffByOne == Len(requests) - 1
NewSlot_Reused(o) == IF requests = <<>> THEN <<o>> ELSE [requests EXCEPT ![Len(requests)] = o]
AnyIndex_First(ready) == IF ready = {} THEN 1 ELSE CHOOSE i \in ready : TRUE
-----------------------------------------------------------------------------

(* Where the memory of the MPI call is: with the caller, in the heap block  *)
(* of a container that moves, inside the object behind                      *)
(* NonBlockingResult::_mpi_result, or in the frame of the call itself:      *)
(* make_nonblocking_result keeps no buffer that only goes in.               *)
Given(b) == CASE b = "reference" -> "caller"
              [] b = "container" -> "block"
              [] b = "single"    -> "result"
              [] b = "temporary" -> "call"

Live(o) == CASE Given(buffer[o]) = "caller" -> TRUE
             [] Given(buffer[o]) = "block"  -> result[o] # "destroyed" \/ got[o] # "nothing"
             [] Given(buffer[o]) = "result" -> result[o] # "destroyed"
             [] Given(buffer[o]) = "call"   -> FALSE

(* is_result_empty_v is false: there is a value to move out. *)
HasValue(o) == buffer[o] \in {"container", "single"}

(* What the caller sees in the value it took. A container that was moved    *)
(* still is the memory MPI writes to; a single value is a copy.             *)
Received(o) == IF buffer[o] = "single" THEN got[o] ELSE storage[o]

Finished(o) == mpi[o] # "pending"

IsNull(o) == o \notin active

(* MPI_Wait returns, MPI_Test sets its flag. *)
Returns(o) == IsNull(o) \/ Finished(o)

num_requests == Len(requests)

(* The reference a PooledRequest of the result holds points into _requests. *)
Reaches(o) == home[o] # "pool" \/ reference[o] = generation

-----------------------------------------------------------------------------
(* Steps that are no call on the pool. *)
NoPoolCall == last' = [call |-> "none"]

NewSlot(o) == Append(requests, o)

(* get_request: emplace_back, which may move the slots to another block.    *)
(* When it does is up to the standard library.                              *)
GetRequest(o) ==
  /\ requests' = NewSlot(o)
  /\ \E moves \in BOOLEAN :
       /\ (requests = <<>>) => moves
       /\ generation' = IF moves THEN generation + 1 ELSE generation
  /\ reference' = [reference EXCEPT ![o] = generation']

(* irecv or isend with a buffer of kind b and a request at home h; a result *)
(* that holds nothing the caller needs is dropped at once (see Drop).       *)
Start(o, b, h) ==
  /\ mpi[o] = "idle"
  /\ mpi' = [mpi EXCEPT ![o] = "pending"]
  /\ buffer' = [buffer EXCEPT ![o] = b]
  /\ home' = [home EXCEPT ![o] = h]
  /\ active' = active \union {o}
  /\ result' = [result EXCEPT ![o] = "held"]
  /\ IF h = "pool" THEN GetRequest(o) ELSE UNCHANGED pool
  /\ NoPoolCall
  /\ UNCHANGED <<storage, got, faults>>

(* MPI carries the operation out. *)
Deliver(o) ==
  /\ mpi[o] = "pending"
  /\ mpi' = [mpi EXCEPT ![o] = "complete"]
  /\ IF Live(o)
       THEN storage' = [storage EXCEPT ![o] = "message"] /\ UNCHANGED freedTouched
       ELSE freedTouched' = TRUE /\ UNCHANGED storage
  /\ NoPoolCall
  /\ UNCHANGED <<buffer, home, active, result, got, pool, dangling>>

(* extract_result *)
TakeValue(o) ==
  /\ result' = [result EXCEPT ![o] = "extracted"]
  /\ got' = [got EXCEPT ![o] = storage[o]]

(* The program may call wait, test or extract on the result: the first two  *)
(* exist only if the result has the request, or a reference to a slot.      *)
Usable(o) == result[o] = "held" /\ home[o] \in {"result", "pool"} /\ (KeepsReferences \/ Reaches(o))

(* The request is complete, it becomes null, and the value is moved out. *)
Complete(o) ==
  /\ active' = active \ {o}
  /\ IF HasValue(o) THEN TakeValue(o) ELSE UNCHANGED <<result, got>>

(* NonBlockingResult::wait. Through a dead reference anything may happen:   *)
(* here the call returns.                                                   *)
Wait(o) ==
  /\ Usable(o)
  /\ IF Reaches(o) THEN Returns(o) /\ Complete(o) ELSE UNCHANGED <<active, result, got>>
  /\ dangling' = (dangling \/ ~Reaches(o))
  /\ NoPoolCall
  /\ UNCHANGED <<mpi, buffer, home, storage, pool, freedTouched>>

(* NonBlockingResult::test *)
Test(o) ==
  /\ Usable(o)
  /\ IF Reaches(o) /\ Returns(o) THEN Complete(o) ELSE UNCHANGED <<active, result, got>>
  /\ dangling' = (dangling \/ ~Reaches(o))
  /\ NoPoolCall
  /\ UNCHANGED <<mpi, buffer, home, storage, pool, freedTouched>>

(* NonBlockingResult::extract: the request, if it is the result's own, and  *)
(* the value go to the caller.  A program that does not extract early       *)
(* extracts once it has seen the request complete.                          *)
Extract(o) ==
  /\ result[o] = "held"
  /\ HasValue(o) \/ home[o] = "result"
  /\ IsNull(o) \/ buffer[o] \in EarlyExtract
  /\ home' = [home EXCEPT ![o] = IF @ = "result" THEN "user" ELSE @]
  /\ IF HasValue(o) THEN TakeValue(o)
                    ELSE result' = [result EXCEPT ![o] = "extracted"] /\ UNCHANGED got
  /\ NoPoolCall
  /\ UNCHANGED <<mpi, buffer, active, storage, pool, faults>>

(* ~NonBlockingResult. The program drops a result when it no longer needs   *)
(* it: its value is out, or the request is complete, or it has neither the  *)
(* request nor a value.                                                     *)
Drop(o) ==
  /\ \/ result[o] = "extracted"
     \/ result[o] = "held" /\ (IsNull(o) \/ (home[o] # "result" /\ ~HasValue(o)))
  /\ result' = [result EXCEPT ![o] = "destroyed"]
  /\ NoPoolCall
  /\ UNCHANGED <<mpi, buffer, home, active, storage, got, pool, faults>>

(* Request::wait, or requests::wait_all over copies of the handles.         *)
WaitRequest(o) ==
  /\ home[o] = "user"
  /\ o \in active
  /\ Finished(o)
  /\ active' = active \ {o}
  /\ NoPoolCall
  /\ UNCHANGED <<mpi, buffer, home, result, storage, got, pool, faults>>

-----------------------------------------------------------------------------
(* RequestPool. *)
InPool == {requests[i] : i \in 1 .. num_requests}
ReadySlots == {i \in 1 .. num_requests : requests[i] \in active /\ Finished(requests[i])}

(* index_end() for MPI_UNDEFINED *)
AnyIndex(ready) == IF ready = {} THEN Len(requests) + 1 ELSE CHOOSE i \in ready : TRUE

WaitAll ==
  /\ \A o \in InPool : Returns(o)
  /\ active' = active \ InPool
  /\ last' = [call |-> "wait_all"]
  /\ UNCHANGED <<mpi, buffer, home, result, storage, got, pool, faults>>

(* MPI_Testall frees all requests or none. *)
TestAll ==
  LET succeeded == \A o \in InPool : Returns(o)
  IN  /\ active' = IF succeeded THEN active \ InPool ELSE active
      /\ last' = [call |-> "test_all", succeeded |-> succeeded]
      /\ UNCHANGED <<mpi, buffer, home, result, storage, got, pool, faults>>

(* MPI_Waitany and MPI_Testany choose a complete request; they complete at  *)
(* once if no request is active.                                            *)
AnyCompletes(call) ==
  /\ \/ /\ InPool \intersect active = {}
        /\ last' = [call |-> call, index |-> AnyIndex({})]
        /\ UNCHANGED active
     \/ \E i \in ReadySlots :
          /\ last' = [call |-> call, index |-> AnyIndex({i})]
          /\ active' = active \ {requests[i]}
  /\ UNCHANGED <<mpi, buffer, home, result, storage, got, pool, faults>>

WaitAny == AnyCompletes("wait_any")

TestAny ==
  \/ AnyCompletes("test_any")
  \/ /\ InPool \intersect active # {}
     /\ ReadySlots = {}
     /\ last' = [call |-> "test_any", index |-> 0]    (* std::nullopt *)
     /\ UNCHANGED <<mpi, buffer, home, active, result, storage, got, pool, faults>>

Next ==
  \/ \E o \in Op : \/ \E b \in Buffers, h \in Homes : Start(o, b, h)
                   \/ Deliver(o) \/ Wait(o) \/ Test(o) \/ Extract(o) \/ Drop(o) \/ WaitRequest(o)
  \/ WaitAll \/ TestAll \/ WaitAny \/ TestAny

Spec == Init /\ [][Next]_vars

-----------------------------------------------------------------------------
Pooled == {o \in Op : home[o] = "pool"}

(* The state is well formed; every pooled request has a slot of its own,    *)
(* and an operation that was never started has no live request.             *)
TypeOK ==
  /\ mpi \in [Op -> {"idle", "pending", "complete"}]
  /\ result \in [Op -> {"none", "held", "extracted", "destroyed"}]
  /\ got \in [Op -> {"nothing", "old", "message"}]
  /\ storage \in [Op -> {"old", "message"}]
  /\ requests \in Seq(Op)
  /\ Cardinality(Pooled) = Len(requests)
  /\ Pooled = {requests[i] : i \in 1 .. Len(requests)}
  /\ active \subseteq {o \in Op : mpi[o] # "idle"}
  /\ \A o \in Op : reference[o] <= generation

(* MPI only touches memory that is still there: moving the result, taking   *)
(* its value out early and dropping it (isend.hpp 143-165, result.hpp) do   *)
(* not pull the buffer from under a pending operation.                      *)
BuffersOutlive == ~freedTouched

(* Once the operation is complete, the value that was moved out of its      *)
(* result by wait, test or extract, before or after, is the message.        *)
ReceivedAfterCompletion ==
  \A o \in Op : got[o] # "nothing" /\ mpi[o] = "complete" => Received(o) = "message"

(* A wait or test through a result reaches the request it was started with: *)
(* the PooledRequest in it points into the pool.                            *)
RequestsReached == ~dangling

RetiresAllOrNone ==
  /\ last'.call = "wait_all" /\ last # last' => Pooled \intersect active' = {}
  /\ last'.call = "test_all" /\ last # last' =>
       IF last'.succeeded THEN Pooled \intersect active' = {} ELSE active' = active

(* wait_all, and a test_all that succeeds, leave no active request in the   *)
(* pool; a test_all that fails retires none.                                *)
AllOrNone == [][RetiresAllOrNone]_vars

ReportsRetired ==
  last'.call \in {"wait_any", "test_any"} /\ last # last' /\ last'.index # 0 =>
    IF Pooled \intersect active = {} THEN last'.index = Len(requests) + 1
                                     ELSE /\ last'.index \in 1 .. Len(requests)
                                          /\ active \ active' = {requests[last'.index]}

(* wait_any and test_any return index_end() exactly when the pool has no    *)
(* active request, and otherwise the index of the one request they retire.  *)
AnyReportsRetired == [][ReportsRetired]_vars
=============================================================================

--------------------------- MODULE SparseExchange ---------------------------
(***************************************************************************)
(* What a sequence of calls of SparseAlltoall::alltoallv_sparse promises   *)
(* its callers, with no word about how (src/include/__mping/plugin/        *)
(* alltoall_sparse.hpp, the comment at 177-211):                           *)
(*   - a call posts the non-empty messages of its sparse send buffer;      *)
(*   - each of them is handed to the on_message callback of its            *)
(*     destination exactly once, and during the same call there;           *)
(*   - the call returns only after every message addressed to the caller   *)
(*     in this call was handed over.                                       *)
(* SparseAlltoall implements this module (SparseAlltoall!Implements).      *)
(***************************************************************************)
EXTENDS Naturals, Sequences

CONSTANTS
  Rank,      (* The ranks of the communicator.                             *)
  SendBufs,  (* The sparse send buffers a caller may pass.                 *)
  MaxCalls   (* Number of calls each rank makes. Bounds the model.         *)

VARIABLES
  call,      (* Number of the call a rank is in, or was in last.           *)
  active,    (* Whether a rank is inside a call.                           *)
  pending,   (* Messages posted and not handed to a callback yet.          *)
  delivered  (* Messages handed to the callback of a rank in this call.    *)

vars == <<call, active, pending, delivered>>

(* The message at position pos of the buffer rank r passed to call n. *)
Msg(r, n, buf, pos) ==
  [src |-> r, dst |-> buf[pos].dst, call |-> n, pos |-> pos]

(* "Messages of size 0 are not sent." *)
Posted(r, n, buf) ==
  {Msg(r, n, buf, pos) : pos \in {p \in DOMAIN buf : buf[p].size > 0}}

-----------------------------------------------------------------------------
Init ==
  /\ call = [r \in Rank |-> 0]
  /\ active = [r \in Rank |-> FALSE]
  /\ pending = {}
  /\ delivered = [r \in Rank |-> {}]

Begin(r, buf) ==
  /\ ~active[r]
  /\ call[r] < MaxCalls
  /\ call' = [call EXCEPT ![r] = @ + 1]
  /\ active' = [active EXCEPT ![r] = TRUE]
  /\ pending' = pending \cup Posted(r, call[r] + 1, buf)
  /\ delivered' = [delivered EXCEPT ![r] = {}]

Deliver(m) ==
  /\ active[m.dst]
  /\ call[m.dst] = m.call
  /\ pending' = pending \ {m}
  /\ delivered' = [delivered EXCEPT ![m.dst] = @ \cup {m}]
  /\ UNCHANGED <<call, active>>

Return(r) ==
  /\ active[r]
  /\ \A q \in Rank : call[q] >= call[r]
  /\ \A m \in pending : ~(m.dst = r /\ m.call = call[r])
  /\ active' = [active EXCEPT ![r] = FALSE]
  /\ UNCHANGED <<call, pending, delivered>>

Next ==
  \/ \E r \in Rank, buf \in SendBufs : Begin(r, buf)
  \/ \E m \in pending : Deliver(m)
  \/ \E r \in Rank : Return(r)

Spec == Init /\ [][Next]_vars
=============================================================================

-------------------------------- MODULE Recovery --------------------------------
(***************************************************************************)
(* Recovery from process failures: the loop of                             *)
(* examples/applications/ulfm.cpp over the plugin of plugin/ulfm.hpp.      *)
(* Every rank reduces over its communicator again and again; who sees a    *)
(* failure revokes the communicator and goes on with the shrunken one.     *)
(*                                                                         *)
(* MPI with user-level failure mitigation is external. An operation that   *)
(* involves a failed process fails at some ranks and may succeed at        *)
(* others; a revocation reaches each rank in its own time; shrink is an    *)
(* agreement of all live members. Communicators are numbered: shrinking    *)
(* number c gives number c + 1. Assertions are off.                        *)
(***************************************************************************)
EXTENDS Naturals, Sequences, FiniteSets

CONSTANTS
  Rank,         (* The processes of MPI_COMM_WORLD.                        *)
  MaxFailures   (* Bound on the processes that fail.                       *)

ASSUME MaxFailuresAssumption == MaxFailures \in Nat

VARIABLES
  alive,        (* The processes that have not failed.                     *)
  pc,           (* Where each rank is in the loop.                         *)
  comm,         (* The communicator each rank uses.                        *)
  members,      (* The group of each communicator.                         *)
  knows         (* <<r, c>>: rank r knows that communicator c is revoked.  *)

vars == <<alive, pc, comm, members, knows>>

Init ==
  /\ alive = Rank
  /\ pc = [r \in Rank |-> "loop"]
  /\ comm = [r \in Rank |-> 1]
  /\ members = <<Rank>>
  /\ knows = {}

is_revoked(r) == <<r, comm[r]>> \in knows

Goto(r, label) == pc' = [pc EXCEPT ![r] = label]

-----------------------------------------------------------------------------
(* MPI *)

(* A process fails, wherever it is. *)
Fail(r) ==
  /\ r \in alive
  /\ Cardinality(Rank \ alive) < MaxFailures
  /\ alive' = alive \ {r}
  /\ UNCHANGED <<pc, comm, members, knows>>

(* All members contributed, some perhaps just before they failed. *)
Reduce(c) ==
  /\ \A r \in members[c] : comm[r] = c /\ pc[r] = "reducing"
  /\ pc' = [r \in Rank |-> IF r \in members[c] THEN "reduced" ELSE pc[r]]
  /\ UNCHANGED <<alive, comm, members, knows>>

(* The news of a revocation reaches another rank. *)
Propagate(r) ==
  /\ ~is_revoked(r)
  /\ \E s \in Rank : <<s, comm[r]>> \in knows
  /\ knows' = knows \union {<<r, comm[r]>>}
  /\ UNCHANGED <<alive, pc, comm, members>>

(* The live members agree on the next group. A process that failed inside   *)
(* shrink may still be in it.                                              *)
AgreeOnGroup ==
  LET c == Len(members)
      called == {r \in members[c] : comm[r] = c /\ pc[r] = "shrinking"}
  IN  /\ called \intersect alive # {}
      /\ members[c] \intersect alive \subseteq called
      /\ \E group \in SUBSET called :
           /\ members[c] \intersect alive \subseteq group
           /\ members' = Append(members, group)
      /\ UNCHANGED <<alive, pc, comm, knows>>

-----------------------------------------------------------------------------
(* The ranks *)

(* Plausible mistakes, used nowhere. *)
AfterFailure_Inverted(r) == IF is_revoked(r) THEN "revoke" ELSE "shrink"
Caught_OnlyRevocations(r) == is_revoked(r)

CallAllreduce(r) ==
  /\ pc[r] = "loop"
  /\ Goto(r, "reducing")
  /\ UNCHANGED <<alive, comm, members, knows>>

AllreduceSucceeds(r) ==
  /\ pc[r] = "reduced"
  /\ Goto(r, "loop")
  /\ UNCHANGED <<alive, comm, members, knows>>

(* MPIX_ERR_PROC_FAILED and MPIX_ERR_REVOKED become exceptions that the loop *)
(* catches as MPIFailureDetected.                                           *)
Caught(r) == is_revoked(r) \/ \E m \in members[comm[r]] : m \notin alive

AllreduceFails(r) ==
  /\ pc[r] \in {"reducing", "reduced"}
  /\ Caught(r)
  /\ Goto(r, "caught")
  /\ UNCHANGED <<alive, comm, members, knows>>

(* if (!comm.is_revoked()) *)
AfterFailure(r) == IF is_revoked(r) THEN "shrink" ELSE "revoke"

TestRevoked(r) ==
  /\ pc[r] = "caught"
  /\ Goto(r, AfterFailure(r))
  /\ UNCHANGED <<alive, comm, members, knows>>

Revoke(r) ==
  /\ pc[r] = "revoke"
  /\ Goto(r, "shrink")
  /\ knows' = knows \union {<<r, comm[r]>>}
  /\ UNCHANGED <<alive, comm, members>>

CallShrink(r) ==
  /\ pc[r] = "shrink"
  /\ Goto(r, "shrinking")
  /\ UNCHANGED <<alive, comm, members, knows>>

(* comm = comm.shrink() *)
ReturnFromShrink(r) ==
  /\ pc[r] = "shrinking"
  /\ Len(members) > comm[r]
  /\ comm' = [comm EXCEPT ![r] = @ + 1]
  /\ Goto(r, "loop")
  /\ UNCHANGED <<alive, members, knows>>

Step(r) ==
  /\ r \in alive
  /\ \/ CallAllreduce(r) \/ AllreduceSucceeds(r) \/ AllreduceFails(r)
     \/ TestRevoked(r) \/ Revoke(r) \/ CallShrink(r) \/ ReturnFromShrink(r)

MPI ==
  \/ \E c \in DOMAIN members : Reduce(c)
  \/ AgreeOnGroup

Next ==
  \/ \E r \in Rank : Fail(r) \/ Step(r) \/ Propagate(r)
  \/ MPI

Spec == Init /\ [][Next]_vars

(* The ranks run on, an operation of MPI that can end does, and a           *)
(* revocation reaches every rank. Failures are not fair.                    *)
FairSpec ==
  /\ Spec
  /\ \A r \in Rank : WF_vars(Step(r)) /\ WF_vars(Propagate(r))
  /\ WF_vars(MPI)

-----------------------------------------------------------------------------
(* A rank that gives a communicator up has revoked it or knows it revoked:   *)
(* the others, still reducing over it, will hear of it and follow.           *)
NobodyStranded ==
  \A r \in Rank : \A c \in 1 .. comm[r] :
    (c < comm[r] \/ pc[r] \in {"shrink", "shrinking"}) => <<r, c>> \in knows

Recovered ==
  \A r \in alive : comm[r] = Len(members) /\ members[comm[r]] = alive /\ ~is_revoked(r)

(* After the last failure the survivors, all of them and nobody else, end up *)
(* on one communicator that stays valid, and go on reducing on it.           *)
Recovers ==
  /\ <>[]Recovered
  /\ \A r \in Rank : []<>(r \notin alive \/ pc[r] = "reduced")
================================================================================

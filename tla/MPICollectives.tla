---------------------------- MODULE MPICollectives ----------------------------
(***************************************************************************)
(* Blocking collectives of MPI on one communicator, as far as the wrappers *)
(* depend on them (external): the k-th collective a rank enters meets the  *)
(* k-th of every other rank.  A rank leaves as soon as the ranks it        *)
(* receives from have entered, so the root of a broadcast runs ahead and   *)
(* the ranks of a gather do not wait for one another.                      *)
(* With it, what every wrapper uses: the assertion that all ranks agree,   *)
(* displacements, required sizes and the resize policies of a buffer.      *)
(***************************************************************************)
EXTENDS Integers, FiniteSets, Functions, DataBuffers

CONSTANT P           (* size() of the communicator.                        *)

ASSUME PAssumption == P \in Nat \ {0}

Rank == 0 .. P - 1

VARIABLES
  at,           (* The code a rank runs once it leaves its last collective. *)
  calls         (* calls[r]: the collectives rank r has entered.            *)

(* A collective: what it sends to each rank and how much it expects. *)
Collective(kind, root, out, want) == [kind |-> kind, root |-> root, out |-> out, want |-> want]

ToAll(block) == [s \in Rank |-> block]

None == << >>    (* The counts of a rank that receives nothing. *)

(* The ranks a rank receives from. *)
Senders(kind, root, r) ==
  CASE kind \in {"MPI_Bcast", "MPI_Scatter", "MPI_Scatterv"} -> {root}
    [] kind \in {"MPI_Gather", "MPI_Gatherv", "MPI_Reduce"} -> IF r = root THEN Rank ELSE {}
    [] kind = "MPI_Scan" -> 0 .. r
    [] kind = "MPI_Exscan" -> 0 .. r - 1
    [] OTHER -> Rank

SendersOf(r) ==
  IF calls[r] = << >> THEN {} ELSE Senders(Last(calls[r]).kind, Last(calls[r]).root, r)

CanLeave(r) == \A s \in SendersOf(r) : Len(calls[s]) >= Len(calls[r])

(* What the rank's last collective delivered to it. *)
Delivered(r) == [s \in SendersOf(r) |-> calls[s][Len(calls[r])].out[r]]

Ended == {"returned", "aborted", "rejected"}

(* The assertion of is_same_on_all_ranks holds: the reduction gives every  *)
(* rank the same answer.                                                   *)
Agreed(r) ==
  calls[r] # << >> /\ Last(calls[r]).kind = "is_same_on_all_ranks"
    => \A s \in Rank : Delivered(r)[s] = Delivered(r)[r]

(* A rank runs the code after its last collective. *)
Runs(r, stage) == at[r] = stage /\ CanLeave(r) /\ Agreed(r)

Go(r, next) == at' = [at EXCEPT ![r] = next]

Enter(r, collective, next) ==
  /\ calls' = [calls EXCEPT ![r] = Append(@, collective)]
  /\ Go(r, next)

(* An assertion on something only this rank sees fails. *)
Abort(r) == Go(r, "aborted") /\ UNCHANGED calls

(* An assertion on something every rank has been told fails. *)
Reject(r) == Go(r, "rejected") /\ UNCHANGED calls

(* An MPI_Allreduce that compares the values of all ranks. *)
Same(value) == Collective("is_same_on_all_ranks", 0, ToAll(<<value>>), [s \in Rank |-> 1])

(* std::exclusive_scan over the counts. *)
ExclusiveScan(counts) ==
  [s \in Rank |-> FoldFunctionOnSet(LAMBDA x, y : x + y, 0, counts, 0 .. s - 1)]

(* Plausible mistakes, used nowhere. *)
RequiredSize_LastOnly(counts, displs, computed) == counts[P - 1] + displs[P - 1]

(* compute_required_recv_buf_size_in_vectorized_communication *)
RequiredSize(counts, displs, computed) ==
  IF computed
  THEN counts[P - 1] + displs[P - 1]
  ELSE CHOOSE n \in {0} \cup {counts[s] + displs[s] : s \in Rank} :
         \A s \in Rank : counts[s] + displs[s] <= n

(* The blocks a collective delivered, written at their displacements. *)
Written(cells, blocks, displs) ==
  [k \in DOMAIN cells |->
     LET hit == {s \in DOMAIN blocks : displs[s] < k /\ k <= displs[s] + Len(blocks[s])}
     IN  IF hit = {} THEN cells[k]
         ELSE LET s == CHOOSE t \in hit : TRUE IN blocks[s][k - displs[s]]]
================================================================================

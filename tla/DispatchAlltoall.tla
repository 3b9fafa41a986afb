--------------------------- MODULE DispatchAlltoall ---------------------------
(***************************************************************************)
(* alltoallv_dispatch of plugin/alltoall_dispatch.hpp: an allreduce finds  *)
(* the largest send volume, then all ranks take the grid exchange or all   *)
(* take MPI_Alltoallv.  The grid communicator is made by the first call    *)
(* that wants it, or by an explicit initialize().  The ranks run the same  *)
(* program and pass the same threshold.                                    *)
(*                                                                         *)
(* MPI is external: the k-th collective of a rank on the original          *)
(* communicator completes when all ranks are in their k-th one, and it is  *)
(* the same.                                                               *)
(***************************************************************************)
EXTENDS GridAlltoall

CONSTANTS
  Sizes,        (* Sizes of the original communicator.                     *)
  MaxCalls(_),  (* Calls per rank in a communicator of a size. Bounds the  *)
                (* model.                                                  *)
  Thresholds    (* comm_volume_threshold of a call, in elements.           *)

ASSUME SizesAssumption == Sizes \subseteq Nat \ {0}

ASSUME MaxCallsAssumption == \A size \in Sizes : MaxCalls(size) \in Nat

(* send_counts are not negative. *)
ASSUME CountAssumption ==
  \A size \in Sizes, pat \in Patterns : \A k \in 1 .. MaxCalls(size), r, d \in 0 .. size - 1 :
    Count(pat, k, r, d) \in Nat

VARIABLES
  threshold,    (* threshold[k] of the k-th call,                          *)
  initialize,   (* and the call before which the program initializes the   *)
                (* grid; 0 if it does not.                                 *)
  trace,        (* The collectives of the original communicator a rank has *)
                (* entered, in order.                                      *)
  used          (* The exchange a rank decided on, one per call.           *)

program == <<threshold, initialize>>
vars == <<grid, pc, calls, rowSent, colSent, result, program, trace, used>>

Init ==
  /\ p \in Sizes
  /\ pattern \in Patterns
  /\ threshold \in [1 .. MaxCalls(p) -> Thresholds]
  /\ initialize \in 0 .. MaxCalls(p)
  /\ pc = [r \in Rank |-> "idle"]
  /\ calls = [r \in Rank |-> 0]
  /\ LET none == [r \in Rank |-> <<>>] IN
       /\ row = none /\ col = none
       /\ rowSent = none /\ colSent = none /\ result = none
       /\ trace = none /\ used = none

(* The collective behind a location. *)
Kind(location) ==
  CASE location = "user row"    -> "split row"
    [] location = "user column" -> "split column"
    [] OTHER                    -> location

(* Enter a collective and wait in it. *)
Enter(r, to) ==
  /\ pc' = [pc EXCEPT ![r] = to]
  /\ trace' = [trace EXCEPT ![r] = Append(@, Kind(to))]

(* The collective a rank is in is complete. *)
Complete(r) ==
  \A s \in Rank : Len(trace[s]) >= Len(trace[r]) /\ trace[s][Len(trace[r])] = Last(trace[r])

(* send_buf.size() in call k. *)
Volume(k, r) == SumFunction([d \in Rank |-> Count(pattern, k, r, d)])

-----------------------------------------------------------------------------
(* Plausible mistakes, used nowhere. *)
MaxBottleneckSendVolume_Local(r, k) == Volume(k, r)
Initialized_Never(r) == FALSE

-----------------------------------------------------------------------------
(* max_bottleneck_send_volume of call k. *)
MaxBottleneckSendVolume(r, k) == Max({Volume(k, s) : s \in Rank})

UseGrid(r, k) == MaxBottleneckSendVolume(r, k) < threshold[k]

(* _grid_communicator.has_value(): initialize() has nothing to do. *)
Initialized(r) == col[r] # <<>>

(* The explicit initialize(); nothing if the grid is there already. *)
UserInitialize(r) ==
  /\ pc[r] = "idle"
  /\ calls[r] + 1 = initialize
  /\ ~Initialized(r)
  /\ Enter(r, "user row")
  /\ UNCHANGED <<grid, calls, rowSent, colSent, result, program, used>>

Call(r) ==
  /\ pc[r] = "idle"
  /\ calls[r] < MaxCalls(p)
  /\ calls[r] + 1 = initialize => Initialized(r)
  /\ calls' = [calls EXCEPT ![r] = @ + 1]
  /\ Enter(r, "allreduce")
  /\ UNCHANGED <<grid, rowSent, colSent, result, program, used>>

(* The decision after the allreduce. *)
EndAllreduce(r) ==
  LET Decide(exchange) == used' = [used EXCEPT ![r] = Append(@, exchange)] IN
  /\ pc[r] = "allreduce"
  /\ Complete(r)
  /\ \/ /\ UseGrid(r, calls[r]) /\ Decide("grid")
        /\ \/ Initialized(r) /\ Rowwise(r) /\ UNCHANGED trace
           \/ ~Initialized(r) /\ Enter(r, "split row") /\ UNCHANGED rowSent
     \/ /\ ~UseGrid(r, calls[r]) /\ Decide("alltoallv")
        /\ Enter(r, "alltoallv") /\ UNCHANGED rowSent
  /\ UNCHANGED <<grid, calls, colSent, result, program>>

(* The constructor of the grid: the second split follows the first. *)
EndSplitRow(r) ==
  /\ pc[r] \in {"split row", "user row"}
  /\ Complete(r)
  /\ row' = [row EXCEPT ![r] = RowComm(p, r)]
  /\ Enter(r, IF pc[r] = "split row" THEN "split column" ELSE "user column")
  /\ UNCHANGED <<p, col, pattern, calls, rowSent, colSent, result, program, used>>

(* The grid is stored; a call goes on with the exchange. *)
EndSplitColumn(r) ==
  /\ pc[r] \in {"split column", "user column"}
  /\ Complete(r)
  /\ col' = [col EXCEPT ![r] = ColComm(p, r)]
  /\ \/ pc[r] = "split column" /\ Rowwise(r)
     \/ /\ pc[r] = "user column"
        /\ pc' = [pc EXCEPT ![r] = "idle"] /\ UNCHANGED rowSent
  /\ UNCHANGED <<p, row, pattern, calls, colSent, result, program, trace, used>>

(* Communicator::alltoallv, see Collectives. *)
EndAlltoallv(r) ==
  LET counts == [s \in Rank |-> Count(pattern, calls[r], s, r)] IN
  /\ pc[r] = "alltoallv"
  /\ Complete(r)
  /\ pc' = [pc EXCEPT ![r] = "idle"]
  /\ result' = [result EXCEPT ![r] =
       Append(@, [buf |-> Concat(PerRank([s \in Rank |-> Payloads(calls[r], s, r)])),
                  counts |-> counts, displs |-> ExclusiveScan(counts)])]
  /\ UNCHANGED <<grid, calls, rowSent, colSent, program, trace, used>>

(* The exchange over the grid. *)
Exchange(r) == (EndRowwise(r) \/ EndColumnwise(r)) /\ UNCHANGED <<program, trace, used>>

RankStep(r) ==
  \/ UserInitialize(r) \/ Call(r) \/ EndAllreduce(r) \/ EndSplitRow(r)
  \/ EndSplitColumn(r) \/ EndAlltoallv(r) \/ Exchange(r)

Next == \E r \in Rank : RankStep(r)

Spec == Init /\ [][Next]_vars

(* As long as some rank can go on, some rank does: no more is needed, for  *)
(* every step takes a rank further through its finitely many calls.        *)
FairSpec == Spec /\ WF_vars(Next)

-----------------------------------------------------------------------------
(* The ranks decide alone, yet their collectives always match: no rank is  *)
(* in a split or a grid exchange while another is in MPI_Alltoallv.        *)
CollectivesMatch ==
  \A r, s \in Rank : \A k \in DOMAIN trace[r] \cap DOMAIN trace[s] :
    trace[r][k] = trace[s][k]

(* The grid communicator is made at most once, by all ranks in the same    *)
(* call, and a rank sends over it only to ranks that are in a split or     *)
(* have come out of it too.                                                *)
GridMadeOnce ==
  \A r \in Rank :
    LET Splits(kind) == {k \in DOMAIN trace[r] : trace[r][k] = kind}
        Row == Splits("split row")
        Col == Splits("split column")
    IN  /\ Cardinality(Row) <= 1 /\ Cardinality(Col) <= 1
        /\ rowSent[r] # <<>> => \A s \in Rank : Contains(trace[s], "split column")

(* The ranks wait for each other in the collectives of the communicator,   *)
(* of its rows and of its columns, which finish in any order, but never in *)
(* a circle: every call of every rank returns.                             *)
AllReturn == <>(\A r \in Rank : Len(result[r]) = MaxCalls(p))
=============================================================================

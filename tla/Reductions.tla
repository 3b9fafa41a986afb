------------------------------ MODULE Reductions ------------------------------
(***************************************************************************)
(* The wrappers of the reductions (collectives/{reduce,allreduce,scan,     *)
(* exscan}.hpp) and the operations they build (operation_builder.hpp,      *)
(* mpi_ops.hpp): a call of one of them by every rank, or the same call in  *)
(* a loop, which is where an operation may be taken for an earlier one.    *)
(***************************************************************************)
EXTENDS MPICollectives

CONSTANTS
  Ops,                 (* The wrappers called.                             *)
  Operations,          (* The kinds of op() they are called with.          *)
  Sizes,               (* Elements in a send buffer.                       *)
  Roots,               (* root() of a reduce.                              *)
  RecvBuffers,         (* <<resize policy, size>> of a receive buffer.     *)
  OnRank0,             (* Elements of values_on_rank_0, or omitted.        *)
  Misuse,              (* Arguments the ranks may disagree on.             *)
  Rounds               (* Calls in the loop.                               *)

Omitted == -1

VARIABLES
  op,
  operation,    (* The kind of operation.                                   *)
  light,        (* assert::light_communication is enabled.                  *)
  args,         (* The arguments of each rank.                              *)
  round,        (* round[r]: which call of the loop rank r makes.           *)
  func,         (* func[r]: what the static copy of a lambda has captured.  *)
  buf           (* buf[r]: the receive buffer.                              *)

vars == <<at, calls, op, operation, light, args, round, func, buf>>

Reduces == {"reduce", "reduce_single"}
Exscans == {"exscan", "exscan_inplace", "exscan_single"}
Inplace == {"allreduce_inplace", "scan_inplace", "exscan_inplace"}
Singles == {"reduce_single", "allreduce_single", "scan_single", "exscan_single"}

ASSUME ArgumentsAssumption ==
  /\ Ops \subseteq Reduces \cup Exscans \cup Inplace \cup Singles \cup {"allreduce", "scan"}
  /\ Sizes \subseteq Nat /\ OnRank0 \subseteq Nat \cup {Omitted} /\ Rounds \in Nat
  /\ RecvBuffers \subseteq {"no_resize", "grow_only", "resize_to_fit"} \X Nat

(* What a functor captures differs from round to round; a functor made afresh has captured nothing. *)
Captured(r) == round[r]
Nothing == 0

Elements(r) == [j \in 1 .. args[r].size |-> <<"element", r, j>>]

SendBuf(r) == IF op \in Inplace THEN buf[r] ELSE Elements(r)

IsRoot(r) == r = args[r].root

(* send_recv_count(): by default the size of the send buffer. *)
CountOf(r) == IF args[r].count = Omitted THEN args[r].size ELSE args[r].count

(* One value per rank if the ranks may disagree on the argument, else one for all. *)
PerRank(argument, S) ==
  IF argument \in Misuse THEN [Rank -> S] ELSE {[r \in Rank |-> v] : v \in S}

InitialBuf(r) == IF op \in Inplace THEN Elements(r) ELSE [k \in 1 .. args[r].room |-> Old]

Init ==
  /\ op \in Ops
  /\ operation \in Operations
  /\ light \in BOOLEAN
  /\ \E size \in PerRank("size", IF op \in Singles THEN {1} ELSE Sizes),
        counted \in PerRank("count", IF op \in Singles THEN {Omitted} ELSE {Omitted} \cup Sizes),
        root \in PerRank("root", IF op \in Reduces THEN Roots ELSE {0}),
        room \in PerRank("room", IF op \in Singles THEN {<<"no_resize", 1>>} ELSE RecvBuffers),
        first \in IF op \in Exscans THEN OnRank0 ELSE {Omitted} :
       /\ \A r \in Rank : counted[r] = Omitted \/ counted[r] <= size[r]
       /\ args = [r \in Rank |-> [size |-> size[r], count |-> counted[r], root |-> root[r],
                                  policy |-> room[r][1], room |-> room[r][2], on_rank_0 |-> first]]
       /\ light \/ \A r, s \in Rank : args[r] = args[s]    (* Without the assertions nobody rejects a misuse. *)
  /\ round = [r \in Rank |-> 1]
  /\ func = [r \in Rank |-> Nothing]
  /\ buf = [r \in Rank |-> InitialBuf(r)]
  /\ at = [r \in Rank |-> "call"]
  /\ calls = [r \in Rank |-> << >>]

--------------------------------------------------------------------------------
(* Operations.  A reduction of one element is that element; of more it records whose *)
(* operator() has combined which elements, in the order of the ranks.                *)
Combination(by, elements) ==
  IF Len(elements) = 1 THEN elements[1] ELSE [by |-> by, of |-> elements]

(* A functor of the standard library or the ops on a type that MPI reduces itself. *)
IsBuiltin == operation = "builtin"
Identity  == <<"identity">>

(* The builder of an operation: a lambda is copied to a variable that is initialized once. *)
BuildOperation(r) ==
  func' = IF operation = "lambda" /\ func[r] = Nothing THEN [func EXCEPT ![r] = Captured(r)] ELSE func

(* What MPI calls: for a default constructible functor one that is made afresh, for a lambda *)
(* the static copy.  Operations of MPI and functors without state are what they were given as. *)
Called(r) ==
  CASE operation = "functor" -> Nothing
    [] operation = "lambda"  -> func[r]
    [] OTHER                 -> Captured(r)

--------------------------------------------------------------------------------
(* A plausible mistake, used nowhere. *)
AssertSame_NotOnRank0(r, value, next) ==
  IF light /\ r # 0 THEN Enter(r, Same(value), next) ELSE Go(r, next) /\ UNCHANGED calls

AssertSame(r, value, next) ==
  IF light THEN Enter(r, Same(value), next) ELSE Go(r, next) /\ UNCHANGED calls

(* Resize the receive buffer, assert that it is large enough, enter the reduction. *)
Reduction(r, kind, resize) ==
  LET n == CountOf(r)
      cells == IF resize THEN ResizeIfRequested(buf[r], args[r].policy, n) ELSE buf[r]
  IN  IF Len(cells) < n
      THEN Abort(r) /\ UNCHANGED buf
      ELSE /\ buf' = [buf EXCEPT ![r] = cells]
           /\ Enter(r, Collective(kind, args[r].root, ToAll(Slice(SendBuf(r), 0, n)), None), "reduced")

Reduce(r) ==
  /\ op \in Reduces
  /\ \/ /\ Runs(r, "call")
        /\ BuildOperation(r)
        /\ AssertSame(r, CountOf(r), "root")
        /\ UNCHANGED buf
     \/ /\ Runs(r, "root")
        /\ IF args[r].root \notin Rank THEN Abort(r) ELSE AssertSame(r, args[r].root, "data")
        /\ UNCHANGED <<buf, func>>
     \/ /\ Runs(r, "data")
        /\ IF IsRoot(r)
           THEN Reduction(r, "MPI_Reduce", TRUE)
           ELSE Enter(r, Collective("MPI_Reduce", args[r].root, ToAll(Slice(SendBuf(r), 0, CountOf(r))), None),
                      "reduced") /\ UNCHANGED buf
        /\ UNCHANGED func

(* Without a receive buffer of its own, allreduce_inplace does not resize. *)
Allreduce(r) ==
  /\ op \in {"allreduce", "allreduce_inplace", "allreduce_single"}
  /\ \/ /\ Runs(r, "call")
        /\ BuildOperation(r)
        /\ AssertSame(r, CountOf(r), "data")
        /\ UNCHANGED buf
     \/ Runs(r, "data") /\ Reduction(r, "MPI_Allreduce", op # "allreduce_inplace") /\ UNCHANGED func

Scan(r) ==
  /\ op \in {"scan", "scan_inplace", "scan_single"}
  /\ \/ Runs(r, "call") /\ AssertSame(r, CountOf(r), "data") /\ UNCHANGED <<buf, func>>
     \/ Runs(r, "data") /\ BuildOperation(r) /\ Reduction(r, "MPI_Scan", TRUE)

(* Out of place, the sizes of the send buffers are compared as well. *)
Exscan(r) ==
  /\ op \in Exscans
  /\ \/ /\ Runs(r, "call")
        /\ IF op = "exscan_inplace"
           THEN AssertSame(r, CountOf(r), "data")
           ELSE AssertSame(r, args[r].size, "count")
        /\ UNCHANGED <<buf, func>>
     \/ Runs(r, "count") /\ AssertSame(r, CountOf(r), "data") /\ UNCHANGED <<buf, func>>
     \/ Runs(r, "data") /\ BuildOperation(r) /\ Reduction(r, "MPI_Exscan", TRUE)

(* What the reduction has left in the first cells of a rank that receives a result. *)
Reduced(r) ==
  [j \in 1 .. CountOf(r) |->
     Combination(Called(r), [i \in 1 .. Cardinality(SendersOf(r)) |-> Delivered(r)[i - 1][j]])]

(* Write the first cells of the buffer. *)
Overwrite(cells, values) == [k \in DOMAIN cells |-> IF k \in DOMAIN values THEN values[k] ELSE cells[k]]

(* Plausible mistakes, used nowhere. *)
ValuesOnRank0Fit_WholeBuffer(r) ==
  args[r].on_rank_0 = 1 \/ args[r].on_rank_0 = Len(buf[r])

ValuesOnRank0Fit(r) == args[r].on_rank_0 = 1 \/ args[r].on_rank_0 = CountOf(r)

(* MPI leaves the buffer of rank 0 undefined: it gets the values given for it, or the identity. *)
Undefined == <<"undefined">>

(* A plausible mistake, used nowhere. *)
OnRank0Cells_WholeBuffer(r) ==
  [j \in DOMAIN buf[r] |-> IF args[r].on_rank_0 = Omitted THEN Identity ELSE <<"on rank 0", j>>]

OnRank0Cells(r) ==
  [j \in 1 .. CountOf(r) |->
     IF args[r].on_rank_0 = Omitted THEN IF IsBuiltin THEN Identity ELSE Undefined
     ELSE <<"on rank 0", IF args[r].on_rank_0 = 1 THEN 1 ELSE j>>]

(* The ranks whose buffer the reduction fills. *)
HasResult(r) == op \in Reduces => IsRoot(r)

(* The reduction has completed; the result object is returned. *)
Return(r) ==
  /\ Runs(r, "reduced")
  /\ IF op \in Exscans /\ r = 0
     THEN IF args[r].on_rank_0 # Omitted /\ ~ValuesOnRank0Fit(r)
          THEN Go(r, "aborted") /\ UNCHANGED buf
          ELSE Go(r, "returned") /\ buf' = [buf EXCEPT ![r] = Overwrite(@, OnRank0Cells(r))]
     ELSE /\ Go(r, "returned")
          /\ buf' = [buf EXCEPT ![r] = IF HasResult(r) THEN Overwrite(@, Reduced(r)) ELSE @]
  /\ UNCHANGED <<calls, func, round>>

(* The next call of the loop, with new buffers. *)
Again(r) ==
  /\ at[r] = "returned" /\ round[r] < Rounds
  /\ Go(r, "call")
  /\ round' = [round EXCEPT ![r] = @ + 1]
  /\ buf' = [buf EXCEPT ![r] = InitialBuf(r)]
  /\ UNCHANGED <<calls, func>>

(* The ranks turn out to disagree. *)
Disagree(r) == at[r] \notin Ended /\ CanLeave(r) /\ ~Agreed(r) /\ Reject(r) /\ UNCHANGED <<buf, func, round>>

Call(r) ==
  /\ \/ (Reduce(r) \/ Allreduce(r) \/ Scan(r) \/ Exscan(r)) /\ UNCHANGED round
     \/ Return(r) \/ Again(r) \/ Disagree(r)
  /\ UNCHANGED <<op, operation, light, args>>

(* Everybody is done, or an assertion has ended the program. *)
Finished ==
  \/ \A r \in Rank : at[r] = "rejected" \/ (at[r] = "returned" /\ round[r] = Rounds)
  \/ \E r \in Rank : at[r] = "aborted"

Next == (\E r \in Rank : Call(r)) \/ (Finished /\ UNCHANGED vars)

Spec == Init /\ [][Next]_vars

--------------------------------------------------------------------------------
(* The ranks whose elements a rank's result combines. *)
Sources(r) ==
  CASE op \in {"scan", "scan_inplace", "scan_single"} -> 0 .. r
    [] op \in Exscans -> 0 .. r - 1
    [] OTHER -> Rank

(* What a rank is promised in a cell, with the operation of its call. *)
Promised(r, j) ==
  IF Sources(r) = {}
  THEN IF args[r].on_rank_0 # Omitted
       THEN <<"on rank 0", IF args[r].on_rank_0 = 1 THEN 1 ELSE j>>
       ELSE IF IsBuiltin THEN Identity ELSE Undefined
  ELSE Combination(Captured(r), [i \in 1 .. Cardinality(Sources(r)) |-> <<"element", i - 1, j>>])

(* The size of a buffer after the call: that of its policy, and 1 for a single value. *)
SizeAfter(r) ==
  LET before == Len(InitialBuf(r))
  IN  IF ~HasResult(r) \/ op = "allreduce_inplace" THEN before
      ELSE CASE args[r].policy = "resize_to_fit" -> CountOf(r)
             [] args[r].policy = "grow_only" -> IF before < CountOf(r) THEN CountOf(r) ELSE before
             [] args[r].policy = "no_resize" -> before

(* A call that returns a result has combined, for each of the first count cells, the elements of    *)
(* the ranks the wrapper names, of all of them for reduce and allreduce, up to or below the own     *)
(* rank for scan and exscan, by the operation it was given; rank 0 of an exscan has the values      *)
(* given for it, or the identity where it is known.  Cells behind them are as before, and the       *)
(* buffer has the size of its policy (the comments of the wrappers).                                *)
ReducesWithGivenOperation ==
  \A r \in Rank : at[r] = "returned" =>
    /\ Len(buf[r]) = SizeAfter(r)
    /\ (op \in Reduces => r = args[r].root) => \A j \in 1 .. CountOf(r) : buf[r][j] = Promised(r, j)
    /\ \A k \in DOMAIN buf[r] :
         (op \in Reduces /\ r # args[r].root) \/ k > CountOf(r) =>
           buf[r][k] = IF k <= Len(InitialBuf(r)) THEN InitialBuf(r)[k] ELSE New

(* The ranks disagree on an argument that MPI demands be the same, or that the wrapper does. *)
Disagreement ==
  \E r, s \in Rank :
    \/ CountOf(r) # CountOf(s)
    \/ op \in Reduces /\ args[r].root # args[s].root
    \/ op = "exscan" /\ args[r].size # args[s].size

(* The sizes the documentation allows, that of values_on_rank_0 taken from a buffer just large enough. *)
Legal ==
  /\ ~Disagreement
  /\ \A r \in Rank :
       /\ op \in Reduces => args[r].root \in Rank
       /\ HasResult(r) /\ args[r].policy = "no_resize" => CountOf(r) <= Len(InitialBuf(r))
       /\ args[r].on_rank_0 \in {Omitted, 1, CountOf(r)}

(* No assertion stops a legal call; with the absence of deadlock, every one returns. *)
LegalReturns == Legal => \A r \in Rank : at[r] \notin {"aborted", "rejected"}

(* When the assertions communicate and the ranks disagree on the count, the root or, out of     *)
(* place, the sizes of an exscan, every rank is told before the reduction and none returns.     *)
MisuseRejected == light /\ Disagreement => \A r \in Rank : at[r] # "returned" /\ at[r] # "reduced"
================================================================================

------------------------------ MODULE Collectives ------------------------------
(***************************************************************************)
(* The wrappers of the data-moving collectives (collectives/*.hpp): one    *)
(* call of one of them by every rank.  A wrapper is a chain of MPI         *)
(* collectives: assertions that the ranks agree, the exchange of counts    *)
(* nobody gave (itself a wrapper), then the data.  A step is the code      *)
(* between two collectives and the entry of the second one.                *)
(***************************************************************************)
EXTENDS MPICollectives

CONSTANTS
  Ops,                 (* The wrappers called.                             *)
  Amounts,             (* Elements of one message.                         *)
  Roots,               (* root() of a rooted wrapper.                      *)
  RecvBuffers,         (* <<resize policy, size>> of a receive buffer.     *)
  SendDispls,          (* How send displacements may be given.             *)
  Slack,               (* Entries send_counts has beyond size().           *)
  Misuses,             (* Sets of arguments the ranks may disagree on.     *)
  LightCommunication   (* Whether assert::light_communication may be on.   *)

ASSUME LightAssumption == LightCommunication \subseteq BOOLEAN

VARIABLES
  op,
  light,        (* assert::light_communication is enabled.                  *)
  amount,       (* amount[s][t]: elements rank s has for rank t.           *)
  args,         (* The arguments of each rank.                             *)
  counts,       (* The receive counts a rank knows,                        *)
  displs,       (* its receive displacements,                              *)
  buf           (* and its receive buffer.                                 *)

local == <<counts, displs, buf>>
vars  == <<at, calls, op, light, amount, args, counts, displs, buf>>

Inplace   == {"allgather_inplace", "alltoall_inplace"}
Gathers   == {"gather", "gatherv"}
Scatters  == {"scatter", "scatter_single", "scatterv"}
Bcasts    == {"bcast", "bcast_single"}
Exchanges == {"alltoall", "alltoallv", "alltoall_inplace"}
Rooted    == Gathers \cup Scatters \cup Bcasts

ASSUME ArgumentsAssumption ==
  /\ Ops \subseteq Inplace \cup Rooted \cup Exchanges \cup {"allgather", "allgatherv"}
  /\ Amounts \subseteq Nat /\ Roots \subseteq Rank /\ Slack \subseteq Nat
  /\ SendDispls \subseteq {"given", "omitted"}
  /\ RecvBuffers \subseteq {"no_resize", "grow_only", "resize_to_fit"} \X Nat

(* The message of rank s for rank t; one that is for all is the one for itself. *)
Msg(s, t) == [j \in 1 .. amount[s][t] |-> <<s, t, j>>]

Ascending(f)  == FlattenSeq([i \in 1 .. P |-> f[i - 1]])
Descending(f) == FlattenSeq([i \in 1 .. P |-> f[P - i]])

(* The messages of a rank that sends a different one to each, as laid out by the *)
(* caller: in rank order, or in the reverse order with displacements that say so. *)
SendBuf(s) ==
  LET messages == [t \in Rank |-> Msg(s, t)]
  IN  IF args[s].send_displs = "omitted" THEN Ascending(messages) ELSE Descending(messages)

ReverseScan(cs) == [s \in Rank |-> FoldFunctionOnSet(LAMBDA x, y : x + y, 0, cs, s + 1 .. P - 1)]

(* A caller who gives receive displacements leaves one cell free and reverses the order. *)
GivenRecvDispls(cs) == [s \in Rank |-> 1 + ReverseScan(cs)[s]]

GivenSendDispls(r) == ReverseScan(amount[r])

Root(r)   == args[r].root
IsRoot(r) == r = Root(r)

(* The wrapper has to find the receive counts: they are not given, or this rank ignores them. *)
Computes(r) == args[r].counts # "given"

(* The wrappers that compare arguments between the ranks before anything depends on them. *)
Comparing == {"gather", "gatherv", "allgather", "allgatherv", "scatter", "scatterv", "alltoallv", "bcast"}

(* The wrappers called with a misuse: bcast_single finds out about a root with no buffer only. *)
Asserting(misuse) == IF misuse = {"buffer"} THEN Bcasts ELSE Comparing

(* One value per rank if the ranks may disagree on the argument, else one for all. *)
PerRank(misuse, argument, S) ==
  IF argument \in misuse THEN [Rank -> S] ELSE {[r \in Rank |-> v] : v \in S}

CountArguments ==
  CASE op \in {"gather", "allgather", "alltoall", "scatter_single", "bcast_single"} -> {"given"}
    [] OTHER -> {"given", "omitted"}

(* The messages the wrapper is meant for. *)
AmountsOf(misuse) ==
  CASE op = "alltoallv" /\ misuse = {} -> [Rank -> [Rank -> Amounts]]
    [] op \in {"gatherv", "allgatherv"} \/ (op = "allgather" /\ "amount" \in misuse) ->
         {[s \in Rank |-> [t \in Rank |-> a[s]]] : a \in [Rank -> Amounts]}
    [] op = "scatterv" -> {[s \in Rank |-> a] : a \in [Rank -> Amounts]}
    [] op \in {"scatter_single", "bcast_single"} -> {[s \in Rank |-> [t \in Rank |-> 1]]}
    [] OTHER -> {[s \in Rank |-> [t \in Rank |-> n]] : n \in Amounts}

InitialBuf(r) ==
  CASE op = "allgather_inplace" ->
         Ascending([s \in Rank |-> IF s = r THEN Msg(r, r) ELSE [j \in 1 .. amount[r][r] |-> Old]])
    [] op = "alltoall_inplace" -> Ascending([t \in Rank |-> Msg(r, t)])
    [] op \in Bcasts /\ IsRoot(r) -> Msg(r, r)
    [] OTHER -> [k \in 1 .. args[r].room |-> Old]

(* Ranks that disagree do so with the assertions enabled, and let the wrapper resize their buffers. *)
InitWith(misuse) ==
  /\ op \in IF misuse = {} THEN Ops ELSE Ops \cap Asserting(misuse)
  /\ light \in IF misuse = {} THEN LightCommunication ELSE {TRUE}
  /\ amount \in AmountsOf(misuse)
  /\ \E root \in PerRank(misuse, "root", IF op \in Rooted THEN Roots ELSE {0}),
        counted \in PerRank(misuse, "counts", CountArguments),
        ignored \in IF op = "gatherv" THEN BOOLEAN ELSE {FALSE},
        sent \in PerRank(misuse, "send_displs", IF op \in {"alltoallv", "scatterv"} THEN SendDispls ELSE {"omitted"}),
        placed \in PerRank(misuse, "recv_displs",
                           IF op \in {"gatherv", "allgatherv", "alltoallv"} THEN {"given", "omitted"} ELSE {"omitted"}),
        has \in PerRank(misuse, "buffer", IF "buffer" \in misuse /\ op \in Bcasts
                                  THEN BOOLEAN ELSE {TRUE}),
        room \in [Rank -> CASE op \in Inplace -> {<<"no_resize", 0>>}
                          [] misuse # {} -> {<<"resize_to_fit", 0>>}
                          [] OTHER -> RecvBuffers],
        slack \in IF op \in {"alltoallv", "scatterv"} THEN Slack ELSE {0} :
       args = [r \in Rank |->
                [root |-> root[r], send_displs |-> sent[r], recv_displs |-> placed[r],
                 counts |-> IF ignored /\ counted[r] = "omitted" /\ r # root[r] THEN "ignored" ELSE counted[r],
                 buffer |-> has[r], slack |-> slack, policy |-> room[r][1], room |-> room[r][2]]]
  /\ counts = [r \in Rank |-> None]
  /\ displs = [r \in Rank |-> None]
  /\ buf = [r \in Rank |-> InitialBuf(r)]
  /\ at = [r \in Rank |-> "call"]
  /\ calls = [r \in Rank |-> << >>]

Init == \E misuse \in Misuses : InitWith(misuse)

--------------------------------------------------------------------------------
(* Plausible mistakes, used nowhere. *)
AssertSame_NotAtRoot(r, value, next) ==
  IF light /\ ~IsRoot(r)
  THEN Enter(r, Same(value), next)
  ELSE Go(r, next) /\ UNCHANGED calls

AssertSame(r, value, next) ==
  IF light
  THEN Enter(r, Same(value), next)
  ELSE Go(r, next) /\ UNCHANGED calls

(* Resize the receive buffer, assert that it is large enough, enter the collective. *)
Receive(r, cs, ds, need, collective) ==
  LET cells == ResizeIfRequested(buf[r], args[r].policy, need)
  IN  IF Len(cells) < need
      THEN Abort(r) /\ UNCHANGED local
      ELSE /\ counts' = [counts EXCEPT ![r] = cs]
           /\ displs' = [displs EXCEPT ![r] = ds]
           /\ buf' = [buf EXCEPT ![r] = cells]
           /\ Enter(r, collective, "return")

(* One number from each sender. *)
Numbers(r) == [s \in DOMAIN Delivered(r) |-> Delivered(r)[s][1]]

(* The same number of elements from every rank, in rank order. *)
ReceiveEqual(r, kind, out, n) ==
  LET cs == [s \in Rank |-> n]
  IN  Receive(r, cs, [s \in Rank |-> s * n], n * P, Collective(kind, Root(r), out, cs))

(* A different number from each, where the displacements say. *)
ReceiveVector(r, kind, out, cs) ==
  LET computed == args[r].recv_displs = "omitted"
      ds == IF computed THEN ExclusiveScan(cs) ELSE GivenRecvDispls(cs)
  IN  Receive(r, cs, ds, RequiredSize(cs, ds, computed), Collective(kind, Root(r), out, cs))

(* n elements from the root. *)
ReceiveFromRoot(r, kind, out, n) ==
  LET cs == [s \in {Root(r)} |-> n]
  IN  Receive(r, cs, [s \in {Root(r)} |-> 0], n, Collective(kind, Root(r), out, cs))

SendOnly(r, kind, out) == Enter(r, Collective(kind, Root(r), out, None), "return") /\ UNCHANGED local

Gather(r) ==
  /\ op = "gather"
  /\ \/ Runs(r, "call") /\ AssertSame(r, Root(r), "data") /\ UNCHANGED local
     \/ /\ Runs(r, "data")
        /\ IF IsRoot(r)
           THEN ReceiveEqual(r, "MPI_Gather", ToAll(Msg(r, r)), Len(Msg(r, r)))
           ELSE SendOnly(r, "MPI_Gather", ToAll(Msg(r, r)))

Gatherv(r) ==
  /\ op = "gatherv"
  /\ \/ /\ Runs(r, "call")
        /\ IF IsRoot(r) /\ args[r].counts = "ignored" THEN Abort(r) ELSE AssertSame(r, Root(r), "computes")
        /\ UNCHANGED local
     \/ /\ Runs(r, "computes")
        /\ AssertSame(r, Computes(r), IF Computes(r) THEN "counts" ELSE "data")
        /\ UNCHANGED local
     \/ Runs(r, "counts") /\ AssertSame(r, Root(r), "exchange") /\ UNCHANGED local
     \/ /\ Runs(r, "exchange")
        /\ Enter(r, Collective("MPI_Gather", Root(r), ToAll(<<Len(Msg(r, r))>>),
                               IF IsRoot(r) THEN [s \in Rank |-> 1] ELSE None), "data")
        /\ UNCHANGED local
     \/ /\ Runs(r, "data")
        /\ IF IsRoot(r)
           THEN ReceiveVector(r, "MPI_Gatherv", ToAll(Msg(r, r)),
                              IF Computes(r) THEN Numbers(r) ELSE [s \in Rank |-> amount[s][s]])
           ELSE SendOnly(r, "MPI_Gatherv", ToAll(Msg(r, r)))

Allgather(r) ==
  /\ op = "allgather"
  /\ \/ Runs(r, "call") /\ AssertSame(r, Len(Msg(r, r)), "data") /\ UNCHANGED local
     \/ Runs(r, "data") /\ ReceiveEqual(r, "MPI_Allgather", ToAll(Msg(r, r)), Len(Msg(r, r)))

AllgatherInplace(r) ==
  /\ op = "allgather_inplace"
  /\ \/ Runs(r, "call") /\ AssertSame(r, Len(buf[r]), "data") /\ UNCHANGED local
     \/ /\ Runs(r, "data")
        /\ LET n == IF Computes(r) THEN Len(buf[r]) \div P ELSE amount[r][r]
           IN  IF Computes(r) /\ Len(buf[r]) % P # 0
               THEN Abort(r) /\ UNCHANGED local
               ELSE ReceiveEqual(r, "MPI_Allgather", ToAll(Slice(buf[r], r * n, n)), n)

Allgatherv(r) ==
  /\ op = "allgatherv"
  /\ \/ /\ Runs(r, "call")
        /\ AssertSame(r, Computes(r), IF Computes(r) THEN "counts" ELSE "displs")
        /\ UNCHANGED local
     \/ Runs(r, "counts") /\ AssertSame(r, 1, "exchange") /\ UNCHANGED local
     \/ /\ Runs(r, "exchange")
        /\ Enter(r, Collective("MPI_Allgather", 0, ToAll(<<Len(Msg(r, r))>>), [s \in Rank |-> 1]), "displs")
        /\ UNCHANGED local
     \/ /\ Runs(r, "displs")
        /\ counts' = [counts EXCEPT ![r] = IF Computes(r) THEN Numbers(r) ELSE [s \in Rank |-> amount[s][s]]]
        /\ AssertSame(r, args[r].recv_displs = "omitted", "data")
        /\ UNCHANGED <<displs, buf>>
     \/ Runs(r, "data") /\ ReceiveVector(r, "MPI_Allgatherv", ToAll(Msg(r, r)), counts[r])

(* A broadcast of one number whose size everybody knows, by bcast_single.  Its stages: *)
(* "flag", "bcast", "bcast count", "value". *)
BroadcastNumber(r, number, next) ==
  /\ \/ /\ Runs(r, "flag")
        /\ IF light
           THEN Enter(r, Collective("MPI_Bcast", Root(r), ToAll(<<TRUE>>), [s \in {Root(r)} |-> 1]), "bcast")
           ELSE Go(r, "bcast") /\ UNCHANGED calls
     \/ Runs(r, "bcast") /\ AssertSame(r, Root(r), "bcast count")
     \/ Runs(r, "bcast count") /\ AssertSame(r, FALSE, "value")
     \/ /\ Runs(r, "value")
        /\ Enter(r, Collective("MPI_Bcast", Root(r), ToAll(<<number>>), [s \in {Root(r)} |-> 1]), next)
  /\ UNCHANGED local

(* send_buf.data() of the root is not null: an empty container has no data. *)
HasData(r) == args[r].buffer /\ SendBuf(r) # << >>

(* The messages in the send buffer for each rank, from where the wrapper says. *)
Blocks(r, cs, ds) == [t \in Rank |-> Slice(SendBuf(r), ds[t], cs[t])]

EqualBlocks(r) ==
  LET n == Len(SendBuf(r)) \div P IN Blocks(r, [t \in Rank |-> n], [t \in Rank |-> t * n])

(* The root of a scatter_single has a buffer with one element for each rank. *)
SingleBuffer(r) == args[r].buffer /\ Len(SendBuf(r)) = P

(* scatter, and scatter_single, which asserts at the root and calls scatter. *)
Scatter(r) ==
  /\ op \in {"scatter", "scatter_single"}
  /\ \/ /\ Runs(r, "call")
        /\ IF op = "scatter_single" /\ IsRoot(r) /\ ~SingleBuffer(r)
           THEN Abort(r) ELSE AssertSame(r, Root(r), "buffer")
        /\ UNCHANGED local
     \/ /\ Runs(r, "buffer")
        /\ IF IsRoot(r) /\ (~HasData(r) \/ Len(SendBuf(r)) % P # 0)
           THEN Abort(r) ELSE AssertSame(r, Computes(r), IF Computes(r) THEN "flag" ELSE "data")
        /\ UNCHANGED local
     \/ BroadcastNumber(r, Len(SendBuf(r)) \div P, "data")
     \/ /\ Runs(r, "data")
        /\ ReceiveFromRoot(r, "MPI_Scatter", EqualBlocks(r),
                           IF Computes(r) THEN Numbers(r)[Root(r)] ELSE amount[Root(r)][r])

SendDisplsOf(r) ==
  IF args[r].send_displs = "omitted" THEN ExclusiveScan(amount[r]) ELSE GivenSendDispls(r)

(* Plausible mistakes, used nowhere. *)
OneEach_Rotated(r) == [t \in Rank |-> <<amount[r][(t + 1) % P]>>]

(* One entry of send_counts for each rank. *)
OneEach(r) == [t \in Rank |-> <<amount[r][t]>>]

Scatterv(r) ==
  /\ op = "scatterv"
  /\ \/ Runs(r, "call") /\ AssertSame(r, Root(r), "buffer") /\ UNCHANGED local
     \/ /\ Runs(r, "buffer")
        /\ IF IsRoot(r) /\ ~HasData(r)
           THEN Abort(r) ELSE AssertSame(r, Computes(r), IF Computes(r) THEN "counts" ELSE "data")
        /\ UNCHANGED local
     \/ Runs(r, "counts") /\ AssertSame(r, Root(r), "counts given") /\ UNCHANGED local
     \/ /\ Runs(r, "counts given")
        /\ IF IsRoot(r) /\ (P + args[r].slack) % P # 0 THEN Abort(r) ELSE AssertSame(r, FALSE, "exchange")
        /\ UNCHANGED local
     \/ /\ Runs(r, "exchange")
        /\ Enter(r, Collective("MPI_Scatter", Root(r), OneEach(r), [s \in {Root(r)} |-> 1]), "data")
        /\ UNCHANGED local
     \/ /\ Runs(r, "data")
        /\ ReceiveFromRoot(r, "MPI_Scatterv", Blocks(r, amount[r], SendDisplsOf(r)),
                           IF Computes(r) THEN Numbers(r)[Root(r)] ELSE amount[Root(r)][r])

Alltoall(r) ==
  /\ op = "alltoall"
  /\ Runs(r, "call")
  /\ IF SendBuf(r) = << >>
     THEN Abort(r) /\ UNCHANGED local
     ELSE ReceiveEqual(r, "MPI_Alltoall", EqualBlocks(r), Len(SendBuf(r)) \div P)

AlltoallInplace(r) ==
  /\ op = "alltoall_inplace"
  /\ Runs(r, "call")
  /\ LET n == IF Computes(r) THEN Len(buf[r]) \div P ELSE amount[r][r]
     IN  IF Computes(r) /\ Len(buf[r]) % P # 0
         THEN Abort(r) /\ UNCHANGED local
         ELSE ReceiveEqual(r, "MPI_Alltoall", [t \in Rank |-> Slice(buf[r], t * n, n)], n)

(* A plausible mistake, used nowhere. *)
SendBufLargeEnough_Strict(r) == amount[r][P - 1] + SendDisplsOf(r)[P - 1] < Len(SendBuf(r))

(* The assertion that send_buf is large enough looks at the last rank only. *)
SendBufLargeEnough(r) == amount[r][P - 1] + SendDisplsOf(r)[P - 1] <= Len(SendBuf(r))

Alltoallv(r) ==
  /\ op = "alltoallv"
  /\ \/ /\ Runs(r, "call")
        /\ AssertSame(r, Computes(r), IF Computes(r) THEN "exchange" ELSE "send displs")
        /\ UNCHANGED local
     \/ /\ Runs(r, "exchange")
        /\ IF (P + args[r].slack) % P # 0 \/ P + args[r].slack > P
           THEN Abort(r)
           ELSE Enter(r, Collective("MPI_Alltoall", 0, OneEach(r), [s \in Rank |-> 1]), "send displs")
        /\ UNCHANGED local
     \/ /\ Runs(r, "send displs")
        /\ counts' = [counts EXCEPT ![r] = IF Computes(r) THEN Numbers(r) ELSE [s \in Rank |-> amount[s][r]]]
        /\ AssertSame(r, args[r].send_displs = "omitted", "recv displs")
        /\ UNCHANGED <<displs, buf>>
     \/ /\ Runs(r, "recv displs")
        /\ IF SendBufLargeEnough(r) THEN AssertSame(r, args[r].recv_displs = "omitted", "data") ELSE Abort(r)
        /\ UNCHANGED local
     \/ /\ Runs(r, "data")
        /\ ReceiveVector(r, "MPI_Alltoallv", Blocks(r, amount[r], SendDisplsOf(r)), counts[r])

NO_BUF_ON_ROOT == -1

(* A plausible mistake, used nowhere. *)
CountToSend_NoSignal(r) == Len(buf[r])

(* The root tells the others that it has no buffer by an impossible count. *)
CountToSend(r) == IF args[r].buffer THEN Len(buf[r]) ELSE NO_BUF_ON_ROOT

(* bcast, and bcast_single, which tells everybody first whether the root has a buffer. *)
Bcast(r) ==
  /\ op \in {"bcast", "bcast_single"}
  /\ \/ /\ op = "bcast_single" /\ Runs(r, "call")
        /\ IF light
           THEN Enter(r, Collective("MPI_Bcast", Root(r), ToAll(<<args[r].buffer>>), [s \in {Root(r)} |-> 1]), "root")
           ELSE Go(r, "root") /\ UNCHANGED calls
        /\ UNCHANGED local
     \/ /\ Runs(r, IF op = "bcast" THEN "call" ELSE "root")
        /\ IF op = "bcast_single" /\ light /\ ~Delivered(r)[Root(r)][1]
           THEN Reject(r) ELSE AssertSame(r, Root(r), "computes")
        /\ UNCHANGED local
     \/ /\ Runs(r, "computes")
        /\ AssertSame(r, Computes(r), IF Computes(r) THEN "count" ELSE "given")
        /\ UNCHANGED local
     \/ /\ Runs(r, "count")
        /\ Enter(r, Collective("MPI_Bcast", Root(r), ToAll(<<CountToSend(r)>>), [s \in {Root(r)} |-> 1]), "data")
        /\ UNCHANGED local
     \/ /\ Runs(r, IF Computes(r) THEN "data" ELSE "given")
        /\ LET n == IF Computes(r) THEN Numbers(r)[Root(r)] ELSE amount[Root(r)][Root(r)]
               out == ToAll(Slice(buf[r], 0, n))
           IN  IF n = NO_BUF_ON_ROOT THEN Reject(r) /\ UNCHANGED local
               ELSE IF IsRoot(r) /\ ~args[r].buffer THEN Abort(r) /\ UNCHANGED local
               ELSE IF IsRoot(r)
                    THEN Enter(r, Collective("MPI_Bcast", r, out, [s \in {r} |-> n]), "return") /\
                         displs' = [displs EXCEPT ![r] = [s \in {r} |-> 0]] /\ UNCHANGED <<counts, buf>>
                    ELSE ReceiveFromRoot(r, "MPI_Bcast", out, n)

(* The data has arrived; the result object is returned. *)
Return(r) ==
  /\ Runs(r, "return")
  /\ buf' = [buf EXCEPT ![r] = Written(@, Delivered(r), displs[r])]
  /\ Go(r, "returned")
  /\ UNCHANGED <<calls, counts, displs>>

(* The ranks turn out to disagree. *)
Disagree(r) == at[r] \notin Ended /\ CanLeave(r) /\ ~Agreed(r) /\ Reject(r) /\ UNCHANGED local

(* Everybody is done, or an assertion has ended the program. *)
Finished == (\A r \in Rank : at[r] \in Ended) \/ (\E r \in Rank : at[r] = "aborted")

Terminated == Finished /\ UNCHANGED vars

Call(r) ==
  /\ \/ Gather(r) \/ Gatherv(r)
     \/ Allgather(r) \/ AllgatherInplace(r) \/ Allgatherv(r)
     \/ Scatter(r) \/ Scatterv(r)
     \/ Alltoall(r) \/ AlltoallInplace(r) \/ Alltoallv(r)
     \/ Bcast(r)
     \/ Return(r) \/ Disagree(r)
  /\ UNCHANGED <<op, light, amount, args>>

Next == (\E r \in Rank : Call(r)) \/ Terminated

Spec == Init /\ [][Next]_vars

--------------------------------------------------------------------------------
Block == Seq(UNION {{<<s, t, j>> : j \in 1 .. amount[s][t]} : s \in Rank, t \in Rank} \cup {Old, New, Over})

(* The state of the ranks stays within its types. *)
TypeOK ==
  /\ \A r \in Rank :
       /\ \A i \in DOMAIN calls[r] : calls[r][i].root \in Rank /\ DOMAIN calls[r][i].out = Rank
       /\ DOMAIN counts[r] \subseteq Rank /\ \A s \in DOMAIN counts[r] : counts[r][s] \in Nat
       /\ DOMAIN displs[r] \subseteq Rank /\ \A s \in DOMAIN displs[r] : displs[r][s] \in Nat
       /\ buf[r] \in Block
  /\ at \in [Rank -> Ended \cup {"call", "computes", "counts", "counts given", "exchange", "displs", "data", "buffer",
                          "flag", "bcast", "bcast count", "value", "send displs", "recv displs", "root", "count",
                          "given", "return"}]

(* The messages a caller is promised, by sender. *)
Promised(r) ==
  CASE op \in Gathers   -> IF IsRoot(r) THEN [s \in Rank |-> Msg(s, s)] ELSE << >>
    [] op \in Scatters  -> [s \in {Root(r)} |-> Msg(s, r)]
    [] op \in Bcasts    -> [s \in {Root(r)} |-> Msg(s, s)]
    [] op \in Exchanges -> [s \in Rank |-> Msg(s, r)]
    [] OTHER            -> [s \in Rank |-> Msg(s, s)]

(* Where a message is to be: after those of the lower ranks, or where the caller says. *)
Place(r, s) ==
  LET lengths == [t \in DOMAIN Promised(r) |-> Len(Promised(r)[t])]
  IN  IF args[r].recv_displs = "omitted"
      THEN FoldFunctionOnSet(LAMBDA x, y : x + y, 0, lengths, {t \in DOMAIN lengths : t < s})
      ELSE GivenRecvDispls(lengths)[s]

Cells(r, s) == {Place(r, s) + j : j \in DOMAIN Promised(r)[s]}

Needed(r) ==
  LET ends == {0} \cup {Place(r, s) + Len(Promised(r)[s]) : s \in DOMAIN Promised(r)}
  IN  CHOOSE n \in ends : \A m \in ends : m <= n

(* The buffer a rank came with, and its size afterwards.  A rank that receives nothing keeps its  *)
(* size: resize_if_requested is called on the receivers only.                                    *)
Size(r) == Len(InitialBuf(r))

Receives(r) == DOMAIN Promised(r) # {} /\ ~(op \in Bcasts /\ IsRoot(r))

SizeAfter(r) ==
  IF ~Receives(r) THEN Size(r)
  ELSE CASE args[r].policy = "resize_to_fit" -> Needed(r)
         [] args[r].policy = "grow_only"     -> IF Size(r) < Needed(r) THEN Needed(r) ELSE Size(r)
         [] args[r].policy = "no_resize"     -> Size(r)

(* A call that returns has delivered every message of the ranks it receives from, whole and  *)
(* where its displacements say, and has resized the buffer as its policy says and touched no *)
(* other cell of it (docs/resize_policy.dox, the comments of the wrappers), whatever counts  *)
(* and displacements the caller left to the wrapper.  A rank that receives nothing has its   *)
(* buffer back as it was: that is what the comment of gather says, and the tests of gatherv  *)
(* ("buffer will not be touched", mpi_gatherv_test.cpp:335).  The comment of gatherv promises *)
(* an empty buffer instead, which is OtherRanksEmpty and does not hold.                      *)
ReturnsPromise ==
  \A r \in Rank : at[r] = "returned" =>
    /\ Len(buf[r]) = SizeAfter(r)
    /\ \A s \in DOMAIN Promised(r) : \A j \in DOMAIN Promised(r)[s] :
         /\ Place(r, s) + j <= Len(buf[r])
         /\ buf[r][Place(r, s) + j] = Promised(r)[s][j]
    /\ \A k \in DOMAIN buf[r] \ UNION {Cells(r, s) : s \in DOMAIN Promised(r)} :
         buf[r][k] = IF k <= Size(r) THEN InitialBuf(r)[k] ELSE New

(* What the comment of gatherv (collectives/gather.hpp:199-200) promises: "at all other ranks, *)
(* the buffer will have size 0", where the policy asks for exactly what is received.  The     *)
(* code resizes the buffer at the root alone, so a buffer that was not empty stays as it was. *)
OtherRanksEmpty ==
  \A r \in Rank : op = "gatherv" /\ at[r] = "returned" /\ ~IsRoot(r) /\ args[r].policy = "resize_to_fit" =>
    buf[r] = << >>

(* The k-th collectives of two ranks are the same one with the same root, though the ranks go *)
(* through nested wrappers and assertions depending on their own arguments.                   *)
CollectivesMatch ==
  \A r, s \in Rank : \A k \in DOMAIN calls[r] \cap DOMAIN calls[s] :
    calls[r][k].kind = calls[s][k].kind /\ calls[r][k].root = calls[s][k].root

(* Between two ranks that agree, the counts of a collective match: a rank expects from each *)
(* sender exactly the elements it sends.                                                    *)
CountsMatch ==
  \A r \in Rank : \A k \in DOMAIN calls[r] :
    \A s \in Senders(calls[r][k].kind, calls[r][k].root, r) :
      k \in DOMAIN calls[s] => Len(calls[s][k].out[r]) = calls[r][k].want[s]

(* A misuse the assertions compare between the ranks. *)
Disagreement ==
  \/ \E r, s \in Rank : Computes(r) # Computes(s) \/ args[r].root # args[s].root
  \/ op \in {"allgatherv", "alltoallv"} /\ \E r, s \in Rank : args[r].recv_displs # args[s].recv_displs
  \/ op = "alltoallv" /\ \E r, s \in Rank : args[r].send_displs # args[s].send_displs
  \/ op = "allgather" /\ \E r, s \in Rank : amount[r] # amount[s]
  \/ op \in Bcasts /\ \E r \in Rank : IsRoot(r) /\ ~args[r].buffer /\ (op = "bcast" => Computes(r))

(* Arguments the documentation allows. *)
Legal ==
  /\ ~Disagreement
  /\ \A r \in Rank : (IsRoot(r) => args[r].buffer) /\
                     (Receives(r) /\ args[r].policy = "no_resize" => Size(r) >= Needed(r))
  /\ op = "gatherv" => \A r \in Rank : IsRoot(r) => args[r].counts # "ignored"

(* The send buffers with no data are left out of Legal by the assertions that they have some. *)
NonEmpty == op \in {"scatter", "scatterv", "alltoall"} => \A r \in Rank : SendBuf(r) # << >>

(* No assertion fails on legal arguments; with the absence of deadlock, every call returns. *)
LegalReturns == Legal /\ NonEmpty => \A r \in Rank : at[r] \notin {"aborted", "rejected"}

(* No call returns as if nothing were wrong when the ranks disagree on an argument. *)
MisuseNoticed == Disagreement => \A r \in Rank : at[r] # "returned"

(* When the ranks disagree on an argument, every rank is told and none returns or fails alone: *)
(* with the absence of deadlock, all calls fail and nobody waits for ever.                     *)
MisuseRejected == MisuseNoticed /\ (Disagreement /\ NonEmpty => \A r \in Rank : at[r] # "aborted")
================================================================================

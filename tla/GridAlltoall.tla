---------------------------- MODULE GridAlltoall ----------------------------
(***************************************************************************)
(* alltoallv of grid::GridCommunicator (plugin/alltoall_grid.hpp): every   *)
(* element travels in an envelope, first along the row of its sender to    *)
(* the column of its destination, then along that column.  The result is   *)
(* sorted back by the source in the envelope.  DispatchAlltoall makes the  *)
(* grid and calls it.  The caller leaves the receive side to the wrapper:  *)
(* recv_counts and recv_displs are computed, recv_buf is resized to fit.   *)
(*                                                                         *)
(* An alltoallv of a row or column communicator is external: a rank leaves *)
(* its k-th one when all members have entered their k-th one, with what    *)
(* they sent to it, in rank order.                                         *)
(***************************************************************************)
EXTENDS GridShape

CONSTANTS
  Patterns,           (* A behaviour has one of these patterns of counts,  *)
  Count(_, _, _, _)   (* Count(pattern, k, r, d): send_counts in call k.   *)

VARIABLES
  p,           (* _size_of_orig_comm                                       *)
  row,         (* row[r], col[r]: _row_comm and _column_comm of rank r, as *)
  col,         (* the sequence of its members; empty until they are made.  *)
  pattern,     (* The send_counts of this behaviour.                       *)
  pc,
  calls,       (* Calls a rank has begun.                                  *)
  rowSent,     (* What a rank sent in its row exchanges, one per exchange: *)
               (* a function from the ranks in the row to sequences.       *)
  colSent,     (* The same for the column exchanges.                       *)
  result       (* [buf, counts, displs] returned by the calls so far.      *)

grid == <<p, row, col, pattern>>

Rank == 0 .. p - 1

(* The concatenation of the sequences of a sequence. *)
Concat(f) ==
  LET cat[i \in Nat] == IF i = 0 THEN <<>> ELSE cat[i - 1] \o f[i]
  IN  cat[Len(f)]

PerRank(f) == [i \in 1 .. p |-> f[i - 1]]

(* std::exclusive_scan over counts of the ranks 0 .. n-1. *)
ExclusiveScan(counts) ==
  [i \in DOMAIN counts |-> MapThenSumSet(LAMBDA j : counts[j], {j \in DOMAIN counts : j < i})]

(* The elements for d in the send buffer of rank r in call k. *)
Payloads(k, r, d) == [j \in 1 .. Count(pattern, k, r, d) |-> <<k, r, d, j>>]

-----------------------------------------------------------------------------
(* Plausible mistakes, used nowhere.                                       *)
WritePos_NotAdvanced(env, displs, i) == displs[env[i].source]

-----------------------------------------------------------------------------
(* get_destination_in_rowwise_exchange, ..._colwise_exchange *)
RowDestination(d) == d % NumColumns(p)
ColDestination(d) == d \div NumColumns(p)

(* rowwise_exchange: for each rank of the row the elements that go there,   *)
(* in the order of their destinations, with both ends in the envelope.      *)
RowSendBuf(k, r) ==
  [i \in DOMAIN row[r] |->
     Concat(PerRank([d \in Rank |->
       IF RowDestination(d) # i - 1 THEN <<>>
       ELSE [j \in 1 .. Count(pattern, k, r, d) |->
               [payload |-> Payloads(k, r, d)[j], source |-> r, destination |-> d]]]))]

(* What rank r gets out of exchange k of a communicator. *)
Received(sent, comm, k, r) ==
  LET me == CHOOSE i \in DOMAIN comm : comm[i] = r
  IN  Concat([i \in DOMAIN comm |-> sent[comm[i]][k][me]])

(* columnwise_exchange: a stable distribution over the column; the envelope *)
(* keeps the source only.                                                   *)
ColSendBuf(r, rowwise_recv_buf) ==
  [i \in DOMAIN col[r] |->
     LET here == Ascending({j \in DOMAIN rowwise_recv_buf :
                              ColDestination(rowwise_recv_buf[j].destination) = i - 1})
     IN  [j \in DOMAIN here |-> [payload |-> rowwise_recv_buf[here[j]].payload,
                                 source  |-> rowwise_recv_buf[here[j]].source]]]

RecvCounts(env) ==
  [s \in Rank |-> Cardinality({i \in DOMAIN env : env[i].source = s})]

(* write_recv_buffer: the position of entry i, write_pos[source]++. *)
WritePos(env, displs, i) ==
  displs[env[i].source] + Cardinality({j \in 1 .. i - 1 : env[j].source = env[i].source})

(* compute_required_recv_buf_size: where the block of the last rank ends.   *)
RequiredRecvBufSize(counts, displs) == displs[p - 1] + counts[p - 1]

(* write_recv_buffer: recv_buf, resized to fit, after every element has been *)
(* moved to its position.                                                    *)
RecvBuf(env, counts, displs) ==
  [q \in 1 .. RequiredRecvBufSize(counts, displs) |->
     LET writers == {i \in DOMAIN env : WritePos(env, displs, i) + 1 = q}
     IN  IF writers = {} THEN <<>> ELSE env[Max(writers)].payload]

-----------------------------------------------------------------------------
(* All members of a communicator have entered its present exchange. *)
RowComplete(r) == \A s \in Range(row[r]) : Len(rowSent[s]) >= Len(rowSent[r])
ColComplete(r) == \A s \in Range(col[r]) : Len(colSent[s]) >= Len(colSent[r])

(* Enter the row exchange with the data of the present call. *)
Rowwise(r) ==
  /\ pc' = [pc EXCEPT ![r] = "row"]
  /\ rowSent' = [rowSent EXCEPT ![r] = Append(@, RowSendBuf(calls[r], r))]

(* Leave the row exchange and enter the column exchange. *)
EndRowwise(r) ==
  /\ pc[r] = "row"
  /\ RowComplete(r)
  /\ pc' = [pc EXCEPT ![r] = "col"]
  /\ colSent' = [colSent EXCEPT ![r] =
                   Append(@, ColSendBuf(r, Received(rowSent, row[r], Len(rowSent[r]), r)))]
  /\ UNCHANGED <<grid, calls, rowSent, result>>

(* Leave the column exchange, order the elements by source, return.  The    *)
(* counts and displacements are computed.                                   *)
EndColumnwise(r) ==
  LET grid_recv_buf == Received(colSent, col[r], Len(colSent[r]), r)
      counts == RecvCounts(grid_recv_buf)
      displs == ExclusiveScan(counts)
  IN
  /\ pc[r] = "col"
  /\ ColComplete(r)
  /\ pc' = [pc EXCEPT ![r] = "idle"]
  /\ result' = [result EXCEPT ![r] =
       Append(@, [buf |-> RecvBuf(grid_recv_buf, counts, displs), counts |-> counts, displs |-> displs])]
  /\ UNCHANGED <<grid, calls, rowSent, colSent>>

-----------------------------------------------------------------------------
(* The routing in two hops is an alltoallv, as is the builtin exchange:    *)
(* whatever the size of the communicator, with or without an incomplete    *)
(* row, each call returns, in the order of the sources and in the order    *)
(* they were sent, exactly the elements of that same call, and their       *)
(* counts.  For calls that leave the receive side to the wrapper.          *)
IsAlltoallv ==
  \A r \in Rank : \A k \in DOMAIN result[r] :
    LET counts == [s \in Rank |-> Count(pattern, k, s, r)] IN
    result[r][k] = [buf    |-> Concat(PerRank([s \in Rank |-> Payloads(k, s, r)])),
                    counts |-> counts,
                    displs |-> ExclusiveScan(counts)]

=============================================================================

------------------------------ MODULE GridShape ------------------------------
(***************************************************************************)
(* The logical grid of grid::GridCommunicator (plugin/alltoall_grid.hpp)   *)
(* over the ranks 0 .. p-1: row-major, with the ranks of an incomplete     *)
(* last row appended to the first rows.                                    *)
(***************************************************************************)
EXTENDS Integers, Sequences, SequencesExt, FiniteSetsExt, Orders

FloorSqrt(p) == Max({k \in 0 .. p : k * k <= p})
CeilSqrt(p) == Min({k \in 0 .. p : k * k >= p})

(* _num_columns *)
NumColumns(p) ==
  IF p >= FloorSqrt(p) * CeilSqrt(p) THEN CeilSqrt(p) ELSE FloorSqrt(p)

(* The rows that are complete: "num_ranks_in_incomplete_column". *)
NumRows(p) == p \div NumColumns(p)

SizeCompleteRectangle(p) == NumColumns(p) * NumRows(p)

(* pos_in_complete_grid *)
RowIndex(p, r) == r \div NumColumns(p)
ColIndex(p, r) == r % NumColumns(p)

(* The colors of the two splits. *)
RowColor(p, r) == IF r >= SizeCompleteRectangle(p) THEN r % NumColumns(p) ELSE RowIndex(p, r)
ColColor(p, r) == ColIndex(p, r)

(* The communicators a rank gets from the splits, which are keyed by the   *)
(* rank: their members in ascending order.                                 *)
RowComm(p, r) == Ascending({s \in 0 .. p - 1 : RowColor(p, s) = RowColor(p, r)})
ColComm(p, r) == Ascending({s \in 0 .. p - 1 : ColColor(p, s) = ColColor(p, r)})
=============================================================================

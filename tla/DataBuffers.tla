------------------------------ MODULE DataBuffers ------------------------------
(***************************************************************************)
(* The storage behind a buffer argument (data_buffer.hpp), one cell per    *)
(* element: what resizing does to it and what reading past its end sees.   *)
(***************************************************************************)
EXTENDS Naturals, Sequences, SequencesExt

(* Cells of a buffer nobody wrote: before the call, by resizing, past the end. *)
Old  == <<"old">>
New  == <<"new">>
Over == <<"overread">>

Resize(cells, n) == [k \in 1 .. n |-> IF k <= Len(cells) THEN cells[k] ELSE New]

(* DataBuffer::resize_if_requested *)
ResizeIfRequested(cells, policy, n) ==
  IF policy = "resize_to_fit" \/ (policy = "grow_only" /\ Len(cells) < n)
  THEN Resize(cells, n)
  ELSE cells

(* count cells of a buffer from a displacement on; past its end lies other memory. *)
Slice(cells, displ, count) ==
  [k \in 1 .. count |-> IF displ + k <= Len(cells) THEN cells[displ + k] ELSE Over]
================================================================================

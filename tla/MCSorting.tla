------------------------------- MODULE MCSorting -------------------------------
(* Two samples and one for a nonempty rank: the least with which three ranks  *)
(* never read behind the samples. The default element is one in the middle.   *)
EXTENDS Sorting

Three == 1 .. 3
================================================================================

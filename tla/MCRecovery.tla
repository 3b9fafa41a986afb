------------------------------- MODULE MCRecovery -------------------------------
(* Three processes, of which all but one may fail. *)
EXTENDS Recovery

CONSTANTS p1, p2, p3

Processes == {p1, p2, p3}
================================================================================

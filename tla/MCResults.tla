------------------------------- MODULE MCResults -------------------------------
(* Every call of seven wrappers with up to three parameters. *)
EXTENDS Results
================================================================================

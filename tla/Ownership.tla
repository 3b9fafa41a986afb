------------------------------- MODULE Ownership -------------------------------
(***************************************************************************)
(* What a wrapper of communicators promises its user: from the moment it   *)
(* is made until it is freed, each one is the business of exactly one      *)
(* owner, which is an object or the program itself.  It is freed by that   *)
(* owner, once, and never lost.                                            *)
(***************************************************************************)
CONSTANTS
  Resource, Owner,
  Unused, Freed     (* No owners, and different from one another.             *)

VARIABLE owner

TypeOK == owner \in [Resource -> Owner \cup {Unused, Freed}]

Init == owner \in [Resource -> Owner \cup {Unused}]

(* A resource is made, passed on or freed, or is left alone. *)
Fate(r) ==
  /\ owner[r] = Freed => owner'[r] = Freed
  /\ owner[r] \in Owner => owner'[r] \in Owner \cup {Freed}
  /\ owner[r] = Unused => owner'[r] \in Owner \cup {Unused, Freed}

Next == TypeOK' /\ \A r \in Resource : Fate(r)

Spec == Init /\ [][Next]_owner
================================================================================

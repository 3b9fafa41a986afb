------------------------------- MODULE MCHandles -------------------------------
(* Handles for TLC: the classes of objects do not touch one another, so a program *)
(* uses one of them at a time, beside the environment.                            *)
EXTENDS Handles, TLC

InUse(objects, handles) ==
  objects \cap alive # {} \/ handles \cap ((open \cup freed) \ {World}) # {}

OneClass ==
  Cardinality({c \in {<<Comms, CommHandle>>, <<Groups, GroupHandle>>, <<Operations, OpHandle>>} :
                 InUse(c[1], c[2])} \cup
              IF Cardinality(Env) > 1 /\ (Cardinality({e \in Env : Alive(e)}) > 1 \/ committed # {})
              THEN {<<Env, Type>>} ELSE {}) <= 1

Symmetric == Permutations(Comms) \cup Permutations(CommHandle)
================================================================================

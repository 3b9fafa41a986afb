---------------------------- MODULE Recovery_proofs ----------------------------
(***************************************************************************)
(* NobodyStranded of Recovery holds for any number of processes and        *)
(* failures. It is inductive together with the types of what it reads:     *)
(* "shrink" is reached only from a test that found the communicator        *)
(* revoked, or by revoking it, and knowledge is never lost.                *)
(***************************************************************************)
EXTENDS Recovery, TLAPS

Label == {"loop", "reducing", "reduced", "caught", "revoke", "shrink", "shrinking"}

TypeInv ==
  /\ pc \in [Rank -> Label]
  /\ comm \in [Rank -> Nat \ {0}]

IInv == TypeInv /\ NobodyStranded

LEMMA InitIInv == Init => IInv
BY DEF Init, Label, IInv, TypeInv, NobodyStranded

(* A rank that moves within the loop without giving its communicator up.    *)
LEMMA GotoSafe ==
  ASSUME IInv, NEW r \in Rank, NEW label \in Label, Goto(r, label),
         label \in {"shrink", "shrinking"} => is_revoked(r),
         UNCHANGED <<comm, knows>>
  PROVE  IInv'
BY DEF IInv, TypeInv, NobodyStranded, Goto, is_revoked

LEMMA StepIInv ==
  ASSUME IInv, NEW r \in Rank, Step(r)
  PROVE  IInv'
<1>1. CASE CallAllreduce(r)
  BY <1>1, GotoSafe DEF CallAllreduce, Label
<1>2. CASE AllreduceSucceeds(r)
  BY <1>2, GotoSafe DEF AllreduceSucceeds, Label
<1>3. CASE AllreduceFails(r)
  BY <1>3, GotoSafe DEF AllreduceFails, Label
<1>4. CASE TestRevoked(r)
  BY <1>4, GotoSafe DEF TestRevoked, AfterFailure, Label
<1>5. CASE Revoke(r)
  BY <1>5 DEF Revoke, Label, IInv, TypeInv, NobodyStranded, Goto
<1>6. CASE CallShrink(r)
  <2>1. is_revoked(r)
    BY <1>6 DEF CallShrink, IInv, TypeInv, NobodyStranded, is_revoked
  <2> QED BY <1>6, <2>1, GotoSafe DEF CallShrink, Label
<1>7. CASE ReturnFromShrink(r)
  <2>1. \A k \in 1 .. comm[r] : <<r, k>> \in knows
    BY <1>7 DEF ReturnFromShrink, IInv, TypeInv, NobodyStranded
  <2>2. TypeInv'
    BY <1>7 DEF ReturnFromShrink, Label, IInv, TypeInv, Goto
  <2>3. NobodyStranded'
    BY <1>7, <2>1 DEF ReturnFromShrink, IInv, TypeInv, NobodyStranded, Goto
  <2> QED BY <2>2, <2>3 DEF IInv
<1> QED BY <1>1, <1>2, <1>3, <1>4, <1>5, <1>6, <1>7 DEF Step

LEMMA NextIInv == IInv /\ [Next]_vars => IInv'
<1> SUFFICES ASSUME IInv, [Next]_vars
             PROVE  IInv'
  OBVIOUS
<1>1. CASE UNCHANGED vars
  BY <1>1 DEF vars, IInv, TypeInv, NobodyStranded
<1>2. ASSUME NEW r \in Rank, Fail(r)
      PROVE  IInv'
  BY <1>2 DEF Fail, IInv, TypeInv, NobodyStranded
<1>3. ASSUME NEW r \in Rank, Step(r)
      PROVE  IInv'
  BY <1>3, StepIInv
<1>4. ASSUME NEW r \in Rank, Propagate(r)
      PROVE  IInv'
  BY <1>4 DEF Propagate, IInv, TypeInv, NobodyStranded
<1>5. ASSUME NEW c \in DOMAIN members, Reduce(c)
      PROVE  IInv'
  BY <1>5 DEF Reduce, Label, IInv, TypeInv, NobodyStranded
<1>6. CASE AgreeOnGroup
  BY <1>6 DEF AgreeOnGroup, IInv, TypeInv, NobodyStranded
<1> QED BY <1>1, <1>2, <1>3, <1>4, <1>5, <1>6 DEF Next, MPI

(* Whatever fails and however many, a rank goes on to the next communicator *)
(* only when it knows the last one, and all before it, to be revoked        *)
(* (catch block of examples/applications/ulfm.cpp).                         *)
THEOREM NeverStranded == Spec => []NobodyStranded
<1>1. IInv => NobodyStranded
  BY DEF IInv
<1> QED BY InitIInv, NextIInv, <1>1, PTL DEF Spec
================================================================================

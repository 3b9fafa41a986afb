-------------------------- MODULE NonBlocking_proofs --------------------------
(***************************************************************************)
(* The memory and the requests of non-blocking operations (NonBlocking),   *)
(* for any number of operations and any order of calls.                    *)
(* The program passes no buffer that only goes in by value ("temporary")   *)
(* and extracts no single value before its operation is complete: the code *)
(* keeps neither where MPI looks for it, and that is assumed of programs.  *)
(***************************************************************************)
EXTENDS NonBlocking, TLAPS, FiniteSetTheorems, SequenceTheorems

Cautious == "temporary" \notin Buffers /\ "single" \notin EarlyExtract

TypeInv ==
  /\ mpi \in [Op -> {"idle", "pending", "complete"}]
  /\ buffer \in [Op -> Buffers \cup {"none"}]
  /\ home \in [Op -> {"none", "result", "user", "pool"}]
  /\ active \subseteq Op
  /\ result \in [Op -> {"none", "held", "extracted", "destroyed"}]
  /\ storage \in [Op -> {"old", "message"}]
  /\ got \in [Op -> {"nothing", "old", "message"}]
  /\ requests \in Seq(Op)
  /\ generation \in Nat
  /\ reference \in [Op -> Nat]

(* What was not started has nothing,                                        *)
IdleHasNothing ==
  \A o \in Op :
    /\ mpi[o] = "idle" => home[o] = "none" /\ got[o] = "nothing" /\ o \notin active
    /\ mpi[o] = "idle" <=> result[o] = "none"
    /\ mpi[o] # "idle" => buffer[o] \in Buffers

(* and a request becomes null only when its operation is complete.          *)
PendingIsActive == \A o \in Op : mpi[o] = "pending" => o \in active

(* Every pooled request has a slot of its own.                              *)
SlotsOfPooled ==
  /\ Pooled = InPool
  /\ IsFiniteSet(Pooled)
  /\ Cardinality(Pooled) = Len(requests)
  /\ \A o \in Op : reference[o] <= generation

(* The value is out of a result that is gone, or the operation was complete *)
(* before; a single value is never out too early.                           *)
ValueKept ==
  \A o \in Op :
    /\ buffer[o] = "container" /\ result[o] = "extracted" => got[o] # "nothing"
    /\ buffer[o] = "container" /\ mpi[o] = "pending" /\ result[o] = "destroyed" =>
         got[o] # "nothing"
    /\ buffer[o] = "single" /\ mpi[o] = "pending" => result[o] = "held" /\ got[o] = "nothing"
    /\ buffer[o] = "single" => got[o] # "old"
    /\ got[o] # "nothing" => HasValue(o)
    /\ mpi[o] = "complete" => storage[o] = "message"

PoolInv == TypeInv /\ IdleHasNothing /\ PendingIsActive /\ SlotsOfPooled

IInv == PoolInv /\ (Cautious => ValueKept /\ ~freedTouched)

--------------------------------------------------------------------------------
LEMMA InitPoolInv == Init => PoolInv
<1> SUFFICES ASSUME Init
             PROVE  PoolInv
  OBVIOUS
<1>1. TypeInv /\ IdleHasNothing /\ PendingIsActive
  BY DEF Init, TypeInv, IdleHasNothing, PendingIsActive
<1>2. Pooled = {} /\ InPool = {}
  BY DEF Init, Pooled, InPool, num_requests
<1>3. SlotsOfPooled
  BY <1>2, FS_EmptySet DEF Init, SlotsOfPooled
<1> QED BY <1>1, <1>3 DEF PoolInv

(* A step that neither starts an operation nor touches the pool keeps the   *)
(* slots.                                                                   *)
LEMMA SlotsStay ==
  ASSUME SlotsOfPooled, UNCHANGED pool,
         \A o \in Op : home'[o] = "pool" <=> home[o] = "pool"
  PROVE  SlotsOfPooled'
BY DEF SlotsOfPooled, pool, Pooled, InPool, num_requests

LEMMA GetRequestChanges ==
  ASSUME TypeInv, NEW o \in Op, GetRequest(o)
  PROVE  /\ requests' = Append(requests, o) /\ requests' \in Seq(Op)
         /\ generation' \in Nat /\ generation' >= generation
         /\ reference' = [reference EXCEPT ![o] = generation'] /\ reference' \in [Op -> Nat]
<1>1. PICK moves \in BOOLEAN : generation' = IF moves THEN generation + 1 ELSE generation
  BY DEF GetRequest
<1>2. CASE moves
  BY <1>1, <1>2 DEF GetRequest, NewSlot, TypeInv
<1>3. CASE ~moves
  BY <1>1, <1>3 DEF GetRequest, NewSlot, TypeInv
<1> QED BY <1>1, <1>2, <1>3

LEMMA StartPoolInv ==
  ASSUME PoolInv, NEW o \in Op, NEW b \in Buffers, NEW h \in Homes, Start(o, b, h)
  PROVE  PoolInv'
<1>0. requests' \in Seq(Op) /\ generation' \in Nat /\ reference' \in [Op -> Nat]
  <2>1. CASE h = "pool"
    BY <2>1, GetRequestChanges DEF Start, PoolInv
  <2>2. CASE h # "pool"
    BY <2>2 DEF Start, pool, PoolInv, TypeInv
  <2> QED BY <2>1, <2>2
<1>1. TypeInv' /\ IdleHasNothing' /\ PendingIsActive'
  <2>1. TypeInv'
    BY <1>0, KindsAssumption DEF Start, PoolInv, TypeInv
  <2>2. IdleHasNothing'
    BY DEF Start, PoolInv, TypeInv, IdleHasNothing
  <2>3. PendingIsActive'
    BY DEF Start, PoolInv, TypeInv, PendingIsActive
  <2> QED BY <2>1, <2>2, <2>3
<1>2. SlotsOfPooled'
  <2>1. CASE h = "pool"
    <3>1. /\ requests' = Append(requests, o)
          /\ home' = [home EXCEPT ![o] = "pool"]
          /\ home[o] = "none"
      BY <2>1, GetRequestChanges DEF Start, PoolInv, IdleHasNothing
    <3>2. o \notin Pooled /\ Pooled' = Pooled \cup {o}
      BY <3>1 DEF Pooled, PoolInv, TypeInv
    <3>3. Len(requests') = Len(requests) + 1 /\ InPool' = InPool \cup {o}
      <4>1. /\ requests \in Seq(Op) /\ Len(requests') = Len(requests) + 1
            /\ requests'[Len(requests) + 1] = o
            /\ \A i \in 1 .. Len(requests) : requests'[i] = requests[i]
        BY <3>1, AppendProperties DEF PoolInv, TypeInv
      <4>2. Len(requests) \in Nat
        BY <4>1
      <4> QED BY <4>1, <4>2 DEF InPool, num_requests
    <3>4. IsFiniteSet(Pooled') /\ Cardinality(Pooled') = Len(requests')
      BY <3>2, <3>3, FS_AddElement DEF PoolInv, SlotsOfPooled
    <3>5. \A q \in Op : reference'[q] <= generation'
      <4>1. /\ reference' = [reference EXCEPT ![o] = generation']
            /\ generation' \in Nat /\ generation' >= generation
        BY <2>1, GetRequestChanges DEF Start, PoolInv
      <4> QED BY <4>1 DEF PoolInv, TypeInv, SlotsOfPooled
    <3> QED BY <3>2, <3>3, <3>4, <3>5 DEF PoolInv, SlotsOfPooled
  <2>2. CASE h # "pool"
    BY <2>2, SlotsStay DEF Start, PoolInv, TypeInv, IdleHasNothing
  <2> QED BY <2>1, <2>2
<1> QED BY <1>1, <1>2 DEF PoolInv

(* What the calls on a result change: they move its value out or not, and   *)
(* they retire its request or not, if it is complete.                       *)
TakesOut(o) ==
  /\ UNCHANGED <<mpi, buffer, storage, requests, generation, reference, freedTouched>>
  /\ result[o] = "held"
  /\ UNCHANGED home \/ (home[o] = "result" /\ home' = [home EXCEPT ![o] = "user"])
  /\ active' = active \/ (active' = active \ {o} /\ mpi[o] # "pending")
  /\ \/ UNCHANGED <<result, got>>
     \/ /\ result' = [result EXCEPT ![o] = "extracted"]
        /\ got' = IF HasValue(o) THEN [got EXCEPT ![o] = storage[o]] ELSE got
        /\ mpi[o] # "pending" \/ buffer[o] \in EarlyExtract

LEMMA TakingOut ==
  ASSUME PoolInv, NEW o \in Op, Wait(o) \/ Test(o) \/ Extract(o)
  PROVE  TakesOut(o)
<1>1. Returns(o) => mpi[o] # "pending"
  BY DEF Returns, Finished, IsNull, PoolInv, PendingIsActive
<1>2. CASE Wait(o)
  BY <1>1, <1>2 DEF Wait, Usable, Complete, TakeValue, TakesOut, pool
<1>3. CASE Test(o)
  BY <1>1, <1>3 DEF Test, Usable, Complete, TakeValue, TakesOut, pool
<1>4. CASE Extract(o)
  <2>1. mpi[o] # "pending" \/ buffer[o] \in EarlyExtract
    BY <1>4 DEF Extract, IsNull, PoolInv, PendingIsActive
  <2>2. home' = home \/ (home[o] = "result" /\ home' = [home EXCEPT ![o] = "user"])
    BY <1>4 DEF Extract, PoolInv, TypeInv
  <2> QED BY <1>4, <2>1, <2>2 DEF Extract, TakeValue, TakesOut, pool, faults
<1> QED BY <1>2, <1>3, <1>4

LEMMA ResultPoolInv ==
  ASSUME PoolInv, NEW o \in Op,
         Deliver(o) \/ Wait(o) \/ Test(o) \/ Extract(o) \/ Drop(o) \/ WaitRequest(o)
  PROVE  PoolInv'
<1>1. TypeInv' /\ IdleHasNothing' /\ PendingIsActive'
  <2>1. CASE Deliver(o)
    BY ZenonT(60), <2>1 DEF Deliver, pool, PoolInv, TypeInv, IdleHasNothing, PendingIsActive
  <2>2. CASE Wait(o) \/ Test(o) \/ Extract(o)
    <3>1. TakesOut(o)
      BY <2>2, TakingOut
    <3>2. home' \in [Op -> {"none", "result", "user", "pool"}] /\ active' \subseteq Op
      BY <3>1 DEF TakesOut, PoolInv, TypeInv
    <3>3. /\ result' \in [Op -> {"none", "held", "extracted", "destroyed"}]
          /\ got' \in [Op -> {"nothing", "old", "message"}]
      <4>1. /\ result' = result \/ result' = [result EXCEPT ![o] = "extracted"]
            /\ got' = got \/ got' = [got EXCEPT ![o] = storage[o]]
        BY <3>1 DEF TakesOut
      <4>2. storage[o] \in {"old", "message"}
        BY DEF PoolInv, TypeInv
      <4>3. result' \in [Op -> {"none", "held", "extracted", "destroyed"}]
        BY <4>1 DEF PoolInv, TypeInv
      <4>4. got' \in [Op -> {"nothing", "old", "message"}]
        BY ZenonT(60), <4>1, <4>2 DEF PoolInv, TypeInv
      <4> QED BY <4>3, <4>4
    <3>4. TypeInv'
      BY <3>1, <3>2, <3>3 DEF TakesOut, PoolInv, TypeInv
    <3>5. mpi[o] # "idle"
      BY <3>1 DEF TakesOut, PoolInv, IdleHasNothing
    <3>6. IdleHasNothing'
      BY <3>1, <3>5 DEF TakesOut, PoolInv, TypeInv, IdleHasNothing
    <3>7. PendingIsActive'
      BY <3>1 DEF TakesOut, PoolInv, TypeInv, PendingIsActive
    <3> QED BY <3>4, <3>6, <3>7
  <2>3. CASE Drop(o)
    BY <2>3 DEF Drop, pool, PoolInv, TypeInv, IdleHasNothing, PendingIsActive
  <2>4. CASE WaitRequest(o)
    BY <2>4 DEF WaitRequest, Finished, pool, PoolInv, TypeInv, IdleHasNothing, PendingIsActive
  <2> QED BY <2>1, <2>2, <2>3, <2>4
<1>2. UNCHANGED pool /\ \A q \in Op : home'[q] = "pool" <=> home[q] = "pool"
  <2>1. CASE Wait(o) \/ Test(o) \/ Extract(o)
    <3>1. TakesOut(o)
      BY <2>1, TakingOut
    <3>2. UNCHANGED pool
      BY <3>1 DEF TakesOut, pool
    <3>3. UNCHANGED home \/ (home[o] = "result" /\ home' = [home EXCEPT ![o] = "user"])
      BY <3>1 DEF TakesOut
    <3> QED BY <3>2, <3>3 DEF PoolInv, TypeInv
  <2>2. CASE Deliver(o) \/ Drop(o) \/ WaitRequest(o)
    BY <2>2 DEF Deliver, Drop, WaitRequest
  <2> QED BY <2>1, <2>2
<1> QED BY <1>1, <1>2, SlotsStay DEF PoolInv

(* What the calls on the pool change.                                       *)
PoolCall == WaitAll \/ TestAll \/ WaitAny \/ TestAny

LEMMA PoolCallChanges ==
  ASSUME PoolInv, PoolCall
  PROVE  /\ UNCHANGED <<mpi, buffer, home, result, storage, got, pool, faults>>
         /\ active' \subseteq active
         /\ \A o \in active \ active' : Finished(o)
BY DEF PoolCall, WaitAll, TestAll, WaitAny, TestAny, AnyCompletes, ReadySlots, InPool,
       num_requests, Returns, IsNull, PoolInv, TypeInv

LEMMA PoolCallPoolInv ==
  ASSUME PoolInv, PoolCall
  PROVE  PoolInv'
<1>1. TypeInv' /\ IdleHasNothing' /\ PendingIsActive'
  BY PoolCallChanges DEF pool, Finished, PoolInv, TypeInv, IdleHasNothing, PendingIsActive
<1> QED BY <1>1, PoolCallChanges, SlotsStay DEF PoolInv

--------------------------------------------------------------------------------
(* The values and the memory                                                *)

LEMMA InitKept == Init => ValueKept /\ ~freedTouched
BY DEF Init, ValueKept, HasValue

LEMMA StartKept ==
  ASSUME PoolInv, ValueKept, NEW o \in Op, NEW b \in Buffers, NEW h \in Homes, Start(o, b, h)
  PROVE  ValueKept'
<1>1. got[o] = "nothing" /\ result[o] = "none"
  BY DEF Start, PoolInv, IdleHasNothing
<1> QED BY <1>1 DEF Start, ValueKept, HasValue, PoolInv, TypeInv

(* MPI finds the memory it was given: of the caller, or in a container or a *)
(* result that is still there, or was taken by the caller.                  *)
LEMMA PendingIsLive ==
  ASSUME PoolInv, ValueKept, Cautious, NEW o \in Op, mpi[o] = "pending"
  PROVE  Live(o)
<1>1. buffer[o] \in {"reference", "container", "single"}
  BY KindsAssumption DEF PoolInv, IdleHasNothing, Cautious
<1> QED BY <1>1 DEF Live, Given, ValueKept

LEMMA DeliverKept ==
  ASSUME PoolInv, ValueKept, Cautious, NEW o \in Op, Deliver(o)
  PROVE  ValueKept' /\ UNCHANGED freedTouched
<1>1. Live(o)
  BY PendingIsLive DEF Deliver
<1> QED BY <1>1 DEF Deliver, ValueKept, HasValue, PoolInv, TypeInv

LEMMA TakesOutKept ==
  ASSUME PoolInv, ValueKept, Cautious, NEW o \in Op, TakesOut(o)
  PROVE  ValueKept'
<1>1. mpi[o] \in {"pending", "complete"}
  BY DEF TakesOut, PoolInv, TypeInv, IdleHasNothing
<1>2. CASE UNCHANGED <<result, got>>
  BY <1>2 DEF TakesOut, ValueKept, HasValue
<1>3. CASE /\ result' = [result EXCEPT ![o] = "extracted"]
           /\ got' = IF HasValue(o) THEN [got EXCEPT ![o] = storage[o]] ELSE got
           /\ mpi[o] # "pending" \/ buffer[o] \in EarlyExtract
  <2>1. CASE HasValue(o)
    <3>1. buffer[o] = "single" => mpi[o] = "complete" /\ storage[o] = "message"
      BY <1>1, <1>3 DEF Cautious, ValueKept
    <3>2. storage[o] \in {"old", "message"}
      BY DEF PoolInv, TypeInv
    <3> QED BY <1>1, <1>3, <2>1, <3>1, <3>2 DEF TakesOut, ValueKept, HasValue, PoolInv, TypeInv
  <2>2. CASE ~HasValue(o)
    BY <1>3, <2>2 DEF TakesOut, ValueKept, HasValue, PoolInv, TypeInv
  <2> QED BY <2>1, <2>2
<1> QED BY <1>2, <1>3 DEF TakesOut

LEMMA DropKept ==
  ASSUME PoolInv, ValueKept, NEW o \in Op, Drop(o)
  PROVE  ValueKept'
<1>1. IsNull(o) => mpi[o] # "pending"
  BY DEF IsNull, PoolInv, PendingIsActive
<1> QED BY <1>1 DEF Drop, ValueKept, HasValue, PoolInv, TypeInv

LEMMA NextIInv == IInv /\ [Next]_vars => IInv'
<1> SUFFICES ASSUME IInv, [Next]_vars
             PROVE  IInv'
  OBVIOUS
<1>1. ASSUME NEW o \in Op, NEW b \in Buffers, NEW h \in Homes, Start(o, b, h)
      PROVE  IInv'
  BY <1>1, StartPoolInv, StartKept DEF IInv, Start, faults, Cautious
<1>2. ASSUME NEW o \in Op, Deliver(o)
      PROVE  IInv'
  BY <1>2, ResultPoolInv, DeliverKept DEF IInv, Cautious
<1>3. ASSUME NEW o \in Op, Wait(o) \/ Test(o) \/ Extract(o)
      PROVE  IInv'
  <2>1. TakesOut(o) /\ PoolInv'
    BY <1>3, TakingOut, ResultPoolInv DEF IInv
  <2>2. UNCHANGED freedTouched
    BY <2>1 DEF TakesOut
  <2> QED BY <2>1, <2>2, TakesOutKept DEF IInv, Cautious
<1>4. ASSUME NEW o \in Op, Drop(o)
      PROVE  IInv'
  BY <1>4, ResultPoolInv, DropKept DEF IInv, Cautious, Drop, faults
<1>5. ASSUME NEW o \in Op, WaitRequest(o)
      PROVE  IInv'
  <2>1. PoolInv' /\ (ValueKept => ValueKept')
    BY <1>5, ResultPoolInv DEF IInv, WaitRequest, ValueKept, HasValue
  <2> QED BY <1>5, <2>1 DEF IInv, Cautious, WaitRequest, faults
<1>6. CASE PoolCall
  <2>1. PoolInv' /\ (ValueKept => ValueKept') /\ UNCHANGED freedTouched
    BY <1>6, PoolCallPoolInv, PoolCallChanges DEF IInv, ValueKept, HasValue, faults
  <2> QED BY <2>1 DEF IInv, Cautious
<1>7. CASE UNCHANGED vars
  BY <1>7, SlotsStay
     DEF vars, pool, IInv, PoolInv, TypeInv, IdleHasNothing, PendingIsActive, ValueKept, HasValue,
         Cautious
<1> QED BY <1>1, <1>2, <1>3, <1>4, <1>5, <1>6, <1>7 DEF Next, PoolCall

LEMMA IInvHolds == Spec => []IInv
<1>1. Init => IInv
  BY InitPoolInv, InitKept DEF IInv
<1> QED BY <1>1, NextIInv, PTL DEF Spec

(* Every pooled request has a slot of its own, and an operation that was    *)
(* never started has no live request (request_pool.hpp).                    *)
THEOREM TypeCorrect == Spec => []TypeOK
<1>1. IInv => TypeOK
  BY DEF IInv, PoolInv, TypeInv, IdleHasNothing, SlotsOfPooled, InPool, num_requests, TypeOK
<1> QED BY IInvHolds, <1>1, PTL

(* Whatever is moved, extracted early, waited for or dropped, and in which  *)
(* order: MPI never touches memory that is gone (result.hpp, p2p/isend.hpp, *)
(* p2p/irecv.hpp).                                                          *)
THEOREM MemoryOutlives == Cautious /\ Spec => []BuffersOutlive
<1> SUFFICES ASSUME Cautious
             PROVE  Spec => []BuffersOutlive
  OBVIOUS
<1>1. IInv => BuffersOutlive
  BY DEF IInv, BuffersOutlive
<1> QED BY IInvHolds, <1>1, PTL

(* The value a completed operation has given away is its message, whenever  *)
(* it was taken out (result.hpp: wait, test, extract).                      *)
THEOREM ValuesReceived == Cautious /\ Spec => []ReceivedAfterCompletion
<1> SUFFICES ASSUME Cautious
             PROVE  Spec => []ReceivedAfterCompletion
  OBVIOUS
<1>1. IInv => ReceivedAfterCompletion
  BY DEF IInv, PoolInv, TypeInv, ValueKept, ReceivedAfterCompletion, Received
<1> QED BY IInvHolds, <1>1, PTL

--------------------------------------------------------------------------------
(* Calls on the pool                                                        *)

(* Only the calls on the pool say what they return.                         *)
LEMMA OthersReturnNothing ==
  ASSUME Next, ~PoolCall
  PROVE  last'.call = "none"
<1>1. ASSUME NEW o \in Op, NEW b \in Buffers, NEW h \in Homes, Start(o, b, h)
      PROVE  NoPoolCall
  BY <1>1 DEF Start
<1>2. ASSUME NEW o \in Op,
             Deliver(o) \/ Wait(o) \/ Test(o) \/ Extract(o) \/ Drop(o) \/ WaitRequest(o)
      PROVE  NoPoolCall
  BY <1>2 DEF Deliver, Wait, Test, Extract, Drop, WaitRequest
<1> QED BY <1>1, <1>2 DEF Next, PoolCall, NoPoolCall

LEMMA AnyReturns ==
  ASSUME NEW call \in {"wait_any", "test_any"}, AnyCompletes(call)
  PROVE  last'.call = call
<1>1. PICK i : last' = [call |-> call, index |-> i]
  BY DEF AnyCompletes
<1> QED BY <1>1

(* wait_all and a successful test_all retire every pooled request, a        *)
(* test_all that fails none (request_pool.hpp).                             *)
LEMMA StepRetires == IInv /\ [Next]_vars => [RetiresAllOrNone]_vars
<1> SUFFICES ASSUME IInv, Next
             PROVE  RetiresAllOrNone
  OBVIOUS
<1>1. Pooled = InPool
  BY DEF IInv, PoolInv, SlotsOfPooled
<1>2. CASE WaitAll
  BY <1>1, <1>2 DEF WaitAll, RetiresAllOrNone
<1>3. CASE TestAll
  BY <1>1, <1>3 DEF TestAll, RetiresAllOrNone
<1>4. CASE WaitAny \/ TestAny
  <2>1. last'.call \in {"wait_any", "test_any"}
    BY <1>4, AnyReturns DEF WaitAny, TestAny
  <2> QED BY <2>1 DEF RetiresAllOrNone
<1>5. CASE ~PoolCall
  BY <1>5, OthersReturnNothing DEF RetiresAllOrNone
<1> QED BY <1>2, <1>3, <1>4, <1>5 DEF PoolCall

(* RequestPool::wait_all and a test_all that returns true leave no request  *)
(* of the pool alive, and a test_all that returns false retires none.       *)
THEOREM PoolAllOrNone == Spec => AllOrNone
BY IInvHolds, StepRetires, PTL DEF Spec, AllOrNone

LEMMA StepReports == IInv /\ [Next]_vars => [ReportsRetired]_vars
<1> SUFFICES ASSUME IInv, Next
             PROVE  ReportsRetired
  OBVIOUS
<1>1. Pooled = InPool
  BY DEF IInv, PoolInv, SlotsOfPooled
<1>2. CASE InPool \intersect active = {} /\ last'.index = Len(requests) + 1
  BY <1>1, <1>2 DEF ReportsRetired
<1>3. ASSUME NEW i \in ReadySlots, last'.index = i, active' = active \ {requests[i]}
      PROVE  ReportsRetired
  BY <1>1, <1>3 DEF ReportsRetired, ReadySlots, InPool, num_requests
<1>4. ASSUME NEW call \in {"wait_any", "test_any"}, AnyCompletes(call)
      PROVE  ReportsRetired
  <2>1. AnyIndex({}) = Len(requests) + 1 /\ \A i \in ReadySlots : AnyIndex({i}) = i
    BY DEF AnyIndex
  <2>2. CASE InPool \intersect active = {} /\ last' = [call |-> call, index |-> AnyIndex({})]
    BY <1>2, <2>1, <2>2
  <2>3. ASSUME NEW i \in ReadySlots,
               last' = [call |-> call, index |-> AnyIndex({i})], active' = active \ {requests[i]}
        PROVE  ReportsRetired
    BY <1>3, <2>1, <2>3
  <2> QED BY <1>4, <2>2, <2>3 DEF AnyCompletes
<1>5. CASE WaitAny \/ TestAny
  BY <1>4, <1>5 DEF WaitAny, TestAny, ReportsRetired
<1>6. CASE WaitAll \/ TestAll
  BY <1>6 DEF WaitAll, TestAll, ReportsRetired
<1>7. CASE ~PoolCall
  BY <1>7, OthersReturnNothing DEF ReportsRetired
<1> QED BY <1>5, <1>6, <1>7 DEF PoolCall

(* wait_any and test_any report the one request they retire, and the end of *)
(* the pool exactly when there was none to retire (request_pool.hpp).       *)
THEOREM PoolReportsRetired == Spec => AnyReportsRetired
BY IInvHolds, StepReports, PTL DEF Spec, AnyReportsRetired
================================================================================

--------------------------- MODULE SparseAlltoall ---------------------------
(***************************************************************************)
(* The NBX sparse all-to-all of plugin/alltoall_sparse.hpp: any number of  *)
(* ranks, each making a sequence of calls of alltoallv_sparse on the same  *)
(* communicator with the same tag.  A call issues a synchronous-mode send  *)
(* per non-empty message into a request pool, then loops: probe for any    *)
(* message and hand it to the callback; once all own sends are matched     *)
(* start a non-blocking barrier; leave the loop when that barrier is       *)
(* complete, and finally enter a blocking barrier.                         *)
(*                                                                         *)
(* MPI is external: a message stays in net from the send to the matching   *)
(* receive, a probe or test may miss what is still under way, and a        *)
(* barrier completes at a rank only after every rank entered it.           *)
(***************************************************************************)
EXTENDS Naturals, Sequences, FiniteSets

CONSTANTS
  Rank,      (* The ranks of the communicator.                             *)
  SendBufs,  (* The sparse send buffers a caller may pass: sequences of    *)
             (* destination-message pairs, a message being its size here.  *)
  MaxCalls   (* Number of calls each rank makes. Bounds the model.         *)

(* A destination-message pair of a send buffer. *)
Pair == [dst : Rank, size : Nat]

ASSUME RankAssumption == Rank # {}
ASSUME SendBufsAssumption == SendBufs \subseteq Seq(Pair)
ASSUME MaxCallsAssumption == MaxCalls \in Nat

VARIABLES
  call,            (* Number of the call a rank is in, or was in last.     *)
  pc,              (* Where in the call a rank is.                         *)
  sendBuf,         (* The caller's destination-message pairs.              *)
  next,            (* The pair the send loop handles next.                 *)
  pool,            (* request_pool: own sends not matched yet.             *)
  net,             (* Messages sent and not received.                      *)
  status,          (* Source of the message the last probe found.          *)
  barrierRequest,  (* Whether barrier_request is pending.                  *)
  ibarriers,       (* Number of MPI_Ibarrier calls a rank has made.        *)
  barriers,        (* Number of MPI_Barrier calls a rank has entered.      *)
  received         (* Messages the callback received in this call.         *)

vars == <<call, pc, sendBuf, next, pool, net, status, barrierRequest,
          ibarriers, barriers, received>>

Message == [src : Rank, dst : Rank, call : Nat, pos : Nat]

Location == {"idle", "send", "probe", "callback", "test", "barrier"}

TypeOK ==
  /\ call \in [Rank -> 0 .. MaxCalls]
  /\ pc \in [Rank -> Location]
  /\ sendBuf \in [Rank -> Seq(Pair)]
  /\ next \in [Rank -> Nat]
  /\ \A r \in Rank : next[r] \in 1 .. Len(sendBuf[r]) + 1
  /\ pool \in [Rank -> SUBSET Message]
  /\ net \subseteq Message
  /\ status \in [Rank -> Rank]
  /\ barrierRequest \in [Rank -> BOOLEAN]
  /\ ibarriers \in [Rank -> Nat]
  /\ barriers \in [Rank -> Nat]
  /\ received \in [Rank -> SUBSET Message]

Init ==
  /\ call = [r \in Rank |-> 0]
  /\ pc = [r \in Rank |-> "idle"]
  /\ sendBuf = [r \in Rank |-> <<>>]
  /\ next = [r \in Rank |-> 1]
  /\ pool = [r \in Rank |-> {}]
  /\ net = {}
  /\ status \in [Rank -> Rank]
  /\ barrierRequest = [r \in Rank |-> FALSE]
  /\ ibarriers = [r \in Rank |-> 0]
  /\ barriers = [r \in Rank |-> 0]
  /\ received = [r \in Rank |-> {}]

Goto(r, from, to) ==
  /\ pc[r] = from
  /\ pc' = [pc EXCEPT ![r] = to]

-----------------------------------------------------------------------------
(***************************************************************************)
(* Plausible mistakes, each one an alternative of the definition it is     *)
(* named after.  No action uses them.                                      *)
(***************************************************************************)
NonEmpty_OffByOne(pair) == pair.size > 1
Advance_Twice(r) == [next EXCEPT ![r] = @ + 2]
RequestsAfter_Isend(m) == pool
AllMatched_NotTested(r) == TRUE
AllMatched_NotIfNoneSent(r) == pool[r] = {} /\ sendBuf[r] # <<>>
BarrierComplete_Missing(r) == TRUE

-----------------------------------------------------------------------------
(* The message the current pair of the send loop becomes. *)
CurrentMsg(r) ==
  [src |-> r, dst |-> sendBuf[r][next[r]].dst, call |-> call[r], pos |-> next[r]]

(* if (send_buf.size() > 0) *)
NonEmpty(pair) == pair.size > 0

(* The loop over dst_message_container has a pair left. *)
InLoop(r) == next[r] <= Len(sendBuf[r])

(* On to the next pair. *)
Advance(r) == [next EXCEPT ![r] = @ + 1]

(* The pool after a synchronous-mode send: its request stays until the     *)
(* destination has matched the message.                                    *)
RequestsAfter(m) == [pool EXCEPT ![m.src] = @ \cup {m}]

(* Order of two messages of one source (MPI's non-overtaking rule). *)
Before(m, o) == m.call < o.call \/ (m.call = o.call /\ m.pos <= o.pos)

(* The messages a probe of rank r for any source may report: per source    *)
(* the oldest one under way to r.                                          *)
Probeable(r) ==
  {m \in net : /\ m.dst = r
               /\ \A o \in net : o.src = m.src /\ o.dst = r => Before(m, o)}

(* ProbedMessage::recv takes the message out of the network, ...           *)
NetAfterRecv(m) == net \ {m}

(* ... and so completes the sender's synchronous send. *)
PoolAfterRecv(m) == [pool EXCEPT ![m.src] = @ \ {m}]

(* request_pool.test_all() succeeds. *)
AllMatched(r) == pool[r] = {}

(* The n-th MPI_Ibarrier completes once every rank called it n times. *)
IbarrierComplete(r) == \A q \in Rank : ibarriers[q] >= ibarriers[r]

(* Likewise the n-th MPI_Barrier. *)
BarrierComplete(r) == \A q \in Rank : barriers[q] >= barriers[r]

-----------------------------------------------------------------------------
(* A rank calls alltoallv_sparse with a send buffer of the caller. *)
Call(r, buf) ==
  /\ Goto(r, "idle", "send")
  /\ call[r] < MaxCalls
  /\ call' = [call EXCEPT ![r] = @ + 1]
  /\ sendBuf' = [sendBuf EXCEPT ![r] = buf]
  /\ next' = [next EXCEPT ![r] = 1]
  /\ pool' = [pool EXCEPT ![r] = {}]
  /\ barrierRequest' = [barrierRequest EXCEPT ![r] = FALSE]
  /\ received' = [received EXCEPT ![r] = {}]
  /\ UNCHANGED <<net, status, ibarriers, barriers>>

(* self.issend(...) of the current pair. *)
Issend(r) ==
  /\ Goto(r, "send", "send")
  /\ InLoop(r)
  /\ NonEmpty(sendBuf[r][next[r]])
  /\ net' = net \cup {CurrentMsg(r)}
  /\ pool' = RequestsAfter(CurrentMsg(r))
  /\ next' = Advance(r)
  /\ UNCHANGED <<call, sendBuf, status, barrierRequest, ibarriers, barriers,
                 received>>

(* An empty message is not sent. *)
SkipEmpty(r) ==
  /\ Goto(r, "send", "send")
  /\ InLoop(r)
  /\ ~NonEmpty(sendBuf[r][next[r]])
  /\ next' = Advance(r)
  /\ UNCHANGED <<call, sendBuf, pool, net, status, barrierRequest, ibarriers,
                 barriers, received>>

(* The send loop ends, the polling loop begins. *)
EndSends(r) ==
  /\ Goto(r, "send", "probe")
  /\ ~InLoop(r)
  /\ UNCHANGED <<call, sendBuf, next, pool, net, status, barrierRequest,
                 ibarriers, barriers, received>>

(* self.iprobe(status_out(status), tag(...)) returns true. *)
IprobeHit(r) ==
  /\ Goto(r, "probe", "callback")
  /\ \E m \in Probeable(r) : status' = [status EXCEPT ![r] = m.src]
  /\ UNCHANGED <<call, sendBuf, next, pool, net, barrierRequest, ibarriers,
                 barriers, received>>

(* iprobe returns false: nothing is under way, or not visible here yet. *)
IprobeMiss(r) ==
  /\ Goto(r, "probe", "test")
  /\ UNCHANGED <<call, sendBuf, next, pool, net, status, barrierRequest,
                 ibarriers, barriers, received>>

(* The callback receives the probed message: source and tag of the status, *)
(* hence the oldest message of that source.                                *)
CallbackReceives(r) ==
  /\ Goto(r, "callback", "test")
  /\ \E m \in Probeable(r) :
       /\ m.src = status[r]
       /\ net' = NetAfterRecv(m)
       /\ pool' = PoolAfterRecv(m)
       /\ received' = [received EXCEPT ![r] = @ \cup {m}]
  /\ UNCHANGED <<call, sendBuf, next, status, barrierRequest, ibarriers,
                 barriers>>

(* The callback returns without receiving; the next probe finds the        *)
(* message again.                                                          *)
CallbackDefers(r) ==
  /\ Goto(r, "callback", "test")
  /\ UNCHANGED <<call, sendBuf, next, pool, net, status, barrierRequest,
                 ibarriers, barriers, received>>

(* All own sends are matched: start the non-blocking barrier. *)
StartIbarrier(r) ==
  /\ Goto(r, "test", "probe")
  /\ ~barrierRequest[r]
  /\ AllMatched(r)
  /\ barrierRequest' = [barrierRequest EXCEPT ![r] = TRUE]
  /\ ibarriers' = [ibarriers EXCEPT ![r] = @ + 1]
  /\ UNCHANGED <<call, sendBuf, next, pool, net, status, barriers, received>>

(* barrier_request.test() succeeds: break, and enter self.barrier(). *)
LeaveLoop(r) ==
  /\ Goto(r, "test", "barrier")
  /\ barrierRequest[r]
  /\ IbarrierComplete(r)
  /\ barrierRequest' = [barrierRequest EXCEPT ![r] = FALSE]
  /\ barriers' = [barriers EXCEPT ![r] = @ + 1]
  /\ UNCHANGED <<call, sendBuf, next, pool, net, status, ibarriers, received>>

(* The test of this iteration reports false, be it too early. *)
TestFails(r) ==
  /\ Goto(r, "test", "probe")
  /\ UNCHANGED <<call, sendBuf, next, pool, net, status, barrierRequest,
                 ibarriers, barriers, received>>

(* self.barrier() and with it the call returns. *)
Return(r) ==
  /\ Goto(r, "barrier", "idle")
  /\ BarrierComplete(r)
  /\ UNCHANGED <<call, sendBuf, next, pool, net, status, barrierRequest,
                 ibarriers, barriers, received>>

RankStep(r) ==
  \/ \E buf \in SendBufs : Call(r, buf)
  \/ Issend(r)
  \/ SkipEmpty(r)
  \/ EndSends(r)
  \/ IprobeHit(r)
  \/ IprobeMiss(r)
  \/ CallbackReceives(r)
  \/ CallbackDefers(r)
  \/ StartIbarrier(r)
  \/ LeaveLoop(r)
  \/ TestFails(r)
  \/ Return(r)

Next == \E r \in Rank : RankStep(r)

Spec == Init /\ [][Next]_vars

(* Every rank keeps running and makes all its calls (alltoallv_sparse is   *)
(* collective).  A rank that polls forever sees a message under way or a   *)
(* completed operation some day (MPI's progress rule for probe and test),  *)
(* and the callback does not defer a message forever.                      *)
Fairness ==
  \A r \in Rank :
    /\ WF_vars(RankStep(r))
    /\ SF_vars(IprobeHit(r))
    /\ SF_vars(CallbackReceives(r))
    /\ SF_vars(StartIbarrier(r))
    /\ SF_vars(LeaveLoop(r))

FairSpec == Spec /\ Fairness

-----------------------------------------------------------------------------
(* Messages of the running call of r that its send loop still has to post. *)
Unsent(r) ==
  {[src |-> r, dst |-> sendBuf[r][p].dst, call |-> call[r], pos |-> p] :
     p \in {i \in next[r] .. Len(sendBuf[r]) : sendBuf[r][i].size > 0}}

(* All messages of the call r is in. *)
OwnMessages(r) ==
  {[src |-> r, dst |-> sendBuf[r][p].dst, call |-> call[r], pos |-> p] :
     p \in {i \in DOMAIN sendBuf[r] : sendBuf[r][i].size > 0}}

(* When the completed barrier lets a rank out of the polling loop, no      *)
(* message of that call exists any more at any rank: none to be sent, none *)
(* under way, and no request of the rank is open when its pool and send    *)
(* buffers go away.                                                        *)
Quiescence ==
  \A r \in Rank : pc[r] = "barrier" =>
    /\ pool[r] = {}
    /\ \A m \in net : m.call # call[r]
    /\ \A q \in Rank : call[q] = call[r] => Unsent(q) = {}

(* The callback of a call never sees a message of the previous or the next *)
(* call, although all calls share one tag and ranks return at different    *)
(* times: that is what the trailing self.barrier() is for.                 *)
CallIsolation ==
  \A r \in Rank : \A m \in received[r] : m.dst = r /\ m.call = call[r]

(* When a rank has left the polling loop, its callback has received        *)
(* exactly the non-empty messages all ranks addressed to it in this call   *)
(* (stated as long as no rank has replaced its send buffer for the next    *)
(* call, in particular at the moment it leaves).                           *)
Complete ==
  \A r \in Rank : pc[r] = "barrier" /\ (\A q \in Rank : call[q] = call[r]) =>
    received[r] = {m \in UNION {OwnMessages(q) : q \in Rank} : m.dst = r}

(* Every call terminates once all ranks have made it. *)
CallReturns ==
  \A r \in Rank : pc[r] = "send" ~> pc[r] = "idle"

(* A message counts as posted from the beginning of the call. *)
Abstract == INSTANCE SparseExchange WITH
  active    <- [r \in Rank |-> pc[r] # "idle"],
  pending   <- net \cup UNION {Unsent(r) : r \in Rank},
  delivered <- received

(* The algorithm implements the promise of the interface. *)
Implements == Abstract!Spec
-----------------------------------------------------------------------------
(***************************************************************************)
(* The inductive invariant behind the safety properties.                   *)
(***************************************************************************)
(* The rank is not inside the polling loop or before it. *)
Outside(r) == pc[r] \in {"barrier", "idle"}

(* The barriers a rank has entered follow from its call and its place. *)
BarrierCounts ==
  \A r \in Rank :
    /\ IF Outside(r) \/ barrierRequest[r]
         THEN ibarriers[r] = call[r]
         ELSE ibarriers[r] + 1 = call[r]
    /\ IF Outside(r)
         THEN barriers[r] = call[r]
         ELSE barriers[r] + 1 = call[r]

(* The barrier request lives in the polling loop, and by the time it       *)
(* exists all messages are posted and matched.                             *)
LoopPhases ==
  \A r \in Rank :
    /\ barrierRequest[r] => pc[r] \in {"probe", "callback", "test"}
    /\ pc[r] # "send" => next[r] = Len(sendBuf[r]) + 1
    /\ Outside(r) \/ barrierRequest[r] => pool[r] = {}

(* A message under way is one its sender posted in its present call, and   *)
(* its request is still open.                                              *)
InFlight ==
  \A m \in net : /\ m.call = call[m.src]
                 /\ m.pos < next[m.src]
                 /\ m \in pool[m.src]
                 /\ m \in OwnMessages(m.src)

(* Nobody is ahead of the barriers somebody else has still to enter. *)
Lockstep ==
  \A r, q \in Rank :
    /\ pc[r] # "idle" => barriers[q] + 1 >= call[r]
    /\ pc[r] = "idle" => barriers[q] >= call[r]
    /\ Outside(r) => ibarriers[q] >= call[r]

(* Every message of a call is still to be posted, under way or received,   *)
(* unless its destination is in a later call already.                      *)
Accounting ==
  /\ \A q \in Rank : \A m \in OwnMessages(q) :
       call[q] >= call[m.dst] => m \in Unsent(q) \cup net \cup received[m.dst]
  /\ \A r \in Rank : \A m \in received[r] :
       /\ m.call <= call[m.src]
       /\ m.call = call[m.src] => m \in OwnMessages(m.src)

IInv ==
  /\ TypeOK
  /\ BarrierCounts
  /\ LoopPhases
  /\ InFlight
  /\ Lockstep
  /\ Accounting
  /\ CallIsolation
=============================================================================

------------------------ MODULE SparseAlltoall_proofs ------------------------
(***************************************************************************)
(* Proofs about SparseAlltoall, for every set of ranks, every set of send  *)
(* buffers and every number of calls.                                      *)
(***************************************************************************)
EXTENDS SparseAlltoall, TLAPS

(* A message a rank is about to post is a message of its call. *)
LEMMA CurrentMsgIsMessage ==
  ASSUME TypeOK, NEW r \in Rank, InLoop(r)
  PROVE  /\ CurrentMsg(r) \in Message
         /\ next[r] \in DOMAIN sendBuf[r]
         /\ sendBuf[r][next[r]] \in Pair
<1>1. /\ next[r] \in 1 .. Len(sendBuf[r])
      /\ sendBuf[r] \in Seq(Pair)
  BY DEF TypeOK, InLoop
<1>2. /\ next[r] \in DOMAIN sendBuf[r]
      /\ sendBuf[r][next[r]] \in Pair
  BY <1>1
<1>3. call[r] \in Nat
  BY MaxCallsAssumption DEF TypeOK
<1>4. sendBuf[r][next[r]].dst \in Rank
  BY <1>2 DEF Pair
<1>5. QED
  BY <1>1, <1>2, <1>3, <1>4 DEF CurrentMsg, Message

(* Handling one more pair keeps the send loop within the send buffer. *)
LEMMA SendLoopBound ==
  ASSUME TypeOK, NEW r \in Rank, InLoop(r), UNCHANGED sendBuf,
         next' = [next EXCEPT ![r] = @ + 1]
  PROVE  \A q \in Rank : next'[q] \in 1 .. Len(sendBuf'[q]) + 1
<1> SUFFICES ASSUME NEW q \in Rank
             PROVE  next'[q] \in 1 .. Len(sendBuf[q]) + 1
  OBVIOUS
<1>1. /\ Len(sendBuf[q]) \in Nat
      /\ next[q] \in 1 .. Len(sendBuf[q]) + 1
  BY DEF TypeOK
<1>2. next'[q] = IF q = r THEN next[q] + 1 ELSE next[q]
  BY DEF TypeOK
<1>3. QED
  BY <1>1, <1>2 DEF InLoop

LEMMA SendsDone ==
  ASSUME TypeOK, NEW r \in Rank, ~InLoop(r)
  PROVE  next[r] = Len(sendBuf[r]) + 1
<1>1. /\ Len(sendBuf[r]) \in Nat
      /\ next[r] \in 1 .. Len(sendBuf[r]) + 1
  BY DEF TypeOK
<1>2. QED
  BY <1>1 DEF InLoop

LEMMA InitTypeOK == Init => TypeOK
BY MaxCallsAssumption DEF Init, TypeOK, Location

LEMMA StepTypeOK == TypeOK /\ [Next]_vars => TypeOK'
<1> SUFFICES ASSUME TypeOK, [Next]_vars PROVE TypeOK'
  OBVIOUS
<1> USE MaxCallsAssumption
<1>1. ASSUME NEW r \in Rank, NEW buf \in SendBufs, Call(r, buf)
      PROVE  TypeOK'
  <2>1. buf \in Seq(Pair)
    BY SendBufsAssumption
  <2>2. call' \in [Rank -> 0 .. MaxCalls]
    BY <1>1 DEF TypeOK, Call
  <2>3. \A q \in Rank : next'[q] \in 1 .. Len(sendBuf'[q]) + 1
    BY <1>1, <2>1 DEF TypeOK, Call
  <2>4. QED
    BY <1>1, <2>1, <2>2, <2>3 DEF TypeOK, Call, Goto, Location
<1>2. ASSUME NEW r \in Rank, Issend(r)
      PROVE  TypeOK'
  <2>1. CurrentMsg(r) \in Message
    BY <1>2, CurrentMsgIsMessage DEF Issend, Advance
  <2>2. \A q \in Rank : next'[q] \in 1 .. Len(sendBuf'[q]) + 1
    BY <1>2, SendLoopBound DEF Issend, Advance
  <2>3. pool' = [pool EXCEPT ![r] = @ \cup {CurrentMsg(r)}]
    BY <1>2 DEF Issend, Advance, RequestsAfter, CurrentMsg
  <2>4. QED
    BY SMTT(60), <1>2, <2>1, <2>2, <2>3 DEF TypeOK, Issend, Advance, Goto, Location
<1>3. ASSUME NEW r \in Rank, SkipEmpty(r)
      PROVE  TypeOK'
  <2>1. \A q \in Rank : next'[q] \in 1 .. Len(sendBuf'[q]) + 1
    BY <1>3, SendLoopBound DEF SkipEmpty, Advance
  <2>2. QED
    BY SMTT(60), <1>3, <2>1 DEF TypeOK, SkipEmpty, Advance, Goto, Location
<1>4. ASSUME NEW r \in Rank, EndSends(r)
      PROVE  TypeOK'
  BY <1>4 DEF TypeOK, EndSends, Goto, Location
<1>5. ASSUME NEW r \in Rank, IprobeHit(r)
      PROVE  TypeOK'
  BY <1>5 DEF TypeOK, IprobeHit, Goto, Location, Probeable, Message
<1>6. ASSUME NEW r \in Rank, IprobeMiss(r)
      PROVE  TypeOK'
  BY <1>6 DEF TypeOK, IprobeMiss, Goto, Location
<1>7. ASSUME NEW r \in Rank, CallbackReceives(r)
      PROVE  TypeOK'
  <2>1. PICK m \in net :
          /\ net' = net \ {m}
          /\ pool' = [pool EXCEPT ![m.src] = @ \ {m}]
          /\ received' = [received EXCEPT ![r] = @ \cup {m}]
    BY <1>7 DEF CallbackReceives, Probeable, NetAfterRecv, PoolAfterRecv
  <2>2. m \in Message
    BY DEF TypeOK
  <2>3. pool' \in [Rank -> SUBSET Message] /\ received' \in [Rank -> SUBSET Message]
    BY <2>1, <2>2 DEF TypeOK
  <2>4. QED
    BY <1>7, <2>1, <2>3 DEF TypeOK, CallbackReceives, Goto, Location
<1>8. ASSUME NEW r \in Rank, CallbackDefers(r)
      PROVE  TypeOK'
  BY <1>8 DEF TypeOK, CallbackDefers, Goto, Location
<1>9. ASSUME NEW r \in Rank, StartIbarrier(r)
      PROVE  TypeOK'
  BY <1>9 DEF TypeOK, StartIbarrier, Goto, Location
<1>10. ASSUME NEW r \in Rank, LeaveLoop(r)
       PROVE  TypeOK'
  BY <1>10 DEF TypeOK, LeaveLoop, Goto, Location
<1>11. ASSUME NEW r \in Rank, TestFails(r)
       PROVE  TypeOK'
  BY <1>11 DEF TypeOK, TestFails, Goto, Location
<1>12. ASSUME NEW r \in Rank, Return(r)
       PROVE  TypeOK'
  BY <1>12 DEF TypeOK, Return, Goto, Location
<1>13. CASE UNCHANGED vars
  BY <1>13 DEF vars, TypeOK
<1>14. QED
  BY <1>1, <1>2, <1>3, <1>4, <1>5, <1>6, <1>7, <1>8, <1>9, <1>10, <1>11, <1>12,
     <1>13 DEF Next, RankStep

(* The variables keep their types: call numbers stay within the bound, the *)
(* send loop never runs past the send buffer.                              *)
THEOREM TypeCorrect == Spec => []TypeOK
BY InitTypeOK, StepTypeOK, PTL DEF Spec

LEMMA OwnMessagesTyped ==
  ASSUME TypeOK, NEW q \in Rank, NEW m \in OwnMessages(q)
  PROVE  m.src = q /\ m.dst \in Rank /\ m.call = call[q]
<1>1. PICK p \in DOMAIN sendBuf[q] :
        m = [src |-> q, dst |-> sendBuf[q][p].dst, call |-> call[q], pos |-> p]
  BY DEF OwnMessages
<1>2. sendBuf[q][p] \in Pair
  BY DEF TypeOK
<1>3. QED
  BY <1>1, <1>2 DEF Pair

(* An empty message leaves the set of messages still to be posted alone. *)
LEMMA Skipping ==
  ASSUME TypeOK, NEW r \in Rank, SkipEmpty(r)
  PROVE  Unsent(r)' = Unsent(r)
<1>1. /\ next[r] \in Nat /\ Len(sendBuf[r]) \in Nat
      /\ next'[r] = next[r] + 1
      /\ ~(sendBuf[r][next[r]].size > 0)
      /\ UNCHANGED <<sendBuf, call>>
  BY DEF TypeOK, SkipEmpty, Advance, NonEmpty
<1>2. {i \in next'[r] .. Len(sendBuf'[r]) : sendBuf'[r][i].size > 0}
      = {i \in next[r] .. Len(sendBuf[r]) : sendBuf[r][i].size > 0}
  BY <1>1
<1>3. QED
  BY <1>1, <1>2 DEF Unsent

(* What posting a message changes. *)
LEMMA Posting ==
  ASSUME IInv, NEW r \in Rank, Issend(r)
  PROVE  /\ CurrentMsg(r) \in OwnMessages(r)
         /\ pool' = [pool EXCEPT ![r] = @ \cup {CurrentMsg(r)}]
         /\ \A q \in Rank : OwnMessages(q)' = OwnMessages(q)
         /\ Unsent(r) \subseteq Unsent(r)' \cup {CurrentMsg(r)}
<1>1. /\ next[r] \in DOMAIN sendBuf[r]
      /\ sendBuf[r][next[r]].size > 0
  BY CurrentMsgIsMessage DEF Issend, Advance, IInv, NonEmpty
<1>2. CurrentMsg(r) \in OwnMessages(r)
  BY <1>1 DEF CurrentMsg, OwnMessages
<1>3. pool' = [pool EXCEPT ![r] = @ \cup {CurrentMsg(r)}]
  BY DEF Issend, Advance, RequestsAfter, CurrentMsg
<1>4. \A q \in Rank : OwnMessages(q)' = OwnMessages(q)
  BY DEF Issend, Advance, OwnMessages
<1>5. Unsent(r) \subseteq Unsent(r)' \cup {CurrentMsg(r)}
  <2> SUFFICES ASSUME NEW p \in next[r] .. Len(sendBuf[r]),
                      sendBuf[r][p].size > 0, p # next[r]
               PROVE  p \in next'[r] .. Len(sendBuf'[r])
    BY DEF Unsent, CurrentMsg, Issend, Advance
  <2>1. next[r] \in Nat /\ Len(sendBuf[r]) \in Nat /\ next'[r] = next[r] + 1
    BY DEF IInv, TypeOK, Issend, Advance
  <2>2. QED
    BY <2>1 DEF Issend, Advance
<1>6. QED
  BY <1>2, <1>3, <1>4, <1>5

(* A message a rank finds was sent in the same call: its sender has not    *)
(* passed the barriers of that call, and neither side can be ahead.        *)
LEMMA SameCall ==
  ASSUME IInv, NEW r \in Rank, NEW m \in net, m.dst = r,
         pc[r] \in {"probe", "callback", "test"}
  PROVE  m.call = call[r] /\ m.src \in Rank
<1> DEFINE s == m.src
<1>1. s \in Rank /\ m.call = call[s] /\ m \in pool[s]
  BY DEF IInv, TypeOK, InFlight, Message
<1>2. ~Outside(s) /\ ~Outside(r)
  BY <1>1 DEF IInv, LoopPhases, Outside
<1>3. /\ barriers[s] + 1 = call[s] /\ barriers[r] + 1 = call[r]
      /\ barriers[s] \in Nat /\ barriers[r] \in Nat
      /\ call[s] \in Nat /\ call[r] \in Nat
  BY <1>1, <1>2, MaxCallsAssumption DEF IInv, BarrierCounts, TypeOK
<1>4. barriers[s] + 1 >= call[r] /\ barriers[r] + 1 >= call[s]
  BY <1>1, <1>2 DEF IInv, Lockstep, Outside
<1>5. QED
  BY <1>1, <1>3, <1>4

(* What receiving a message changes. *)
LEMMA Receiving ==
  ASSUME IInv, NEW r \in Rank, CallbackReceives(r)
  PROVE  \E m \in net :
           /\ m \in Message
           /\ m.dst = r
           /\ m.call = call[r]
           /\ m \in OwnMessages(m.src)
           /\ m.call = call[m.src]
           /\ net' = net \ {m}
           /\ pool' = [pool EXCEPT ![m.src] = @ \ {m}]
           /\ received' = [received EXCEPT ![r] = @ \cup {m}]
           /\ \A q \in Rank : OwnMessages(q)' = OwnMessages(q)
           /\ \A q \in Rank : Unsent(q)' = Unsent(q)
<1>1. PICK m \in Probeable(r) :
        /\ net' = net \ {m}
        /\ pool' = [pool EXCEPT ![m.src] = @ \ {m}]
        /\ received' = [received EXCEPT ![r] = @ \cup {m}]
  BY DEF CallbackReceives, NetAfterRecv, PoolAfterRecv
<1>2. m \in net /\ m \in Message /\ m.dst = r
  BY DEF Probeable, IInv, TypeOK
<1>3. m.call = call[r]
  BY <1>2, SameCall DEF CallbackReceives, Goto
<1>4. m \in OwnMessages(m.src) /\ m.call = call[m.src]
  BY <1>2 DEF IInv, InFlight
<1>5. \A q \in Rank : OwnMessages(q)' = OwnMessages(q) /\ Unsent(q)' = Unsent(q)
  BY DEF CallbackReceives, OwnMessages, Unsent
<1>6. QED
  BY <1>1, <1>2, <1>3, <1>4, <1>5

(* A rank enters each barrier exactly once per call. *)
LEMMA StepBarrierCounts == IInv /\ [Next]_vars => BarrierCounts'
<1> SUFFICES ASSUME IInv, [Next]_vars PROVE BarrierCounts'
  OBVIOUS
<1>0. /\ call \in [Rank -> 0 .. MaxCalls] /\ pc \in [Rank -> Location]
      /\ barrierRequest \in [Rank -> BOOLEAN]
      /\ ibarriers \in [Rank -> Nat] /\ barriers \in [Rank -> Nat]
      /\ BarrierCounts
  BY DEF IInv, TypeOK
<1>1. ASSUME NEW r \in Rank, NEW buf \in SendBufs, Call(r, buf)
      PROVE  BarrierCounts'
  BY <1>0, <1>1, MaxCallsAssumption DEF Call, Goto, BarrierCounts, Outside, Location
<1>2. ASSUME NEW r \in Rank, Issend(r)
      PROVE  BarrierCounts'
  BY <1>0, <1>2, MaxCallsAssumption
     DEF Issend, Advance, Goto, BarrierCounts, Outside, Location
<1>3. ASSUME NEW r \in Rank, SkipEmpty(r)
      PROVE  BarrierCounts'
  BY <1>0, <1>3, MaxCallsAssumption
     DEF SkipEmpty, Advance, Goto, BarrierCounts, Outside, Location
<1>4. ASSUME NEW r \in Rank, EndSends(r)
      PROVE  BarrierCounts'
  BY <1>0, <1>4, MaxCallsAssumption
     DEF EndSends, Goto, BarrierCounts, Outside, Location
<1>5. ASSUME NEW r \in Rank, IprobeHit(r)
      PROVE  BarrierCounts'
  BY <1>0, <1>5, MaxCallsAssumption
     DEF IprobeHit, Goto, BarrierCounts, Outside, Location
<1>6. ASSUME NEW r \in Rank, IprobeMiss(r)
      PROVE  BarrierCounts'
  BY <1>0, <1>6, MaxCallsAssumption
     DEF IprobeMiss, Goto, BarrierCounts, Outside, Location
<1>7. ASSUME NEW r \in Rank, CallbackReceives(r)
      PROVE  BarrierCounts'
  BY <1>0, <1>7, MaxCallsAssumption
     DEF CallbackReceives, Goto, BarrierCounts, Outside, Location
<1>8. ASSUME NEW r \in Rank, CallbackDefers(r)
      PROVE  BarrierCounts'
  BY <1>0, <1>8, MaxCallsAssumption
     DEF CallbackDefers, Goto, BarrierCounts, Outside, Location
<1>9. ASSUME NEW r \in Rank, StartIbarrier(r)
      PROVE  BarrierCounts'
  BY <1>0, <1>9, MaxCallsAssumption
     DEF StartIbarrier, Goto, BarrierCounts, Outside, Location
<1>10. ASSUME NEW r \in Rank, LeaveLoop(r)
      PROVE  BarrierCounts'
  BY <1>0, <1>10, MaxCallsAssumption
     DEF LeaveLoop, Goto, BarrierCounts, Outside, Location
<1>11. ASSUME NEW r \in Rank, TestFails(r)
      PROVE  BarrierCounts'
  BY <1>0, <1>11, MaxCallsAssumption
     DEF TestFails, Goto, BarrierCounts, Outside, Location
<1>12. ASSUME NEW r \in Rank, Return(r)
      PROVE  BarrierCounts'
  BY <1>0, <1>12, MaxCallsAssumption
     DEF Return, Goto, BarrierCounts, Outside, Location
<1>13. CASE UNCHANGED vars
  BY <1>0, <1>13 DEF vars, BarrierCounts, Outside, Location
<1>14. QED
  BY <1>1, <1>2, <1>3, <1>4, <1>5, <1>6, <1>7, <1>8, <1>9, <1>10, <1>11, <1>12, <1>13
     DEF Next, RankStep

(* The barrier request exists only after all own messages are matched. *)
LEMMA StepLoopPhases == IInv /\ [Next]_vars => LoopPhases'
<1> SUFFICES ASSUME IInv, [Next]_vars PROVE LoopPhases'
  OBVIOUS
<1>0. /\ pc \in [Rank -> Location] /\ next \in [Rank -> Nat]
      /\ barrierRequest \in [Rank -> BOOLEAN] /\ net \subseteq Message
      /\ pool \in [Rank -> SUBSET Message] /\ sendBuf \in [Rank -> Seq(Pair)]
      /\ LoopPhases
  BY DEF IInv, TypeOK
<1>1. ASSUME NEW r \in Rank, NEW buf \in SendBufs, Call(r, buf)
      PROVE  LoopPhases'
  BY <1>0, <1>1, MaxCallsAssumption
     DEF Call, Goto, LoopPhases, Outside, Location, InLoop, AllMatched
<1>2. ASSUME NEW r \in Rank, Issend(r)
      PROVE  LoopPhases'
  <2>1. ~barrierRequest[r] /\ ~Outside(r)
    BY <1>0, <1>2 DEF LoopPhases, Issend, Advance, Goto, Outside
  <2>2. pool' = [pool EXCEPT ![r] = @ \cup {CurrentMsg(r)}]
    BY <1>2, Posting
  <2>3. QED
    BY <1>0, <1>2, <2>1, <2>2 DEF Issend, Advance, Goto, LoopPhases, Outside
<1>3. ASSUME NEW r \in Rank, SkipEmpty(r)
      PROVE  LoopPhases'
  BY <1>0, <1>3, MaxCallsAssumption
     DEF SkipEmpty, Advance, Goto, LoopPhases, Outside, Location, InLoop,
         AllMatched
<1>4. ASSUME NEW r \in Rank, EndSends(r)
      PROVE  LoopPhases'
  <2>1. next[r] = Len(sendBuf[r]) + 1
    BY <1>4, SendsDone DEF EndSends, IInv
  <2>2. QED
    BY <1>0, <1>4, <2>1 DEF EndSends, Goto, LoopPhases, Outside
<1>5. ASSUME NEW r \in Rank, IprobeHit(r)
      PROVE  LoopPhases'
  BY <1>0, <1>5, MaxCallsAssumption
     DEF IprobeHit, Goto, LoopPhases, Outside, Location, InLoop, AllMatched
<1>6. ASSUME NEW r \in Rank, IprobeMiss(r)
      PROVE  LoopPhases'
  BY <1>0, <1>6, MaxCallsAssumption
     DEF IprobeMiss, Goto, LoopPhases, Outside, Location, InLoop, AllMatched
<1>7. ASSUME NEW r \in Rank, CallbackReceives(r)
      PROVE  LoopPhases'
  <2>1. PICK m \in net : pool' = [pool EXCEPT ![m.src] = @ \ {m}]
    BY <1>7, Receiving
  <2>2. QED
    BY <1>0, <1>7, <2>1 DEF CallbackReceives, Goto, LoopPhases, Outside
<1>8. ASSUME NEW r \in Rank, CallbackDefers(r)
      PROVE  LoopPhases'
  BY <1>0, <1>8, MaxCallsAssumption
     DEF CallbackDefers, Goto, LoopPhases, Outside, Location, InLoop,
         AllMatched
<1>9. ASSUME NEW r \in Rank, StartIbarrier(r)
      PROVE  LoopPhases'
  BY <1>0, <1>9, MaxCallsAssumption
     DEF StartIbarrier, Goto, LoopPhases, Outside, Location, InLoop, AllMatched
<1>10. ASSUME NEW r \in Rank, LeaveLoop(r)
      PROVE  LoopPhases'
  BY <1>0, <1>10, MaxCallsAssumption
     DEF LeaveLoop, Goto, LoopPhases, Outside, Location, InLoop, AllMatched
<1>11. ASSUME NEW r \in Rank, TestFails(r)
      PROVE  LoopPhases'
  BY <1>0, <1>11, MaxCallsAssumption
     DEF TestFails, Goto, LoopPhases, Outside, Location, InLoop, AllMatched
<1>12. ASSUME NEW r \in Rank, Return(r)
      PROVE  LoopPhases'
  BY <1>0, <1>12, MaxCallsAssumption
     DEF Return, Goto, LoopPhases, Outside, Location, InLoop, AllMatched
<1>13. CASE UNCHANGED vars
  BY <1>0, <1>13 DEF vars, LoopPhases, Outside, Location, InLoop, AllMatched
<1>14. QED
  BY <1>1, <1>2, <1>3, <1>4, <1>5, <1>6, <1>7, <1>8, <1>9, <1>10, <1>11, <1>12, <1>13
     DEF Next, RankStep

(* What is under way belongs to the present call of its sender. *)
LEMMA StepInFlight == IInv /\ [Next]_vars => InFlight'
<1> SUFFICES ASSUME IInv, [Next]_vars PROVE InFlight'
  OBVIOUS
<1>0. /\ call \in [Rank -> 0 .. MaxCalls] /\ pc \in [Rank -> Location]
      /\ next \in [Rank -> Nat] /\ net \subseteq Message
      /\ pool \in [Rank -> SUBSET Message] /\ sendBuf \in [Rank -> Seq(Pair)]
      /\ InFlight /\ LoopPhases
  BY DEF IInv, TypeOK
<1>1. ASSUME NEW r \in Rank, NEW buf \in SendBufs, Call(r, buf)
      PROVE  InFlight'
  BY <1>0, <1>1, MaxCallsAssumption
     DEF Call, Goto, InFlight, LoopPhases, Outside, OwnMessages
<1>2. ASSUME NEW r \in Rank, Issend(r)
      PROVE  InFlight'
  <2>1. /\ CurrentMsg(r) \in OwnMessages(r)
        /\ pool' = [pool EXCEPT ![r] = @ \cup {CurrentMsg(r)}]
        /\ \A q \in Rank : OwnMessages(q)' = OwnMessages(q)
    BY <1>2, Posting
  <2>2. /\ CurrentMsg(r).src = r
        /\ CurrentMsg(r).call = call[r]
        /\ CurrentMsg(r).pos = next[r]
    BY <1>0 DEF CurrentMsg
  <2>3. SUFFICES ASSUME NEW m \in net'
                 PROVE  /\ m.call = call'[m.src]
                        /\ m.pos < next'[m.src]
                        /\ m \in pool'[m.src]
                        /\ m \in OwnMessages(m.src)'
    BY <1>0 DEF InFlight
  <2>4. call' = call /\ next' = [next EXCEPT ![r] = @ + 1]
    BY <1>0, <1>2 DEF Issend, Advance
  <2>5. CASE m = CurrentMsg(r)
    BY <1>0, <2>1, <2>2, <2>4, <2>5
  <2>6. CASE m \in net
    <3>1. /\ m.call = call[m.src]
          /\ m.pos < next[m.src]
          /\ m \in pool[m.src]
          /\ m \in OwnMessages(m.src)
          /\ m.src \in Rank
          /\ m.pos \in Nat
      BY <1>0, <2>6 DEF InFlight, Message
    <3>2. QED
      BY <1>0, <2>1, <2>4, <3>1
  <2>7. QED
    BY <1>0, <1>2, <2>5, <2>6 DEF Issend, Advance
<1>3. ASSUME NEW r \in Rank, SkipEmpty(r)
      PROVE  InFlight'
  BY <1>0, <1>3, MaxCallsAssumption
     DEF SkipEmpty, Advance, Goto, InFlight, LoopPhases, Outside, OwnMessages
<1>4. ASSUME NEW r \in Rank, EndSends(r)
      PROVE  InFlight'
  BY <1>0, <1>4, MaxCallsAssumption
     DEF EndSends, Goto, InFlight, LoopPhases, Outside, OwnMessages
<1>5. ASSUME NEW r \in Rank, IprobeHit(r)
      PROVE  InFlight'
  BY <1>0, <1>5, MaxCallsAssumption
     DEF IprobeHit, Goto, InFlight, LoopPhases, Outside, OwnMessages
<1>6. ASSUME NEW r \in Rank, IprobeMiss(r)
      PROVE  InFlight'
  BY <1>0, <1>6, MaxCallsAssumption
     DEF IprobeMiss, Goto, InFlight, LoopPhases, Outside, OwnMessages
<1>7. ASSUME NEW r \in Rank, CallbackReceives(r)
      PROVE  InFlight'
  <2>1. PICK m \in net :
          /\ net' = net \ {m}
          /\ pool' = [pool EXCEPT ![m.src] = @ \ {m}]
          /\ \A q \in Rank : OwnMessages(q)' = OwnMessages(q)
    BY <1>7, Receiving
  <2>2. \A o \in net : o.src \in Rank
    BY <1>0 DEF Message
  <2>3. call' = call /\ next' = next
    BY <1>0, <1>7 DEF CallbackReceives
  <2>4. QED
    BY <1>0, <2>1, <2>2, <2>3 DEF InFlight
<1>8. ASSUME NEW r \in Rank, CallbackDefers(r)
      PROVE  InFlight'
  BY <1>0, <1>8, MaxCallsAssumption
     DEF CallbackDefers, Goto, InFlight, LoopPhases, Outside, OwnMessages
<1>9. ASSUME NEW r \in Rank, StartIbarrier(r)
      PROVE  InFlight'
  BY <1>0, <1>9, MaxCallsAssumption
     DEF StartIbarrier, Goto, InFlight, LoopPhases, Outside, OwnMessages
<1>10. ASSUME NEW r \in Rank, LeaveLoop(r)
      PROVE  InFlight'
  BY <1>0, <1>10, MaxCallsAssumption
     DEF LeaveLoop, Goto, InFlight, LoopPhases, Outside, OwnMessages
<1>11. ASSUME NEW r \in Rank, TestFails(r)
      PROVE  InFlight'
  BY <1>0, <1>11, MaxCallsAssumption
     DEF TestFails, Goto, InFlight, LoopPhases, Outside, OwnMessages
<1>12. ASSUME NEW r \in Rank, Return(r)
      PROVE  InFlight'
  BY <1>0, <1>12, MaxCallsAssumption
     DEF Return, Goto, InFlight, LoopPhases, Outside, OwnMessages
<1>13. CASE UNCHANGED vars
  BY <1>0, <1>13 DEF vars, InFlight, LoopPhases, Outside, OwnMessages
<1>14. QED
  BY <1>1, <1>2, <1>3, <1>4, <1>5, <1>6, <1>7, <1>8, <1>9, <1>10, <1>11, <1>12, <1>13
     DEF Next, RankStep

(* No rank gets ahead of a barrier. *)
LEMMA StepLockstep == IInv /\ [Next]_vars => Lockstep'
<1> SUFFICES ASSUME IInv, [Next]_vars PROVE Lockstep'
  OBVIOUS
<1>0. /\ call \in [Rank -> 0 .. MaxCalls] /\ pc \in [Rank -> Location]
      /\ barrierRequest \in [Rank -> BOOLEAN]
      /\ ibarriers \in [Rank -> Nat] /\ barriers \in [Rank -> Nat]
      /\ Lockstep /\ BarrierCounts /\ LoopPhases
  BY DEF IInv, TypeOK
<1>1. ASSUME NEW r \in Rank, NEW buf \in SendBufs, Call(r, buf)
      PROVE  Lockstep'
  BY <1>0, <1>1, MaxCallsAssumption
     DEF Call, Goto, Lockstep, BarrierCounts, LoopPhases, Outside, Location,
         IbarrierComplete, BarrierComplete
<1>2. ASSUME NEW r \in Rank, Issend(r)
      PROVE  Lockstep'
  BY <1>0, <1>2, MaxCallsAssumption
     DEF Issend, Advance, Goto, Lockstep, BarrierCounts, LoopPhases, Outside,
         Location, IbarrierComplete, BarrierComplete
<1>3. ASSUME NEW r \in Rank, SkipEmpty(r)
      PROVE  Lockstep'
  BY <1>0, <1>3, MaxCallsAssumption
     DEF SkipEmpty, Advance, Goto, Lockstep, BarrierCounts, LoopPhases,
         Outside, Location, IbarrierComplete, BarrierComplete
<1>4. ASSUME NEW r \in Rank, EndSends(r)
      PROVE  Lockstep'
  BY <1>0, <1>4, MaxCallsAssumption
     DEF EndSends, Goto, Lockstep, BarrierCounts, LoopPhases, Outside,
         Location, IbarrierComplete, BarrierComplete
<1>5. ASSUME NEW r \in Rank, IprobeHit(r)
      PROVE  Lockstep'
  BY <1>0, <1>5, MaxCallsAssumption
     DEF IprobeHit, Goto, Lockstep, BarrierCounts, LoopPhases, Outside,
         Location, IbarrierComplete, BarrierComplete
<1>6. ASSUME NEW r \in Rank, IprobeMiss(r)
      PROVE  Lockstep'
  BY <1>0, <1>6, MaxCallsAssumption
     DEF IprobeMiss, Goto, Lockstep, BarrierCounts, LoopPhases, Outside,
         Location, IbarrierComplete, BarrierComplete
<1>7. ASSUME NEW r \in Rank, CallbackReceives(r)
      PROVE  Lockstep'
  BY <1>0, <1>7, MaxCallsAssumption
     DEF CallbackReceives, Goto, Lockstep, BarrierCounts, LoopPhases, Outside,
         Location, IbarrierComplete, BarrierComplete
<1>8. ASSUME NEW r \in Rank, CallbackDefers(r)
      PROVE  Lockstep'
  BY <1>0, <1>8, MaxCallsAssumption
     DEF CallbackDefers, Goto, Lockstep, BarrierCounts, LoopPhases, Outside,
         Location, IbarrierComplete, BarrierComplete
<1>9. ASSUME NEW r \in Rank, StartIbarrier(r)
      PROVE  Lockstep'
  <2>1. /\ ibarriers' = [ibarriers EXCEPT ![r] = @ + 1]
        /\ UNCHANGED <<call, barriers>>
        /\ pc[r] = "test" /\ pc' = [pc EXCEPT ![r] = "probe"]
    BY <1>0, <1>9 DEF StartIbarrier, Goto
  <2>2. \A q \in Rank : ibarriers[q] \in Nat /\ ibarriers'[q] >= ibarriers[q]
    BY <1>0, <2>1
  <2>3. \A q \in Rank : call[q] \in Nat
    BY <1>0, MaxCallsAssumption
  <2>4. \A p \in Rank : Outside(p)' = Outside(p)
    BY <1>0, <2>1 DEF Outside
  <2>5. \A p \in Rank : pc'[p] = "idle" <=> pc[p] = "idle"
    BY <1>0, <2>1
  <2>6. ibarriers' \in [Rank -> Nat]
    BY <1>0, <2>1
  <2>7. SUFFICES ASSUME NEW p \in Rank, NEW q \in Rank
                 PROVE  /\ pc'[p] # "idle" => barriers'[q] + 1 >= call'[p]
                        /\ pc'[p] = "idle" => barriers'[q] >= call'[p]
                        /\ Outside(p)' => ibarriers'[q] >= call'[p]
    BY <1>0 DEF Lockstep
  <2>8. /\ pc[p] # "idle" => barriers[q] + 1 >= call[p]
        /\ pc[p] = "idle" => barriers[q] >= call[p]
        /\ Outside(p) => ibarriers[q] >= call[p]
    BY <1>0 DEF Lockstep, IInv
  <2>9. QED
    BY <1>0, <2>1, <2>2, <2>3, <2>4, <2>5, <2>6, <2>8
<1>10. ASSUME NEW r \in Rank, LeaveLoop(r)
      PROVE  Lockstep'
  <2>1. /\ barriers' = [barriers EXCEPT ![r] = @ + 1]
        /\ UNCHANGED <<call, ibarriers>>
        /\ pc[r] = "test" /\ pc' = [pc EXCEPT ![r] = "barrier"]
        /\ barrierRequest[r]
        /\ IbarrierComplete(r)
    BY <1>0, <1>10 DEF LeaveLoop, Goto
  <2>2. \A q \in Rank : barriers[q] \in Nat /\ barriers'[q] \in Nat /\ barriers'[q] >= barriers[q]
    BY <1>0, <2>1
  <2>3. \A q \in Rank : call[q] \in Nat
    BY <1>0, MaxCallsAssumption
  <2>4. ibarriers[r] = call[r]
    BY <1>0, <2>1 DEF BarrierCounts
  <2>5. \A q \in Rank : ibarriers[q] >= call[r]
    BY <1>0, <2>1, <2>4 DEF IbarrierComplete
  <2>6. \A p \in Rank : Outside(p)' => Outside(p) \/ p = r
    BY <1>0, <2>1 DEF Outside
  <2>7. \A p \in Rank : /\ pc'[p] = "idle" => pc[p] = "idle"
                        /\ pc'[p] # "idle" => pc[p] # "idle"
    BY <1>0, <2>1
  <2>8. SUFFICES ASSUME NEW p \in Rank, NEW q \in Rank
                 PROVE  /\ pc'[p] # "idle" => barriers'[q] + 1 >= call'[p]
                        /\ pc'[p] = "idle" => barriers'[q] >= call'[p]
                        /\ Outside(p)' => ibarriers'[q] >= call'[p]
    BY <1>0 DEF Lockstep
  <2>9. /\ pc[p] # "idle" => barriers[q] + 1 >= call[p]
        /\ pc[p] = "idle" => barriers[q] >= call[p]
        /\ Outside(p) => ibarriers[q] >= call[p]
    BY <1>0 DEF Lockstep, IInv
  <2>10. QED
    BY <1>0, <2>1, <2>2, <2>3, <2>5, <2>6, <2>7, <2>9
<1>11. ASSUME NEW r \in Rank, TestFails(r)
      PROVE  Lockstep'
  BY <1>0, <1>11, MaxCallsAssumption
     DEF TestFails, Goto, Lockstep, BarrierCounts, LoopPhases, Outside,
         Location, IbarrierComplete, BarrierComplete
<1>12. ASSUME NEW r \in Rank, Return(r)
      PROVE  Lockstep'
  BY <1>0, <1>12, MaxCallsAssumption
     DEF Return, Goto, Lockstep, BarrierCounts, LoopPhases, Outside, Location,
         IbarrierComplete, BarrierComplete
<1>13. CASE UNCHANGED vars
  BY <1>0, <1>13
     DEF vars, Lockstep, BarrierCounts, LoopPhases, Outside, Location,
         IbarrierComplete, BarrierComplete
<1>14. QED
  BY <1>1, <1>2, <1>3, <1>4, <1>5, <1>6, <1>7, <1>8, <1>9, <1>10, <1>11, <1>12, <1>13
     DEF Next, RankStep

(* No message gets lost and none is made up. *)
LEMMA StepAccounting == IInv /\ [Next]_vars => Accounting'
<1> SUFFICES ASSUME IInv, [Next]_vars PROVE Accounting'
  OBVIOUS
<1>0. \A q \in Rank : \A m \in OwnMessages(q) : m.dst \in Rank
  BY OwnMessagesTyped DEF IInv
<1>01. /\ \A q \in Rank : \A m \in received[q] : m \in Message /\ m.src \in Rank
       /\ \A q \in Rank : call[q] \in Nat
       /\ received \in [Rank -> SUBSET Message]
       /\ call \in [Rank -> 0 .. MaxCalls] /\ next \in [Rank -> Nat]
       /\ sendBuf \in [Rank -> Seq(Pair)]
       /\ Accounting /\ CallIsolation
  BY MaxCallsAssumption DEF IInv, TypeOK, Message
<1>1. ASSUME NEW r \in Rank, NEW buf \in SendBufs, Call(r, buf)
      PROVE  Accounting'
  <2>1. /\ pc[r] = "idle"
        /\ call' = [call EXCEPT ![r] = @ + 1]
        /\ sendBuf' = [sendBuf EXCEPT ![r] = buf]
        /\ next' = [next EXCEPT ![r] = 1]
        /\ net' = net
        /\ received' = [received EXCEPT ![r] = {}]
    BY <1>01, <1>1 DEF Call, Goto
  <2>2. \A q \in Rank : call[q] \in Nat
    BY <1>01, MaxCallsAssumption
  <2>3. OwnMessages(r)' \subseteq Unsent(r)'
    <3>1. Len(buf) \in Nat /\ DOMAIN buf = 1 .. Len(buf)
      BY <1>01, SendBufsAssumption
    <3>2. sendBuf'[r] = buf /\ next'[r] = 1
      BY <1>01, <2>1
    <3>3. QED
      BY <1>01, <3>1, <3>2 DEF OwnMessages, Unsent
  <2>4. \A q \in Rank \ {r} : /\ OwnMessages(q)' = OwnMessages(q)
                              /\ Unsent(q)' = Unsent(q)
                              /\ call'[q] = call[q]
                              /\ received'[q] = received[q]
    BY <1>01, <2>1 DEF OwnMessages, Unsent
  <2>5. call'[r] = call[r] + 1 /\ received'[r] = {}
    BY <1>01, <2>1
  <2>6. ASSUME NEW q \in Rank, NEW m \in OwnMessages(q)', call'[q] >= call'[m.dst]
        PROVE  m \in Unsent(q)' \cup net' \cup received'[m.dst]
    <3>1. CASE q = r
      BY <1>01, <2>3, <3>1
    <3>2. CASE q # r /\ m.dst # r
      <4>1. m \in OwnMessages(q) /\ m.dst \in Rank
        BY <1>01, <2>4, <3>2, <1>0
      <4>2. QED
        BY <1>01, <2>1, <2>4, <2>6, <3>2, <4>1 DEF Accounting
    <3>3. CASE q # r /\ m.dst = r
      <4>1. m \in OwnMessages(q) /\ call[q] >= call[r] + 1 /\ m.call = call[q]
        BY <1>01, <2>4, <2>5, <2>6, <3>3 DEF OwnMessages
      <4>2. m \notin received[r]
        BY <1>01, <2>2, <4>1 DEF CallIsolation
      <4>3. m \in Unsent(q) \cup net \cup received[r]
        BY <1>01, <2>2, <3>3, <4>1 DEF Accounting
      <4>4. QED
        BY <1>01, <2>1, <2>4, <3>3, <4>2, <4>3
    <3>4. QED
      BY <1>01, <3>1, <3>2, <3>3
  <2>7. ASSUME NEW q \in Rank, NEW m \in received'[q]
        PROVE  /\ m.call <= call'[m.src]
               /\ m.call = call'[m.src] => m \in OwnMessages(m.src)'
    <3>1. q # r /\ m \in received[q]
      BY <1>01, <2>4, <2>5
    <3>2. /\ m.src \in Rank /\ m.call \in Nat
          /\ m.call <= call[m.src]
          /\ m.call = call[m.src] => m \in OwnMessages(m.src)
      BY <1>01, <3>1 DEF Accounting, Message
    <3>3. CASE m.src = r
      BY <1>01, <2>2, <2>5, <3>2, <3>3
    <3>4. CASE m.src # r
      BY <1>01, <2>4, <3>2, <3>4
    <3>5. QED
      BY <1>01, <3>3, <3>4
  <2>8. QED
    BY <1>01, <2>6, <2>7 DEF Accounting
<1>2. ASSUME NEW r \in Rank, Issend(r)
      PROVE  Accounting'
  <2>1. /\ \A q \in Rank : OwnMessages(q)' = OwnMessages(q)
        /\ Unsent(r) \subseteq Unsent(r)' \cup {CurrentMsg(r)}
    BY <1>01, <1>2, Posting
  <2>2. /\ UNCHANGED <<call, received>>
        /\ net' = net \cup {CurrentMsg(r)}
    BY <1>01, <1>2 DEF Issend, Advance
  <2>3. \A q \in Rank \ {r} : Unsent(q)' = Unsent(q)
    BY <1>01, <1>2 DEF Issend, Advance, Unsent
  <2>4. ASSUME NEW q \in Rank, NEW m \in OwnMessages(q)', call'[q] >= call'[m.dst]
        PROVE  m \in Unsent(q)' \cup net' \cup received'[m.dst]
    <3>1. m \in Unsent(q) \cup net \cup received[m.dst]
      BY <1>01, <2>1, <2>2, <2>4 DEF Accounting
    <3>2. QED
      BY <1>01, <2>1, <2>2, <2>3, <3>1
  <2>5. ASSUME NEW q \in Rank, NEW m \in received'[q]
        PROVE  /\ m.call <= call'[m.src]
               /\ m.call = call'[m.src] => m \in OwnMessages(m.src)'
    <3>1. m \in received[q] /\ m.src \in Rank
      BY <1>01, <2>2 DEF Message
    <3>2. QED
      BY <1>01, <2>1, <2>2, <3>1 DEF Accounting
  <2>6. QED
    BY <1>01, <2>4, <2>5 DEF Accounting
<1>3. ASSUME NEW r \in Rank, SkipEmpty(r)
      PROVE  Accounting'
  <2>1. UNCHANGED <<call, received, net, sendBuf>>
    BY <1>01, <1>3 DEF SkipEmpty, Advance
  <2>2. \A q \in Rank : OwnMessages(q)' = OwnMessages(q)
    BY <1>01, <2>1 DEF OwnMessages
  <2>3. \A q \in Rank \ {r} : Unsent(q)' = Unsent(q)
    BY <1>01, <1>3 DEF SkipEmpty, Advance, Unsent
  <2>4. Unsent(r) \subseteq Unsent(r)'
    BY <1>3, Skipping DEF IInv
  <2>5. \A m : m \in Message => m.src \in Rank
    BY <1>01 DEF Message
  <2>6. QED
    BY <1>01, <2>1, <2>2, <2>3, <2>4, <2>5 DEF Accounting
<1>4. ASSUME NEW r \in Rank, CallbackReceives(r)
      PROVE  Accounting'
  <2>1. PICK m \in net :
          /\ m \in Message
          /\ m.dst = r
          /\ m \in OwnMessages(m.src)
          /\ m.call = call[m.src]
          /\ net' = net \ {m}
          /\ received' = [received EXCEPT ![r] = @ \cup {m}]
          /\ \A q \in Rank : OwnMessages(q)' = OwnMessages(q)
          /\ \A q \in Rank : Unsent(q)' = Unsent(q)
    BY <1>01, <1>4, Receiving
  <2>2. call' = call /\ call[m.src] \in Nat /\ m.src \in Rank
    BY <1>01, <1>4, <2>1, MaxCallsAssumption DEF CallbackReceives, Message
  <2>3. \A q \in Rank : received[q] \subseteq received'[q]
    BY <1>01, <2>1
  <2>4. \A o \in net : o \in net' \/ (o = m /\ o \in received'[o.dst])
    BY <1>01, <2>1
  <2>5. \A q \in Rank : \A o \in received'[q] : o \in received[q] \/ o = m
    BY <1>01, <2>1
  <2>6. ASSUME NEW q \in Rank, NEW o \in OwnMessages(q)', call'[q] >= call'[o.dst]
        PROVE  o \in Unsent(q)' \cup net' \cup received'[o.dst]
    <3>1. o \in OwnMessages(q) /\ o.dst \in Rank
      BY <1>01, <2>1, <2>6, <1>0
    <3>2. o \in Unsent(q) \cup net \cup received[o.dst]
      BY <1>01, <2>2, <2>6, <3>1 DEF Accounting
    <3>3. QED
      BY <1>01, <2>1, <2>3, <2>4, <3>1, <3>2
  <2>7. ASSUME NEW q \in Rank, NEW o \in received'[q]
        PROVE  /\ o.call <= call'[o.src]
               /\ o.call = call'[o.src] => o \in OwnMessages(o.src)'
    <3>1. CASE o = m
      BY <1>01, <2>1, <2>2, <3>1
    <3>2. CASE o \in received[q]
      <4>1. o.src \in Rank
        BY <1>01, <3>2 DEF Message
      <4>2. QED
        BY <1>01, <2>1, <2>2, <3>2, <4>1 DEF Accounting
    <3>3. QED
      BY <1>01, <2>5, <3>1, <3>2
  <2>8. QED
    BY <1>01, <2>6, <2>7 DEF Accounting
<1>5. CASE UNCHANGED <<call, sendBuf, next, net, received>>
  <2>1. /\ \A q \in Rank : OwnMessages(q)' = OwnMessages(q)
        /\ \A q \in Rank : Unsent(q)' = Unsent(q)
    BY <1>01, <1>5 DEF OwnMessages, Unsent
  <2>2. \A q \in Rank : \A m \in received[q] : m.src \in Rank
    BY <1>01
  <2>3. QED
    BY <1>01, <1>5, <2>1, <2>2 DEF Accounting
<1>6. QED
  BY <1>1, <1>2, <1>3, <1>4, <1>5
     DEF Next, RankStep, EndSends, IprobeHit, IprobeMiss, CallbackDefers,
         StartIbarrier, LeaveLoop, TestFails, Return, vars

(* No message crosses from one call into another. *)
LEMMA StepCallIsolation == IInv /\ [Next]_vars => CallIsolation'
<1> SUFFICES ASSUME IInv, [Next]_vars PROVE CallIsolation'
  OBVIOUS
<1>0. /\ call \in [Rank -> 0 .. MaxCalls]
      /\ received \in [Rank -> SUBSET Message]
      /\ CallIsolation
  BY DEF IInv, TypeOK
<1>1. ASSUME NEW r \in Rank, NEW buf \in SendBufs, Call(r, buf)
      PROVE  CallIsolation'
  BY <1>0, <1>1, MaxCallsAssumption
     DEF Call, Goto, CallIsolation, InFlight, Lockstep, BarrierCounts,
         LoopPhases, Outside
<1>2. ASSUME NEW r \in Rank, Issend(r)
      PROVE  CallIsolation'
  BY <1>0, <1>2, MaxCallsAssumption
     DEF Issend, Advance, Goto, CallIsolation, InFlight, Lockstep,
         BarrierCounts, LoopPhases, Outside
<1>3. ASSUME NEW r \in Rank, SkipEmpty(r)
      PROVE  CallIsolation'
  BY <1>0, <1>3, MaxCallsAssumption
     DEF SkipEmpty, Advance, Goto, CallIsolation, InFlight, Lockstep,
         BarrierCounts, LoopPhases, Outside
<1>4. ASSUME NEW r \in Rank, EndSends(r)
      PROVE  CallIsolation'
  BY <1>0, <1>4, MaxCallsAssumption
     DEF EndSends, Goto, CallIsolation, InFlight, Lockstep, BarrierCounts,
         LoopPhases, Outside
<1>5. ASSUME NEW r \in Rank, IprobeHit(r)
      PROVE  CallIsolation'
  BY <1>0, <1>5, MaxCallsAssumption
     DEF IprobeHit, Goto, CallIsolation, InFlight, Lockstep, BarrierCounts,
         LoopPhases, Outside
<1>6. ASSUME NEW r \in Rank, IprobeMiss(r)
      PROVE  CallIsolation'
  BY <1>0, <1>6, MaxCallsAssumption
     DEF IprobeMiss, Goto, CallIsolation, InFlight, Lockstep, BarrierCounts,
         LoopPhases, Outside
<1>7. ASSUME NEW r \in Rank, CallbackReceives(r)
      PROVE  CallIsolation'
  <2>1. PICK m \in net :
          /\ m.dst = r
          /\ m.call = call[r]
          /\ received' = [received EXCEPT ![r] = @ \cup {m}]
    BY <1>7, Receiving
  <2>2. call' = call
    BY <1>0, <1>7 DEF CallbackReceives
  <2>3. QED
    BY <1>0, <2>1, <2>2 DEF CallIsolation
<1>8. ASSUME NEW r \in Rank, CallbackDefers(r)
      PROVE  CallIsolation'
  BY <1>0, <1>8, MaxCallsAssumption
     DEF CallbackDefers, Goto, CallIsolation, InFlight, Lockstep,
         BarrierCounts, LoopPhases, Outside
<1>9. ASSUME NEW r \in Rank, StartIbarrier(r)
      PROVE  CallIsolation'
  BY <1>0, <1>9, MaxCallsAssumption
     DEF StartIbarrier, Goto, CallIsolation, InFlight, Lockstep, BarrierCounts,
         LoopPhases, Outside
<1>10. ASSUME NEW r \in Rank, LeaveLoop(r)
      PROVE  CallIsolation'
  BY <1>0, <1>10, MaxCallsAssumption
     DEF LeaveLoop, Goto, CallIsolation, InFlight, Lockstep, BarrierCounts,
         LoopPhases, Outside
<1>11. ASSUME NEW r \in Rank, TestFails(r)
      PROVE  CallIsolation'
  BY <1>0, <1>11, MaxCallsAssumption
     DEF TestFails, Goto, CallIsolation, InFlight, Lockstep, BarrierCounts,
         LoopPhases, Outside
<1>12. ASSUME NEW r \in Rank, Return(r)
      PROVE  CallIsolation'
  BY <1>0, <1>12, MaxCallsAssumption
     DEF Return, Goto, CallIsolation, InFlight, Lockstep, BarrierCounts,
         LoopPhases, Outside
<1>13. CASE UNCHANGED vars
  BY <1>0, <1>13
     DEF vars, CallIsolation, InFlight, Lockstep, BarrierCounts, LoopPhases,
         Outside
<1>14. QED
  BY <1>1, <1>2, <1>3, <1>4, <1>5, <1>6, <1>7, <1>8, <1>9, <1>10, <1>11, <1>12, <1>13
     DEF Next, RankStep

LEMMA InitIInv == Init => IInv
<1> SUFFICES ASSUME Init PROVE IInv
  OBVIOUS
<1>1. TypeOK
  BY InitTypeOK
<1>2. BarrierCounts /\ LoopPhases /\ InFlight /\ Lockstep /\ CallIsolation
  BY
     DEF Init, BarrierCounts, LoopPhases, InFlight, Lockstep, CallIsolation,
         Outside
<1>3. Accounting
  <2>1. \A q \in Rank : sendBuf[q] = <<>> /\ received[q] = {}
    BY DEF Init
  <2>2. \A q \in Rank : OwnMessages(q) = {}
    BY <2>1 DEF OwnMessages
  <2>3. QED
    BY <2>1, <2>2 DEF Accounting
<1>4. QED
  BY <1>1, <1>2, <1>3 DEF IInv

LEMMA StepIInv == IInv /\ [Next]_vars => IInv'
<1> SUFFICES ASSUME IInv, [Next]_vars PROVE IInv'
  OBVIOUS
<1>1. TypeOK'
  BY StepTypeOK DEF IInv
<1>2. BarrierCounts' /\ LoopPhases' /\ InFlight'
  BY StepBarrierCounts, StepLoopPhases, StepInFlight
<1>3. Lockstep' /\ Accounting' /\ CallIsolation'
  BY StepLockstep, StepAccounting, StepCallIsolation
<1>4. QED
  BY <1>1, <1>2, <1>3 DEF IInv

(* The inductive invariant of the algorithm: barrier counts, phases of the *)
(* polling loop, where each message of a call is.                          *)
THEOREM Inductive == Spec => []IInv
BY InitIInv, StepIInv, PTL DEF Spec

(* A rank that left the polling loop of alltoallv_sparse leaves nothing    *)
(* of its call behind, at any rank.                                        *)
LEMMA IInvQuiescence == IInv => Quiescence
<1> SUFFICES ASSUME IInv, NEW r \in Rank, pc[r] = "barrier"
             PROVE  /\ pool[r] = {}
                    /\ \A m \in net : m.call # call[r]
                    /\ \A q \in Rank : call[q] = call[r] => Unsent(q) = {}
  BY DEF Quiescence
<1>1. pool[r] = {}
  BY DEF IInv, LoopPhases, Outside
<1>2. ASSUME NEW q \in Rank, call[q] = call[r]
      PROVE  Outside(q) \/ barrierRequest[q]
  <2>1. ibarriers[q] >= call[q] /\ ibarriers[q] \in Nat /\ call[q] \in Nat
    BY <1>2, MaxCallsAssumption DEF IInv, TypeOK, Lockstep, Outside
  <2>2. QED
    BY <2>1 DEF IInv, BarrierCounts
<1>3. ASSUME NEW m \in net
      PROVE  m.call # call[r]
  <2>1. m.src \in Rank /\ m.call = call[m.src] /\ m \in pool[m.src]
    BY <1>3 DEF IInv, InFlight, TypeOK, Message
  <2>2. ~(Outside(m.src) \/ barrierRequest[m.src])
    BY <2>1 DEF IInv, LoopPhases
  <2>3. QED
    BY <1>2, <2>1, <2>2
<1>4. ASSUME NEW q \in Rank, call[q] = call[r]
      PROVE  Unsent(q) = {}
  <2>1. next[q] = Len(sendBuf[q]) + 1
    BY <1>2, <1>4 DEF IInv, LoopPhases, Outside
  <2>2. Len(sendBuf[q]) \in Nat
    BY DEF IInv, TypeOK
  <2>3. next[q] .. Len(sendBuf[q]) = {}
    BY <2>1, <2>2
  <2>4. QED
    BY <2>3 DEF Unsent
<1>5. QED
  BY <1>1, <1>3, <1>4

(* A rank that leaves the polling loop of alltoallv_sparse leaves nothing   *)
(* of its call to be sent, under way or pending, in any call.               *)
THEOREM SparseQuiescence == Spec => []Quiescence
BY Inductive, IInvQuiescence, PTL

(* No callback of alltoallv_sparse ever sees a message of another call. *)
THEOREM SparseCallIsolation == Spec => []CallIsolation
<1>1. IInv => CallIsolation
  BY DEF IInv
<1>2. QED
  BY <1>1, Inductive, PTL

(* A rank that left the polling loop has received exactly the messages     *)
(* addressed to it.                                                        *)
LEMMA IInvComplete == IInv => Complete
<1> SUFFICES ASSUME IInv, NEW r \in Rank, pc[r] = "barrier",
                    \A q \in Rank : call[q] = call[r]
             PROVE  received[r] = {m \in UNION {OwnMessages(q) : q \in Rank} : m.dst = r}
  BY DEF Complete
<1>1. /\ \A m \in net : m.call # call[r]
      /\ \A q \in Rank : Unsent(q) = {}
  BY IInvQuiescence DEF Quiescence
<1>2. ASSUME NEW m \in received[r]
      PROVE  m.src \in Rank /\ m \in OwnMessages(m.src) /\ m.dst = r
  <2>1. m \in Message /\ m.dst = r /\ m.call = call[r]
    BY DEF IInv, TypeOK, CallIsolation
  <2>2. m.src \in Rank
    BY <2>1 DEF Message
  <2>3. QED
    BY <2>1, <2>2 DEF IInv, Accounting
<1>3. ASSUME NEW q \in Rank, NEW m \in OwnMessages(q), m.dst = r
      PROVE  m \in received[r]
  <2>1. m.call = call[r]
    BY <1>3, OwnMessagesTyped DEF IInv
  <2>2. call[q] >= call[m.dst]
    BY <1>3, MaxCallsAssumption DEF IInv, TypeOK
  <2>3. m \in Unsent(q) \cup net \cup received[m.dst]
    BY <2>2 DEF IInv, Accounting
  <2>4. QED
    BY <1>1, <1>3, <2>1, <2>3
<1>4. QED
  BY <1>2, <1>3

(* The callback of alltoallv_sparse has received, when its rank leaves the  *)
(* polling loop, exactly what all ranks addressed to it in this call.       *)
THEOREM SparseComplete == Spec => []Complete
BY Inductive, IInvComplete, PTL

-----------------------------------------------------------------------------
(***************************************************************************)
(* The algorithm implements SparseExchange.                                *)
(***************************************************************************)
LEMMA InitRefines == Init => Abstract!Init
<1> SUFFICES ASSUME Init PROVE Abstract!Init
  OBVIOUS
<1>1. \A r \in Rank : Unsent(r) = {}
  BY DEF Init, Unsent
<1>2. net \cup UNION {Unsent(r) : r \in Rank} = {}
  BY <1>1 DEF Init
<1>3. QED
  BY <1>2 DEF Init, Abstract!Init

(* The messages that count as posted and not delivered. *)
Pending == net \cup UNION {Unsent(r) : r \in Rank}

LEMMA CallRefines ==
  ASSUME IInv, NEW r \in Rank, NEW buf \in SendBufs, Call(r, buf)
  PROVE  Abstract!Begin(r, buf)
<1>1. /\ pc[r] = "idle" /\ pc' = [pc EXCEPT ![r] = "send"]
      /\ call[r] < MaxCalls
      /\ call' = [call EXCEPT ![r] = @ + 1]
      /\ sendBuf' = [sendBuf EXCEPT ![r] = buf]
      /\ next' = [next EXCEPT ![r] = 1]
      /\ net' = net
      /\ received' = [received EXCEPT ![r] = {}]
  BY DEF Call, Goto
<1>2. \A q \in Rank \ {r} : Unsent(q)' = Unsent(q)
  BY <1>1 DEF Unsent, IInv, TypeOK
<1>3. Unsent(r) = {}
  <2>1. next[r] = Len(sendBuf[r]) + 1 /\ Len(sendBuf[r]) \in Nat
    BY <1>1 DEF IInv, LoopPhases, TypeOK
  <2>2. next[r] .. Len(sendBuf[r]) = {}
    BY <2>1
  <2>3. QED
    BY <2>2 DEF Unsent
<1>4. Unsent(r)' = Abstract!Posted(r, call[r] + 1, buf)
  <2>1. sendBuf'[r] = buf /\ next'[r] = 1 /\ call'[r] = call[r] + 1
    BY <1>1 DEF IInv, TypeOK
  <2>2. DOMAIN buf = 1 .. Len(buf)
    BY SendBufsAssumption
  <2>3. QED
    BY <2>1, <2>2 DEF Unsent, Abstract!Posted, Abstract!Msg
<1>5. Pending' = Pending \cup Abstract!Posted(r, call[r] + 1, buf)
  BY <1>1, <1>2, <1>3, <1>4 DEF Pending
<1>6. [q \in Rank |-> pc[q] # "idle"]' = [[q \in Rank |-> pc[q] # "idle"] EXCEPT ![r] = TRUE]
  BY <1>1 DEF IInv, TypeOK
<1>7. QED
  BY <1>1, <1>5, <1>6 DEF Abstract!Begin, Pending

LEMMA ReceiveRefines ==
  ASSUME IInv, NEW r \in Rank, CallbackReceives(r)
  PROVE  \E m \in Pending : Abstract!Deliver(m)
<1>1. PICK m \in net :
         /\ m \in Message
         /\ m.dst = r
         /\ m.call = call[r]
         /\ net' = net \ {m}
         /\ received' = [received EXCEPT ![r] = @ \cup {m}]
         /\ \A q \in Rank : Unsent(q)' = Unsent(q)
  BY Receiving
<1>2. /\ pc[r] = "callback" /\ pc' = [pc EXCEPT ![r] = "test"]
      /\ call' = call
  BY DEF CallbackReceives, Goto
<1>3. \A q \in Rank : m \notin Unsent(q)
  <2> SUFFICES ASSUME NEW q \in Rank, NEW p \in next[q] .. Len(sendBuf[q]),
                      m = [src |-> q, dst |-> sendBuf[q][p].dst,
                           call |-> call[q], pos |-> p]
               PROVE  FALSE
    BY DEF Unsent
  <2>1. m.pos = p /\ m.src = q
    OBVIOUS
  <2>2. m.pos < next[m.src]
    BY DEF IInv, InFlight
  <2>3. next[q] \in Nat /\ Len(sendBuf[q]) \in Nat
    BY DEF IInv, TypeOK
  <2>4. QED
    BY <2>1, <2>2, <2>3
<1>4. m \in Pending /\ Pending' = Pending \ {m}
  BY <1>1, <1>3 DEF Pending
<1>5. [q \in Rank |-> pc[q] # "idle"]' = [q \in Rank |-> pc[q] # "idle"]
  BY <1>2 DEF IInv, TypeOK
<1>6. Abstract!Deliver(m)
  BY <1>1, <1>2, <1>4, <1>5 DEF Abstract!Deliver, Pending
<1>7. QED
  BY <1>4, <1>6

LEMMA ReturnRefines ==
  ASSUME IInv, NEW r \in Rank, Return(r)
  PROVE  Abstract!Return(r)
<1>1. /\ pc[r] = "barrier" /\ pc' = [pc EXCEPT ![r] = "idle"]
      /\ UNCHANGED <<call, sendBuf, next, net, received>>
      /\ \A q \in Rank : barriers[q] >= barriers[r]
  BY DEF Return, Goto, BarrierComplete
<1>2. \A q \in Rank : call[q] >= call[r]
  <2> SUFFICES ASSUME NEW q \in Rank PROVE call[q] >= call[r]
    OBVIOUS
  <2>1. /\ barriers[q] \in Nat /\ barriers[r] \in Nat
        /\ call[q] \in Nat /\ call[r] \in Nat
    BY MaxCallsAssumption DEF IInv, TypeOK
  <2>2. barriers[r] = call[r] /\ barriers[q] <= call[q]
    BY <1>1, <2>1 DEF IInv, BarrierCounts, Outside
  <2>3. QED
    BY <1>1, <2>1, <2>2
<1>3. \A m \in Pending : m.call # call[r]
  <2>1. /\ \A m \in net : m.call # call[r]
        /\ \A q \in Rank : call[q] = call[r] => Unsent(q) = {}
    BY <1>1, IInvQuiescence DEF Quiescence
  <2>2. \A q \in Rank : \A m \in Unsent(q) : m.call = call[q]
    BY DEF Unsent
  <2>3. QED
    BY <2>1, <2>2 DEF Pending
<1>4. Pending' = Pending
  BY <1>1 DEF Pending, Unsent
<1>5. [q \in Rank |-> pc[q] # "idle"]' = [[q \in Rank |-> pc[q] # "idle"] EXCEPT ![r] = FALSE]
  BY <1>1 DEF IInv, TypeOK
<1>6. QED
  BY <1>1, <1>2, <1>3, <1>4, <1>5 DEF Abstract!Return, Pending

(* Posting a message keeps it pending; all other steps are internal. *)
LEMMA IssendStutters ==
  ASSUME IInv, NEW r \in Rank, Issend(r)
  PROVE  Pending' = Pending
<1>1. /\ UNCHANGED <<call, sendBuf>>
      /\ net' = net \cup {CurrentMsg(r)}
      /\ next' = [next EXCEPT ![r] = @ + 1]
  BY DEF Issend, Advance
<1>2. \A q \in Rank \ {r} : Unsent(q)' = Unsent(q)
  BY <1>1 DEF Unsent, IInv, TypeOK
<1>3. Unsent(r) \subseteq Unsent(r)' \cup {CurrentMsg(r)}
  BY Posting
<1>4. Unsent(r)' \cup {CurrentMsg(r)} \subseteq Unsent(r)
  <2>1. /\ next[r] \in DOMAIN sendBuf[r]
        /\ sendBuf[r][next[r]].size > 0
    BY CurrentMsgIsMessage DEF Issend, Advance, IInv, NonEmpty
  <2>2. /\ next[r] \in Nat /\ Len(sendBuf[r]) \in Nat /\ next'[r] = next[r] + 1
        /\ DOMAIN sendBuf[r] = 1 .. Len(sendBuf[r])
    BY <1>1 DEF IInv, TypeOK
  <2>3. CurrentMsg(r) \in Unsent(r)
    BY <2>1, <2>2 DEF CurrentMsg, Unsent
  <2>4. next'[r] .. Len(sendBuf[r]) \subseteq next[r] .. Len(sendBuf[r])
    BY <2>2
  <2>5. Unsent(r)' \subseteq Unsent(r)
    BY <1>1, <2>4 DEF Unsent
  <2>6. QED
    BY <2>3, <2>5
<1>5. QED
  BY <1>1, <1>2, <1>3, <1>4 DEF Pending

LEMMA InternalRefines ==
  ASSUME IInv, NEW r \in Rank,
         \/ Issend(r) \/ SkipEmpty(r) \/ EndSends(r) \/ IprobeHit(r)
         \/ IprobeMiss(r) \/ CallbackDefers(r) \/ StartIbarrier(r)
         \/ LeaveLoop(r) \/ TestFails(r)
  PROVE  UNCHANGED Abstract!vars
<1>1. /\ UNCHANGED <<call, received>>
      /\ \A q \in Rank : pc'[q] = "idle" <=> pc[q] = "idle"
  BY
     DEF IInv, TypeOK, Goto, Issend, Advance, SkipEmpty, EndSends, IprobeHit,
         IprobeMiss,
         CallbackDefers, StartIbarrier, LeaveLoop, TestFails
<1>2. [q \in Rank |-> pc[q] # "idle"]' = [q \in Rank |-> pc[q] # "idle"]
  BY <1>1
<1>3. Pending' = Pending
  <2>1. CASE Issend(r)
    BY <2>1, IssendStutters
  <2>2. CASE SkipEmpty(r)
    <3>1. Unsent(r)' = Unsent(r)
      BY <2>2, Skipping DEF IInv
    <3>2. \A q \in Rank \ {r} : Unsent(q)' = Unsent(q)
      BY <2>2 DEF SkipEmpty, Advance, Unsent, IInv, TypeOK
    <3>3. QED
      BY <2>2, <3>1, <3>2 DEF SkipEmpty, Advance, Pending
  <2>3. CASE UNCHANGED <<call, sendBuf, next, net>>
    BY <2>3 DEF Pending, Unsent
  <2>4. QED
    BY <2>1, <2>2, <2>3 DEF EndSends, IprobeHit, IprobeMiss, CallbackDefers,
                            StartIbarrier, LeaveLoop, TestFails
<1>4. QED
  BY <1>1, <1>2, <1>3 DEF Abstract!vars, Pending

LEMMA StepRefines == IInv /\ [Next]_vars => [Abstract!Next]_(Abstract!vars)
<1> SUFFICES ASSUME IInv, [Next]_vars PROVE [Abstract!Next]_(Abstract!vars)
  OBVIOUS
<1>1. ASSUME NEW r \in Rank, NEW buf \in SendBufs, Call(r, buf)
      PROVE  Abstract!Next
  BY <1>1, CallRefines DEF Abstract!Next
<1>2. ASSUME NEW r \in Rank, CallbackReceives(r)
      PROVE  Abstract!Next
  BY <1>2, ReceiveRefines DEF Abstract!Next, Pending
<1>3. ASSUME NEW r \in Rank, Return(r)
      PROVE  Abstract!Next
  BY <1>3, ReturnRefines DEF Abstract!Next
<1>4. CASE UNCHANGED vars
  BY <1>4 DEF vars, Abstract!vars, Unsent
<1>5. QED
  BY <1>1, <1>2, <1>3, <1>4, InternalRefines DEF Next, RankStep

(* Every behaviour of alltoallv_sparse is one of the interface: messages   *)
(* are handed over exactly once, in their call, before the call returns.   *)
THEOREM SparseImplements == Spec => Implements
<1>1. Spec => []IInv
  BY Inductive
<1>2. QED
  BY <1>1, InitRefines, StepRefines, PTL DEF Spec, Implements, Abstract!Spec
=============================================================================

------------------------ MODULE DispatchAlltoall_proofs ------------------------
(***************************************************************************)
(* The collectives of alltoallv_dispatch match, for any number of ranks,   *)
(* calls, patterns and thresholds. What a rank does next is determined by  *)
(* what it has done on the original communicator so far, by the decision,  *)
(* which all ranks take alike, and by the program, which is the same: two  *)
(* ranks that have done the same so far go on alike.                       *)
(*                                                                         *)
(* And every call returns what an alltoallv returns, for any counts: from  *)
(* "Sums" on.  A sequence of envelopes carries a set of elements when each *)
(* of them is in it once, and those with the same ends in order; the hops  *)
(* keep that, and it is all that sorting by the source needs.              *)
(***************************************************************************)
EXTENDS DispatchAlltoall, TLAPS, FiniteSetTheorems, SequenceTheorems, WellFoundedInduction

Collective == {"allreduce", "split row", "split column", "alltoallv"}

Label == Collective \cup {"idle", "user row", "user column", "row", "col"}

(* The calls begun in the first n collectives of a trace, and whether the   *)
(* grid was made in them.                                                   *)
CallsIn(t, n) == {m \in 1 .. n : t[m] = "allreduce"}
MadeIn(t, n) == \E m \in 1 .. n : t[m] = "split column"

(* The calls that take the grid.                                            *)
GridCalls == {k \in Nat : UseGrid(0, k)}

(* After these n collectives a rank has nothing more to do in its call on   *)
(* the original communicator, when the calls in W take the grid.            *)
Rested(W, t, n) ==
  \/ n = 0
  \/ t[n] \in {"split column", "alltoallv"}
  \/ t[n] = "allreduce" /\ Cardinality(CallsIn(t, n)) \in W /\ MadeIn(t, n)

(* The one collective that may follow, if the grid is initialized before    *)
(* call i.                                                                  *)
Following(W, i, t, n) ==
  IF Rested(W, t, n)
  THEN IF Cardinality(CallsIn(t, n)) + 1 = i /\ ~MadeIn(t, n) THEN "split row" ELSE "allreduce"
  ELSE IF t[n] = "split row" THEN "split column"
  ELSE IF Cardinality(CallsIn(t, n)) \in W THEN "split row" ELSE "alltoallv"

TypeInv ==
  /\ p \in Nat \ {0}
  /\ trace \in [Rank -> Seq(Collective)]
  /\ pc \in [Rank -> Label]
  /\ calls \in [Rank -> Nat]
  /\ DOMAIN col = Rank /\ DOMAIN rowSent = Rank

(* A trace is what the rules make of it,                                    *)
Follows ==
  \A r \in Rank : \A n \in 0 .. Len(trace[r]) - 1 :
    trace[r][n + 1] = Following(GridCalls, initialize, trace[r], n)

(* and the state of a rank is what its trace says.                          *)
Reached(r) ==
  LET t == trace[r]  n == Len(trace[r]) IN
  /\ calls[r] = Cardinality(CallsIn(t, n))
  /\ pc[r] \in {"idle", "row", "col"} => Rested(GridCalls, t, n)
  /\ pc[r] \notin {"idle", "row", "col"} => n > 0 /\ t[n] = Kind(pc[r])
  /\ Initialized(r) <=> MadeIn(t, n) /\ pc[r] \notin {"split column", "user column"}
  /\ pc[r] \in {"split column", "user column", "row", "col"} => MadeIn(t, n)
  /\ pc[r] \in {"split row", "user row"} => ~MadeIn(t, n)
  /\ rowSent[r] # <<>> => Initialized(r)

(* Nobody has a grid before everybody is at the end of making it.           *)
MadeTogether == \A r, s \in Rank : Initialized(r) => MadeIn(trace[s], Len(trace[s]))

IInv ==
  /\ TypeInv
  /\ Follows
  /\ \A r \in Rank : Reached(r)
  /\ CollectivesMatch
  /\ MadeTogether

--------------------------------------------------------------------------------
(* Decisions                                                                *)

(* max_bottleneck_send_volume is a maximum over all ranks.                  *)
LEMMA DecisionShared ==
  \A r, s, k : UseGrid(r, k) <=> UseGrid(s, k)
BY DEF UseGrid, MaxBottleneckSendVolume

LEMMA DecisionStays ==
  ASSUME UNCHANGED <<p, pattern, threshold>>
  PROVE  GridCalls' = GridCalls
BY DEF GridCalls, UseGrid, MaxBottleneckSendVolume, Volume, Rank

(* The communicator of a column is one: a rank that has it is initialized.  *)
LEMMA ColCommNotEmpty ==
  ASSUME TypeInv, NEW r \in Rank
  PROVE  ColComm(p, r) # <<>>
<1> DEFINE S == {s \in 0 .. p - 1 : ColColor(p, s) = ColColor(p, r)}
<1>1. p \in Nat /\ r \in 0 .. p - 1
  BY DEF TypeInv, Rank
<1>2. IsFiniteSet(S) /\ r \in S
  <2>1. IsFiniteSet(0 .. p - 1)
    BY <1>1, FS_Interval
  <2> QED BY <1>1, <2>1, FS_Subset
<1>3. Cardinality(S) \in Nat /\ Cardinality(S) # 0
  BY <1>2, FS_CardinalityType, FS_EmptySet
<1>4. 1 \in DOMAIN ColComm(p, r)
  BY <1>3 DEF ColComm, Ascending
<1> QED BY <1>4

--------------------------------------------------------------------------------
(* Traces                                                                   *)

LEMMA SamePrefix ==
  ASSUME NEW W, NEW i, NEW t, NEW u, NEW n \in Nat, \A m \in 1 .. n : t[m] = u[m]
  PROVE  Following(W, i, t, n) = Following(W, i, u, n)
<1>1. CallsIn(t, n) = CallsIn(u, n) /\ (MadeIn(t, n) <=> MadeIn(u, n))
  BY DEF CallsIn, MadeIn
<1>2. n = 0 \/ t[n] = u[n]
  OBVIOUS
<1>3. Rested(W, t, n) <=> Rested(W, u, n)
  BY <1>1, <1>2 DEF Rested
<1> QED BY <1>1, <1>2, <1>3 DEF Following, Rested

LEMMA CallsInType ==
  ASSUME NEW t, NEW n \in Nat
  PROVE  IsFiniteSet(CallsIn(t, n)) /\ Cardinality(CallsIn(t, n)) \in Nat
<1>1. IsFiniteSet(1 .. n)
  BY FS_Interval
<1>2. CallsIn(t, n) \in SUBSET (1 .. n)
  BY DEF CallsIn
<1> QED BY <1>1, <1>2, FS_Subset, FS_CardinalityType

(* What one more collective adds.                                           *)
LEMMA OneMore ==
  ASSUME NEW t \in Seq(Collective), NEW x \in Collective
  PROVE  /\ Append(t, x) \in Seq(Collective)
         /\ Len(Append(t, x)) = Len(t) + 1
         /\ \A m \in 1 .. Len(t) : Append(t, x)[m] = t[m]
         /\ Append(t, x)[Len(t) + 1] = x
         /\ Cardinality(CallsIn(Append(t, x), Len(t) + 1)) =
              Cardinality(CallsIn(t, Len(t))) + (IF x = "allreduce" THEN 1 ELSE 0)
         /\ MadeIn(Append(t, x), Len(t) + 1) <=> x = "split column" \/ MadeIn(t, Len(t))
<1> DEFINE n == Len(t)
           u == Append(t, x)
<1>1. /\ n \in Nat
      /\ u \in Seq(Collective) /\ Len(u) = n + 1
      /\ \A m \in 1 .. n : u[m] = t[m]
      /\ u[n + 1] = x
  BY AppendProperties
<1>2. 1 .. (n + 1) = (1 .. n) \cup {n + 1}
  BY <1>1
<1>3. MadeIn(u, n + 1) <=> x = "split column" \/ MadeIn(t, n)
  BY <1>1, <1>2 DEF MadeIn
<1>4. IsFiniteSet(CallsIn(t, n)) /\ Cardinality(CallsIn(t, n)) \in Nat
  BY <1>1, CallsInType
<1>5. n + 1 \notin CallsIn(t, n)
  BY <1>1 DEF CallsIn
<1>6. CASE x = "allreduce"
  <2>1. CallsIn(u, n + 1) = CallsIn(t, n) \cup {n + 1}
    BY <1>1, <1>2, <1>6 DEF CallsIn
  <2> QED BY <1>1, <1>3, <1>4, <1>5, <1>6, <2>1, FS_AddElement
<1>7. CASE x # "allreduce"
  <2>1. CallsIn(u, n + 1) = CallsIn(t, n)
    BY <1>1, <1>2, <1>7 DEF CallsIn
  <2>2. Cardinality(CallsIn(u, n + 1)) = Cardinality(CallsIn(t, n)) + 0
    BY <1>4, <2>1
  <2> QED BY <1>1, <1>3, <1>7, <2>2
<1> QED BY <1>6, <1>7

--------------------------------------------------------------------------------
(* Steps                                                                    *)

(* What a step of another rank leaves alone.                                *)
Still(s) ==
  /\ pc'[s] = pc[s] /\ calls'[s] = calls[s] /\ trace'[s] = trace[s]
  /\ col'[s] = col[s] /\ rowSent'[s] = rowSent[s]

Fixed == <<p, pattern, threshold, initialize>>

LEMMA StillReached ==
  ASSUME NEW s \in Rank, Reached(s), Still(s), UNCHANGED Fixed
  PROVE  Reached(s)'
BY DecisionStays DEF Reached, Still, Fixed, Initialized

(* A step of a rank that enters no collective.                              *)
LEMMA StayInv ==
  ASSUME IInv, NEW r \in Rank, UNCHANGED Fixed, UNCHANGED trace,
         \A s \in Rank \ {r} : Still(s),
         TypeInv', Reached(r)',
         Initialized(r)' => Initialized(r) \/ \A s \in Rank : MadeIn(trace[s], Len(trace[s]))
  PROVE  IInv'
<1>1. Rank' = Rank /\ GridCalls' = GridCalls /\ initialize' = initialize
  BY DecisionStays DEF Fixed, Rank
<1>2. Follows' /\ CollectivesMatch'
  BY <1>1 DEF IInv, Follows, CollectivesMatch
<1>3. \A s \in Rank : Reached(s)'
  BY StillReached DEF IInv
<1>4. MadeTogether'
  BY <1>1 DEF IInv, MadeTogether, Initialized, Still
<1> QED BY <1>1, <1>2, <1>3, <1>4 DEF IInv

(* A step of a rank that enters the collective that has to follow: a rank   *)
(* that has been there before it has entered the same one, for up to there  *)
(* they have done the same.                                                 *)
LEMMA EnterInv ==
  ASSUME IInv, NEW r \in Rank, NEW x \in Collective, UNCHANGED Fixed,
         \A s \in Rank \ {r} : Still(s),
         trace' = [trace EXCEPT ![r] = Append(@, x)],
         x = Following(GridCalls, initialize, trace[r], Len(trace[r])),
         TypeInv', Reached(r)', Initialized(r)' => Initialized(r)
  PROVE  IInv'
<1> DEFINE t == trace[r]
           u == Append(t, x)
           n == Len(t)
<1>1. Rank' = Rank /\ GridCalls' = GridCalls /\ initialize' = initialize
  BY DecisionStays DEF Fixed, Rank
<1>2. t \in Seq(Collective) /\ n \in Nat /\ trace'[r] = u
  BY DEF IInv, TypeInv
<1>3. /\ u \in Seq(Collective) /\ Len(u) = n + 1
      /\ \A m \in 1 .. n : u[m] = t[m]
      /\ u[n + 1] = x
      /\ MadeIn(t, n) => MadeIn(u, n + 1)
  BY <1>2, OneMore
<1>4. \A s \in Rank \ {r} : trace'[s] = trace[s]
  BY DEF Still
<1>5. Follows'
  <2> SUFFICES ASSUME NEW s \in Rank, NEW m \in 0 .. Len(trace'[s]) - 1
               PROVE  trace'[s][m + 1] = Following(GridCalls, initialize, trace'[s], m)
    BY <1>1 DEF Follows
  <2>1. CASE s # r
    BY <1>4, <2>1 DEF IInv, Follows
  <2>2. CASE s = r
    <3>1. m \in 0 .. n /\ m \in Nat
      BY <1>2, <1>3, <2>2
    <3>2. Following(GridCalls, initialize, u, m) = Following(GridCalls, initialize, t, m)
      <4>1. \A q \in 1 .. m : t[q] = u[q]
        BY <1>2, <1>3, <3>1
      <4> QED BY <3>1, <4>1, SamePrefix
    <3>3. CASE m = n
      BY <1>2, <1>3, <2>2, <3>2, <3>3
    <3>4. CASE m \in 0 .. n - 1
      <4>1. u[m + 1] = t[m + 1]
        BY <1>2, <1>3, <3>4
      <4>2. t[m + 1] = Following(GridCalls, initialize, t, m)
        BY <3>4 DEF IInv, Follows
      <4> QED BY <1>2, <2>2, <3>2, <4>1, <4>2
    <3> QED BY <1>2, <3>1, <3>3, <3>4
  <2> QED BY <2>1, <2>2
<1>6. CollectivesMatch'
  <2>1. \A s \in Rank \ {r} : n + 1 \in DOMAIN trace[s] => trace[s][n + 1] = x
    <3> SUFFICES ASSUME NEW s \in Rank \ {r}, n + 1 \in DOMAIN trace[s]
                 PROVE  trace[s][n + 1] = x
      OBVIOUS
    <3>1. trace[s] \in Seq(Collective) /\ n + 1 <= Len(trace[s]) /\ Len(trace[s]) \in Nat
      BY <1>2 DEF IInv, TypeInv
    <3>2. \A m \in 1 .. n : trace[s][m] = t[m]
      BY <1>2, <3>1 DEF IInv, CollectivesMatch
    <3>3. Following(GridCalls, initialize, trace[s], n) = Following(GridCalls, initialize, t, n)
      BY <1>2, <3>2, SamePrefix
    <3>4. trace[s][n + 1] = Following(GridCalls, initialize, trace[s], n)
      BY <1>2, <3>1 DEF IInv, Follows
    <3> QED BY <3>3, <3>4
  <2>2. DOMAIN t = 1 .. n /\ DOMAIN u = 1 .. (n + 1)
    BY <1>2, <1>3
  <2>3. \A m \in DOMAIN u : m = n + 1 \/ (m \in DOMAIN t /\ u[m] = t[m])
    BY <1>2, <1>3, <2>2
  <2> QED BY <1>1, <1>2, <1>3, <1>4, <2>1, <2>2, <2>3 DEF IInv, CollectivesMatch
<1>7. \A s \in Rank : Reached(s)'
  BY StillReached DEF IInv
<1>8. MadeTogether'
  <2>1. \A s \in Rank : MadeIn(trace[s], Len(trace[s])) => MadeIn(trace'[s], Len(trace'[s]))
    BY <1>2, <1>3, <1>4
  <2>2. \A s \in Rank : Initialized(s)' => Initialized(s)
    BY DEF Initialized, Still
  <2> QED BY <1>1, <2>1, <2>2 DEF IInv, MadeTogether
<1> QED BY <1>1, <1>5, <1>6, <1>7, <1>8 DEF IInv

(* The steps that enter a collective of the original communicator.          *)
Entered == {"user row", "user column", "allreduce", "split row", "split column", "alltoallv"}

LEMMA EnteringInv ==
  ASSUME IInv, NEW r \in Rank, NEW to \in Entered, Enter(r, to),
         UNCHANGED <<p, pattern, threshold, initialize, col, rowSent>>,
         calls' = IF to = "allreduce" THEN [calls EXCEPT ![r] = @ + 1] ELSE calls,
         Initialized(r) <=> MadeIn(trace[r], Len(trace[r])),
         to = "allreduce" \/ to = "alltoallv" \/ ~Initialized(r),
         Kind(to) = Following(GridCalls, initialize, trace[r], Len(trace[r]))
  PROVE  IInv'
<1> DEFINE t == trace[r]
           n == Len(t)
           x == Kind(to)
           u == Append(t, x)
<1>1. x \in Collective /\ to \in Label /\ to \notin {"idle", "row", "col"}
  BY DEF Kind, Collective, Label, Entered
<1>2. /\ t \in Seq(Collective) /\ n \in Nat
      /\ trace' = [trace EXCEPT ![r] = u] /\ trace'[r] = u
      /\ pc' = [pc EXCEPT ![r] = to] /\ pc'[r] = to
  <2>1. /\ trace' = [trace EXCEPT ![r] = Append(@, Kind(to))]
        /\ pc' = [pc EXCEPT ![r] = to]
    BY DEF Enter
  <2>2. trace \in [Rank -> Seq(Collective)] /\ pc \in [Rank -> Label]
    BY DEF IInv, TypeInv
  <2> QED BY <2>1, <2>2
<1>3. /\ u \in Seq(Collective) /\ Len(u) = n + 1 /\ u[n + 1] = x
      /\ Cardinality(CallsIn(u, n + 1)) =
           Cardinality(CallsIn(t, n)) + (IF x = "allreduce" THEN 1 ELSE 0)
      /\ MadeIn(u, n + 1) <=> x = "split column" \/ MadeIn(t, n)
  BY <1>1, <1>2, OneMore
<1>4. calls' \in [Rank -> Nat] /\ calls'[r] = calls[r] + (IF x = "allreduce" THEN 1 ELSE 0)
  <2>0. calls \in [Rank -> Nat]
    BY DEF IInv, TypeInv
  <2>1. CASE to = "allreduce"
    <3>1. x = "allreduce" /\ calls' = [calls EXCEPT ![r] = @ + 1]
      BY <2>1 DEF Kind
    <3> QED BY <2>0, <3>1
  <2>2. CASE to # "allreduce"
    <3>1. x # "allreduce"
      BY <2>2 DEF Kind, Entered
    <3>2. calls' = calls /\ calls[r] = calls[r] + 0
      BY <2>0, <2>2
    <3> QED BY <2>0, <3>1, <3>2
  <2> QED BY <2>1, <2>2
<1>5. TypeInv'
  BY <1>1, <1>2, <1>3, <1>4 DEF IInv, TypeInv, Rank
<1>6. \A s \in Rank \ {r} : Still(s)
  BY <1>2, <1>4 DEF Still, IInv, TypeInv
<1>7. Initialized(r) <=> MadeIn(t, n)
  OBVIOUS
<1>8. Initialized(r)' <=> Initialized(r)
  BY DEF Initialized
<1>9. Reached(r)'
  <2>1. x = "split column" <=> to \in {"split column", "user column"}
    BY DEF Kind, Entered
  <2>2. calls[r] = Cardinality(CallsIn(t, n)) /\ (rowSent[r] # <<>> => Initialized(r))
    BY DEF IInv, Reached
  <2>3. /\ calls'[r] = Cardinality(CallsIn(trace'[r], Len(trace'[r])))
        /\ Len(trace'[r]) > 0 /\ trace'[r][Len(trace'[r])] = Kind(pc'[r])
    <3>1. pc'[r] = to /\ trace'[r] = u /\ Len(u) = n + 1
      BY <1>2, <1>3
    <3>2. n + 1 > 0
      BY <1>2
    <3> HIDE DEF u, x, n, t
    <3>3. calls'[r] = Cardinality(CallsIn(u, n + 1))
      BY <1>3, <1>4, <2>2
    <3> QED BY <1>3, <3>1, <3>2, <3>3 DEF x
  <2>4. /\ Initialized(r)' <=> MadeIn(trace'[r], Len(trace'[r]))
                                 /\ pc'[r] \notin {"split column", "user column"}
        /\ pc'[r] \in {"split column", "user column"} => MadeIn(trace'[r], Len(trace'[r]))
        /\ pc'[r] \in {"split row", "user row"} => ~MadeIn(trace'[r], Len(trace'[r]))
    BY <1>2, <1>3, <1>7, <1>8, <2>1
  <2>5. rowSent'[r] # <<>> => Initialized(r)'
    BY <1>8, <2>2
  <2> QED BY <1>1, <1>2, <2>3, <2>4, <2>5 DEF Reached, Kind
<1> QED BY <1>1, <1>2, <1>5, <1>6, <1>8, <1>9, EnterInv DEF Fixed

(* What a rank may be asked about its trace.                                *)
LEMMA RestedFollowing ==
  ASSUME NEW W, NEW i, NEW t, NEW n, Rested(W, t, n)
  PROVE  Following(W, i, t, n) =
           IF Cardinality(CallsIn(t, n)) + 1 = i /\ ~MadeIn(t, n)
           THEN "split row" ELSE "allreduce"
BY DEF Following

LEMMA UserInitializeInv ==
  ASSUME IInv, NEW r \in Rank, UserInitialize(r)
  PROVE  IInv'
<1>1. Kind("user row") = "split row"
  BY DEF Kind
<1>2. Following(GridCalls, initialize, trace[r], Len(trace[r])) = "split row"
  BY RestedFollowing DEF UserInitialize, IInv, Reached
<1>3. ~Initialized(r) /\ ~MadeIn(trace[r], Len(trace[r]))
  BY DEF UserInitialize, IInv, Reached
<1>4. /\ Enter(r, "user row") /\ UNCHANGED calls
      /\ UNCHANGED <<p, pattern, threshold, initialize, col, rowSent>>
  BY DEF UserInitialize, grid, program
<1>5. "user row" \in Entered
  BY DEF Entered
<1> QED BY <1>1, <1>2, <1>3, <1>4, <1>5, EnteringInv

LEMMA CallInv ==
  ASSUME IInv, NEW r \in Rank, Call(r)
  PROVE  IInv'
<1>1. Kind("allreduce") = "allreduce"
  BY DEF Kind
<1>2. Following(GridCalls, initialize, trace[r], Len(trace[r])) = "allreduce"
  BY RestedFollowing DEF Call, IInv, Reached
<1>3. Initialized(r) <=> MadeIn(trace[r], Len(trace[r]))
  BY DEF Call, IInv, Reached
<1>4. /\ Enter(r, "allreduce") /\ calls' = [calls EXCEPT ![r] = @ + 1]
      /\ UNCHANGED <<p, pattern, threshold, initialize, col, rowSent>>
  BY DEF Call, grid, program
<1>5. "allreduce" \in Entered
  BY DEF Entered
<1> QED BY <1>1, <1>2, <1>3, <1>4, <1>5, EnteringInv

LEMMA EndSplitRowInv ==
  ASSUME IInv, NEW r \in Rank, EndSplitRow(r)
  PROVE  IInv'
<1> DEFINE t == trace[r]
           n == Len(t)
           to == IF pc[r] = "split row" THEN "split column" ELSE "user column"
<1>1. Kind(to) = "split column" /\ to \in {"split column", "user column"}
  BY DEF Kind
<1>0. n # 0
  <2>1. n > 0
    BY DEF EndSplitRow, IInv, Reached
  <2> QED BY <2>1
<1>2. n # 0 /\ t[n] = "split row" /\ ~MadeIn(t, n)
  BY <1>0 DEF EndSplitRow, Kind, IInv, Reached
<1>3. ~Initialized(r)
  <2>1. Initialized(r) => MadeIn(t, n)
    BY DEF IInv, Reached
  <2> QED BY <1>2, <2>1
<1>4. Following(GridCalls, initialize, t, n) = "split column"
  <2>1. ~Rested(GridCalls, t, n)
    BY <1>2 DEF Rested
  <2> QED BY <1>2, <2>1 DEF Following
<1>5. /\ Enter(r, to) /\ UNCHANGED calls
      /\ UNCHANGED <<p, pattern, threshold, initialize, col, rowSent>>
  BY DEF EndSplitRow, program
<1>6. to \in Entered /\ to # "allreduce"
  BY <1>1 DEF Entered
<1> HIDE DEF to
<1> QED BY <1>1, <1>2, <1>3, <1>4, <1>5, <1>6, EnteringInv

(* The decision: a rank that has the grid goes on in its row.               *)
LEMMA EndAllreduceInv ==
  ASSUME IInv, NEW r \in Rank, EndAllreduce(r)
  PROVE  IInv'
<1> DEFINE t == trace[r]
           n == Len(t)
<1>1. /\ pc[r] = "allreduce" /\ n > 0 /\ t[n] = "allreduce"
      /\ calls[r] = Cardinality(CallsIn(t, n)) /\ calls[r] \in Nat
      /\ Initialized(r) <=> MadeIn(t, n)
      /\ rowSent[r] # <<>> => Initialized(r)
  BY DEF EndAllreduce, Kind, IInv, Reached, TypeInv
<1>2. UseGrid(r, calls[r]) <=> Cardinality(CallsIn(t, n)) \in GridCalls
  BY <1>1, DecisionShared DEF GridCalls
<1>3. n # 0
  BY <1>1
<1>4. UNCHANGED <<p, row, col, pattern, threshold, initialize, calls>>
  BY DEF EndAllreduce, grid, program
<1>5. CASE UseGrid(r, calls[r]) /\ Initialized(r) /\ Rowwise(r) /\ UNCHANGED trace
  <2>1. Rested(GridCalls, t, n)
    BY <1>1, <1>2, <1>5 DEF Rested
  <2>2. /\ pc' = [pc EXCEPT ![r] = "row"] /\ trace' = trace
        /\ \E e : rowSent' = [rowSent EXCEPT ![r] = e]
    BY <1>5 DEF Rowwise
  <2>3. TypeInv'
    BY <1>4, <2>2 DEF IInv, TypeInv, Label, Rank
  <2>4. \A s \in Rank \ {r} : Still(s)
    BY <1>4, <2>2 DEF IInv, TypeInv, Still
  <2>5. GridCalls' = GridCalls
    BY <1>4, DecisionStays
  <2>6. pc'[r] = "row" /\ trace'[r] = t /\ calls'[r] = calls[r] /\ col'[r] = col[r]
    BY <1>4, <2>2 DEF IInv, TypeInv
  <2>7. Reached(r)'
    BY <1>1, <1>5, <2>1, <2>5, <2>6 DEF Reached, Initialized
  <2> QED BY <1>4, <1>5, <2>2, <2>3, <2>4, <2>7, StayInv DEF Fixed
<1>6. CASE UseGrid(r, calls[r]) /\ ~Initialized(r) /\ Enter(r, "split row") /\ UNCHANGED rowSent
  <2>1. Kind("split row") = "split row" /\ "split row" \in Entered
    BY DEF Kind, Entered
  <2>2. ~Rested(GridCalls, t, n)
    BY <1>1, <1>3, <1>6 DEF Rested
  <2>3. Following(GridCalls, initialize, t, n) = "split row"
    BY <1>1, <1>2, <1>6, <2>2 DEF Following
  <2> QED BY <1>1, <1>4, <1>6, <2>1, <2>3, EnteringInv
<1>7. CASE ~UseGrid(r, calls[r]) /\ Enter(r, "alltoallv") /\ UNCHANGED rowSent
  <2>1. Kind("alltoallv") = "alltoallv" /\ "alltoallv" \in Entered
    BY DEF Kind, Entered
  <2>2. ~Rested(GridCalls, t, n)
    BY <1>1, <1>2, <1>3, <1>7 DEF Rested
  <2>3. Following(GridCalls, initialize, t, n) = "alltoallv"
    BY <1>1, <1>2, <1>7, <2>2 DEF Following
  <2> QED BY <1>1, <1>4, <1>7, <2>1, <2>3, EnteringInv
<1> QED BY <1>5, <1>6, <1>7 DEF EndAllreduce

(* When the grid is stored, all ranks have entered the split of the columns. *)
LEMMA EndSplitColumnInv ==
  ASSUME IInv, NEW r \in Rank, EndSplitColumn(r)
  PROVE  IInv'
<1> DEFINE t == trace[r]
           n == Len(t)
<1>1. /\ n > 0 /\ t[n] = "split column" /\ MadeIn(t, n)
      /\ calls[r] = Cardinality(CallsIn(t, n))
  BY DEF EndSplitColumn, Kind, IInv, Reached
<1>2. \A s \in Rank : MadeIn(trace[s], Len(trace[s]))
  <2> SUFFICES ASSUME NEW s \in Rank
               PROVE  MadeIn(trace[s], Len(trace[s]))
    OBVIOUS
  <2>0. n > 0
    BY <1>1
  <2>1. Len(trace[s]) >= n
    BY DEF EndSplitColumn, Complete
  <2>2. n \in Nat /\ Len(trace[s]) \in Nat
    BY DEF IInv, TypeInv
  <2>3. n \in 1 .. Len(trace[s])
    BY <2>0, <2>1, <2>2
  <2>4. trace[s][n] = t[n]
    BY DEF EndSplitColumn, Complete, Last
  <2> QED BY <1>1, <2>3, <2>4 DEF MadeIn
<1>3. /\ UNCHANGED <<p, pattern, threshold, initialize, calls, trace>>
      /\ col' = [col EXCEPT ![r] = ColComm(p, r)]
  BY DEF EndSplitColumn, program
<1>4. PICK to \in {"row", "idle"} : pc' = [pc EXCEPT ![r] = to]
  BY DEF EndSplitColumn, Rowwise
<1>5. rowSent' = rowSent \/ \E e : rowSent' = [rowSent EXCEPT ![r] = e]
  BY DEF EndSplitColumn, Rowwise
<1>6. TypeInv'
  BY <1>3, <1>4, <1>5 DEF IInv, TypeInv, Label, Rank
<1>7. \A s \in Rank \ {r} : Still(s)
  BY <1>3, <1>4, <1>5 DEF IInv, TypeInv, Still
<1>8. /\ pc'[r] \in {"row", "idle"} /\ trace'[r] = t /\ calls'[r] = calls[r]
      /\ col'[r] = ColComm(p, r)
  BY <1>3, <1>4 DEF IInv, TypeInv
<1>9. Initialized(r)'
  BY <1>8, ColCommNotEmpty DEF IInv, Initialized
<1>10. Rested(GridCalls, t, n)' /\ GridCalls' = GridCalls
  BY <1>1, <1>3, DecisionStays DEF Rested
<1>11. Reached(r)'
  BY <1>1, <1>8, <1>9, <1>10 DEF Reached
<1> QED BY <1>2, <1>3, <1>6, <1>7, <1>11, StayInv DEF Fixed

(* The steps that finish an exchange.                                       *)
LEMMA ExchangeInv ==
  ASSUME IInv, NEW r \in Rank, EndAlltoallv(r) \/ Exchange(r)
  PROVE  IInv'
<1> DEFINE t == trace[r]
           n == Len(t)
<1>1. /\ UNCHANGED <<p, col, pattern, threshold, initialize, calls, trace, rowSent>>
      /\ \E to \in {"col", "idle"} : pc' = [pc EXCEPT ![r] = to]
  BY DEF EndAlltoallv, Exchange, EndRowwise, EndColumnwise, grid, program
<1>2. PICK to \in {"col", "idle"} : pc' = [pc EXCEPT ![r] = to]
  BY <1>1
<1>3. pc[r] = "alltoallv" \/ pc[r] = "row" \/ pc[r] = "col"
  BY DEF EndAlltoallv, Exchange, EndRowwise, EndColumnwise
<1>4. /\ Rested(GridCalls, t, n)
      /\ to = "col" => MadeIn(t, n)
  <2>1. CASE EndAlltoallv(r)
    <3>1. t[n] = "alltoallv"
      BY <2>1 DEF EndAlltoallv, Kind, IInv, Reached
    <3>2. pc' = [pc EXCEPT ![r] = "idle"]
      BY <2>1 DEF EndAlltoallv
    <3>3. to = "idle"
      BY <1>2, <3>2 DEF IInv, TypeInv
    <3> QED BY <3>1, <3>3 DEF Rested
  <2>2. CASE Exchange(r)
    <3>1. pc[r] = "row" \/ pc[r] = "col"
      BY <2>2 DEF Exchange, EndRowwise, EndColumnwise
    <3> QED BY <3>1 DEF IInv, Reached
  <2> QED BY <2>1, <2>2
<1>5. TypeInv'
  BY <1>1, <1>2 DEF IInv, TypeInv, Label, Rank
<1>6. \A s \in Rank \ {r} : Still(s)
  BY <1>1, <1>2 DEF IInv, TypeInv, Still
<1>7. /\ pc'[r] = to /\ trace'[r] = t /\ calls'[r] = calls[r] /\ col'[r] = col[r]
      /\ rowSent'[r] = rowSent[r] /\ GridCalls' = GridCalls
  BY <1>1, <1>2, DecisionStays DEF IInv, TypeInv
<1>8. /\ calls[r] = Cardinality(CallsIn(t, n))
      /\ Initialized(r) <=> MadeIn(t, n)
      /\ rowSent[r] # <<>> => Initialized(r)
  BY <1>3 DEF IInv, Reached
<1>9. Reached(r)'
  BY <1>4, <1>7, <1>8 DEF Reached, Initialized
<1> QED BY <1>1, <1>5, <1>6, <1>9, StayInv DEF Fixed, Initialized

LEMMA InitIInv == Init => IInv
<1> SUFFICES ASSUME Init
             PROVE  IInv
  OBVIOUS
<1>1. /\ p \in Nat \ {0}
      /\ \A r \in Rank : /\ pc[r] = "idle" /\ calls[r] = 0
                         /\ col[r] = <<>> /\ rowSent[r] = <<>> /\ trace[r] = <<>>
      /\ DOMAIN col = Rank /\ DOMAIN rowSent = Rank
      /\ pc = [r \in Rank |-> "idle"] /\ calls = [r \in Rank |-> 0]
      /\ trace = [r \in Rank |-> <<>>]
  BY SizesAssumption DEF Init
<1>2. TypeInv
  BY <1>1 DEF TypeInv, Label
<1>3. Follows /\ CollectivesMatch /\ MadeTogether
  BY <1>1 DEF Follows, CollectivesMatch, MadeTogether, Initialized
<1>4. ASSUME NEW r \in Rank
      PROVE  Reached(r)
  <2>1. CallsIn(<<>>, 0) = {} /\ ~MadeIn(<<>>, 0) /\ Len(<<>>) = 0
    BY DEF CallsIn, MadeIn
  <2>2. Cardinality(CallsIn(<<>>, 0)) = 0
    BY <2>1, FS_EmptySet
  <2> QED BY <1>1, <2>1, <2>2 DEF Reached, Rested, Initialized
<1> QED BY <1>2, <1>3, <1>4 DEF IInv

LEMMA NextIInv == IInv /\ [Next]_vars => IInv'
<1> SUFFICES ASSUME IInv, [Next]_vars
             PROVE  IInv'
  OBVIOUS
<1>1. ASSUME NEW r \in Rank, RankStep(r)
      PROVE  IInv'
  BY <1>1, UserInitializeInv, CallInv, EndAllreduceInv, EndSplitRowInv, EndSplitColumnInv,
     ExchangeInv
     DEF RankStep
<1>2. CASE UNCHANGED vars
  <2>1. GridCalls' = GridCalls /\ Rank' = Rank
    BY <1>2, DecisionStays DEF vars, grid, program, Rank
  <2>2. TypeInv' /\ Follows' /\ CollectivesMatch' /\ MadeTogether'
    BY <1>2, <2>1
       DEF vars, grid, program, IInv, TypeInv, Follows, CollectivesMatch, MadeTogether, Initialized
  <2>3. ASSUME NEW r \in Rank
        PROVE  Reached(r)'
    BY <1>2, StillReached DEF vars, grid, program, Still, Fixed, IInv
  <2> QED BY <2>1, <2>2, <2>3 DEF IInv
<1> QED BY <1>1, <1>2 DEF Next

LEMMA IInvHolds == Spec => []IInv
BY InitIInv, NextIInv, PTL DEF Spec

--------------------------------------------------------------------------------
(* What follows from the rules.                                             *)

(* The collective of a trace at a place, and a trace that keeps the rules.   *)
At(t, k, x) == t[k] = x
ByRules(W, i, t) == \A n \in 0 .. Len(t) - 1 : t[n + 1] = Following(W, i, t, n)

LEMMA RuleAt ==
  ASSUME NEW t \in Seq(Collective), NEW W, NEW i, ByRules(W, i, t), NEW k \in 1 .. Len(t), NEW x
  PROVE  At(t, k, x) <=> Following(W, i, t, k - 1) = x
<1>1. k - 1 \in 0 .. Len(t) - 1 /\ (k - 1) + 1 = k
  OBVIOUS
<1>2. t[(k - 1) + 1] = Following(W, i, t, k - 1)
  BY <1>1 DEF ByRules
<1> QED BY <1>1, <1>2 DEF At

(* What precedes a second split, and what follows a first one.              *)
LEMMA SplitsFollow ==
  ASSUME NEW t, NEW W, NEW i, NEW n
  PROVE  /\ Following(W, i, t, n) = "split column" => n # 0 /\ At(t, n, "split row")
         /\ n # 0 /\ At(t, n, "split row") => Following(W, i, t, n) = "split column"
         /\ MadeIn(t, n) /\ t[n] \in Collective => Following(W, i, t, n) # "split row"
<1>1. Rested(W, t, n) => Following(W, i, t, n) \in {"split row", "allreduce"}
  BY DEF Following
<1>2. Following(W, i, t, n) = "split column" => ~Rested(W, t, n)
  BY <1>1
<1>3. Following(W, i, t, n) = "split column" => n # 0
  BY <1>2 DEF Rested
<1>4. Following(W, i, t, n) = "split column" => At(t, n, "split row")
  BY <1>2 DEF Following, At
<1>5. n # 0 /\ At(t, n, "split row") => ~Rested(W, t, n)
  BY DEF Rested, At
<1>6. n # 0 /\ At(t, n, "split row") => Following(W, i, t, n) = "split column"
  BY <1>5 DEF Following, At
<1>7. Rested(W, t, n) /\ MadeIn(t, n) => Following(W, i, t, n) # "split row"
  BY DEF Following
<1>8. ~Rested(W, t, n) /\ MadeIn(t, n) /\ t[n] \in Collective
        => t[n] = "split row" \/ Cardinality(CallsIn(t, n)) \notin W
  BY DEF Rested, Collective
<1>9. ~Rested(W, t, n) /\ MadeIn(t, n) /\ t[n] \in Collective
        => Following(W, i, t, n) # "split row"
  BY <1>8 DEF Following
<1> QED BY <1>3, <1>4, <1>6, <1>7, <1>9

LEMMA MadeAfter ==
  ASSUME NEW t, NEW n, NEW k \in 1 .. n, At(t, k, "split column")
  PROVE  MadeIn(t, n)
BY DEF MadeIn, At

(* The first split is followed by the second, and not by another first one. *)
LEMMA RowOnce ==
  ASSUME NEW t \in Seq(Collective), NEW W, NEW i, ByRules(W, i, t),
         NEW k \in 1 .. Len(t), NEW m \in 1 .. Len(t), k < m
  PROVE  ~(At(t, k, "split row") /\ At(t, m, "split row"))
<1>1. Len(t) \in Nat
  OBVIOUS
<1>2. k # 0 /\ k + 1 \in 1 .. Len(t) /\ (k + 1) - 1 = k
  BY <1>1
<1>3. At(t, k, "split row") => At(t, k + 1, "split column")
  <2>1. At(t, k + 1, "split column") <=> Following(W, i, t, (k + 1) - 1) = "split column"
    BY <1>2, RuleAt
  <2> QED BY <1>2, <2>1, SplitsFollow
<1>4. CASE k + 1 = m
  BY <1>3, <1>4 DEF At
<1>5. CASE k + 1 # m
  <2>1. k + 1 \in 1 .. m - 1 /\ m - 1 \in 1 .. Len(t)
    BY <1>1, <1>5
  <2>2. t[m - 1] \in Collective
    BY <2>1
  <2>3. At(t, k + 1, "split column") => MadeIn(t, m - 1)
    BY <2>1, MadeAfter
  <2>4. MadeIn(t, m - 1) => Following(W, i, t, m - 1) # "split row"
    BY <2>2, SplitsFollow
  <2>5. At(t, m, "split row") <=> Following(W, i, t, m - 1) = "split row"
    BY RuleAt
  <2> QED BY <1>3, <2>3, <2>4, <2>5
<1> QED BY <1>4, <1>5

(* The second split follows a first one.                                    *)
LEMMA ColumnFollowsRow ==
  ASSUME NEW t \in Seq(Collective), NEW W, NEW i, ByRules(W, i, t),
         NEW k \in 1 .. Len(t)
  PROVE  At(t, k, "split column") => k - 1 \in 1 .. Len(t) /\ At(t, k - 1, "split row")
<1>1. Len(t) \in Nat
  OBVIOUS
<1>2. At(t, k, "split column") <=> Following(W, i, t, k - 1) = "split column"
  BY RuleAt
<1>3. At(t, k, "split column") => k - 1 # 0 /\ At(t, k - 1, "split row")
  BY <1>2, SplitsFollow
<1>4. CASE k - 1 = 0
  BY <1>3, <1>4
<1>5. CASE k - 1 # 0
  <2>1. k - 1 \in 1 .. Len(t)
    BY <1>1, <1>5
  <2> QED BY <1>3, <2>1
<1> QED BY <1>4, <1>5

LEMMA AtMostOne ==
  ASSUME NEW S, \A x, y \in S : x = y
  PROVE  Cardinality(S) <= 1
<1>1. CASE S = {}
  BY <1>1, FS_EmptySet
<1>2. CASE S # {}
  <2>1. PICK x \in S : S = {x}
    BY <1>2
  <2> QED BY <2>1, FS_Singleton
<1> QED BY <1>1, <1>2

LEMMA IInvGridMadeOnce == IInv => GridMadeOnce
<1> SUFFICES ASSUME IInv, NEW r \in Rank
             PROVE  /\ Cardinality({k \in DOMAIN trace[r] : trace[r][k] = "split row"}) <= 1
                    /\ Cardinality({k \in DOMAIN trace[r] : trace[r][k] = "split column"}) <= 1
                    /\ rowSent[r] # <<>> =>
                         \A s \in Rank : Contains(trace[s], "split column")
  BY DEF GridMadeOnce
<1>1. PICK t \in Seq(Collective) : t = trace[r]
  BY DEF IInv, TypeInv
<1>2. ByRules(GridCalls, initialize, t)
  BY <1>1 DEF IInv, Follows, ByRules
<1>3. DOMAIN t = 1 .. Len(t) /\ Len(t) \in Nat
  OBVIOUS
<1>4. ASSUME NEW k \in 1 .. Len(t), NEW m \in 1 .. Len(t),
             At(t, k, "split row"), At(t, m, "split row")
      PROVE  k = m
  <2>1. ~(k < m) /\ ~(m < k)
    BY <1>2, <1>4, RowOnce
  <2> QED BY <1>3, <2>1
<1>5. ASSUME NEW k \in 1 .. Len(t), NEW m \in 1 .. Len(t),
             At(t, k, "split column"), At(t, m, "split column")
      PROVE  k = m
  <2>1. /\ k - 1 \in 1 .. Len(t) /\ At(t, k - 1, "split row")
        /\ m - 1 \in 1 .. Len(t) /\ At(t, m - 1, "split row")
    BY <1>2, <1>5, ColumnFollowsRow
  <2>2. k - 1 = m - 1
    BY <2>1, <1>4
  <2> QED BY <1>3, <2>2
<1>6. Cardinality({k \in DOMAIN t : t[k] = "split row"}) <= 1
  <2>1. \A k, m \in {k \in DOMAIN t : t[k] = "split row"} : k = m
    BY <1>3, <1>4 DEF At
  <2> QED BY <2>1, AtMostOne
<1>7. Cardinality({k \in DOMAIN t : t[k] = "split column"}) <= 1
  <2>1. \A k, m \in {k \in DOMAIN t : t[k] = "split column"} : k = m
    BY <1>3, <1>5 DEF At
  <2> QED BY <2>1, AtMostOne
<1>8. rowSent[r] # <<>> => \A s \in Rank : Contains(trace[s], "split column")
  BY ZenonT(60) DEF IInv, Reached, MadeTogether, MadeIn, Contains
<1> QED BY <1>1, <1>6, <1>7, <1>8

(* The ranks decide alone what to do, from what an allreduce told them, and *)
(* yet no rank enters a collective where another enters a different one     *)
(* (plugin/alltoall_dispatch.hpp).                                          *)
THEOREM DispatchCollectivesMatch == Spec => []CollectivesMatch
<1>1. IInv => CollectivesMatch
  BY DEF IInv
<1> QED BY IInvHolds, <1>1, PTL

(* Calls and initialize() together make the grid communicator at most once, *)
(* and a rank sends over it only to ranks that have entered its making too  *)
(* (plugin/alltoall_dispatch.hpp, plugin/alltoall_grid.hpp).                *)
THEOREM DispatchGridMadeOnce == Spec => []GridMadeOnce
BY IInvHolds, IInvGridMadeOnce, PTL

--------------------------------------------------------------------------------
(* Sums                                                                       *)

(* Induction, from the least number that a set of naturals leaves out.      *)
LEMMA Induction ==
  ASSUME NEW S, 0 \in S, \A n \in Nat : n \in S => n + 1 \in S
  PROVE  Nat \subseteq S
<1> SUFFICES ASSUME ~(Nat \subseteq S)
             PROVE  FALSE
  OBVIOUS
<1> DEFINE T    == Nat \ S
           Less == OpToRel(<, Nat)
<1>1. T # {} /\ T \subseteq Nat
  OBVIOUS
<1>2. IsWellFoundedOn(Less, Nat)
  BY NatLessThanWellFounded
<1>3. \E x \in T : \A y \in T : <<y, x>> \notin Less
  <2> HIDE DEF T, Less
  <2> QED BY <1>1, <1>2, WFMin
<1>4. PICK x \in T : \A y \in T : <<y, x>> \notin Less
  BY <1>3
<1>5. \A y \in T : ~(y < x)
  BY <1>1, <1>4 DEF OpToRel
<1>6. x # 0 /\ x \in Nat
  OBVIOUS
<1>7. x - 1 \in Nat /\ x - 1 \notin T
  BY <1>5, <1>6
<1> QED BY <1>6, <1>7

Sum(f, S) == MapThenSumSet(LAMBDA j : f[j], S)

Pick1(s) == CHOOSE x \in s : TRUE

(* The function by which the sum is defined, on some sets of indices.       *)
Sums(f, D, g) == g = [s \in D |-> IF s = {} THEN 0 ELSE f[Pick1(s)] + g[s \ {Pick1(s)}]]

SumFcn(f, S) == CHOOSE g : Sums(f, SUBSET S, g)

(* The sum of the model is the one of that recursion.                         *)
LEMMA SumIs == \A f, S : Sum(f, S) = SumFcn(f, S)[S]
BY DEF Sum, Sums, SumFcn, Pick1, MapThenSumSet, MapThenFoldSet

Smaller(S, n) == {s \in SUBSET S : Cardinality(s) <= n}

(* A finite set without one of its members.                                   *)
LEMMA Without ==
  ASSUME NEW S, IsFiniteSet(S), NEW x \in S
  PROVE  /\ IsFiniteSet(S \ {x}) /\ Cardinality(S \ {x}) = Cardinality(S) - 1
         /\ Cardinality(S) \in Nat \ {0} /\ Cardinality(S \ {x}) \in Nat
<1>1. Cardinality(S \ {x}) = Cardinality(S) - 1 /\ IsFiniteSet(S \ {x})
  BY FS_RemoveElement
<1>2. Cardinality(S) \in Nat /\ Cardinality(S \ {x}) \in Nat
  BY <1>1, FS_CardinalityType
<1> QED BY <1>1, <1>2

(* A member is picked.                                                        *)
LEMMA PickIn == ASSUME NEW s, s # {} PROVE Pick1(s) \in s
BY DEF Pick1

(* Sums over sets of one member more.                                         *)
LEMMA SumsStep ==
  ASSUME NEW f, NEW S, IsFiniteSet(S), NEW n \in Nat, \E g : Sums(f, Smaller(S, n), g)
  PROVE  \E g : Sums(f, Smaller(S, n + 1), g)
<1>1. PICK g : Sums(f, Smaller(S, n), g)
  OBVIOUS
<1> DEFINE h == [s \in Smaller(S, n + 1) |-> IF s = {} THEN 0 ELSE f[Pick1(s)] + g[s \ {Pick1(s)}]]
<1>2. Smaller(S, n) \subseteq Smaller(S, n + 1)
  <2>1. \A s \in SUBSET S : Cardinality(s) \in Nat
    BY FS_Subset, FS_CardinalityType
  <2> QED BY <2>1 DEF Smaller
<1>3. \A u \in Smaller(S, n) : h[u] = g[u]
  BY <1>1, <1>2 DEF Sums
<1>4. \A s \in Smaller(S, n + 1) : s # {} => s \ {Pick1(s)} \in Smaller(S, n)
  <2> SUFFICES ASSUME NEW s \in Smaller(S, n + 1), s # {}
               PROVE  s \ {Pick1(s)} \in Smaller(S, n)
    OBVIOUS
  <2>1. s \in SUBSET S /\ Cardinality(s) <= n + 1
    BY DEF Smaller
  <2>2. Pick1(s) \in s
    BY PickIn
  <2>3. Cardinality(s \ {Pick1(s)}) = Cardinality(s) - 1 /\ Cardinality(s) \in Nat
    BY <2>1, <2>2, FS_Subset, Without
  <2> QED BY <2>1, <2>3 DEF Smaller
<1>5. Sums(f, Smaller(S, n + 1), h)
  BY <1>3, <1>4 DEF Sums
<1> QED BY <1>5

(* The recursion over the subsets of a finite set has a solution,             *)
LEMMA SumsExist ==
  ASSUME NEW f, NEW S, IsFiniteSet(S)
  PROVE  \E g : Sums(f, SUBSET S, g)
<1> DEFINE N == {n \in Nat : \E g : Sums(f, Smaller(S, n), g)}
<1>1. 0 \in N
  <2>1. Smaller(S, 0) = {{}}
    <3>1. \A s \in SUBSET S : Cardinality(s) <= 0 <=> s = {}
      BY FS_Subset, FS_CardinalityType, FS_EmptySet
    <3> QED BY <3>1 DEF Smaller
  <2>2. Sums(f, Smaller(S, 0), [s \in Smaller(S, 0) |-> 0])
    BY <2>1 DEF Sums
  <2> QED BY <2>2
<1>2. \A n \in Nat : n \in N => n + 1 \in N
  BY SumsStep
<1>3. Nat \subseteq N
  <2> HIDE DEF N
  <2> QED BY <1>1, <1>2, Induction
<1>4. Cardinality(S) \in N
  BY <1>3, FS_CardinalityType
<1>5. Smaller(S, Cardinality(S)) = SUBSET S
  BY FS_Subset DEF Smaller
<1> QED BY <1>4, <1>5

(* Two such functions agree where both are defined.                         *)
LEMMA SumsUnique ==
  ASSUME NEW f, NEW S, IsFiniteSet(S), NEW T \in SUBSET S,
         NEW g, NEW h, Sums(f, SUBSET S, g), Sums(f, SUBSET T, h)
  PROVE  \A s \in SUBSET T : g[s] = h[s]
<1> DEFINE N == {n \in Nat : \A s \in SUBSET T : Cardinality(s) = n => g[s] = h[s]}
<1>1. \A s \in SUBSET T : IsFiniteSet(s) /\ Cardinality(s) \in Nat
  BY FS_Subset, FS_CardinalityType
<1>2. 0 \in N
  <2>1. \A s \in SUBSET T : Cardinality(s) = 0 => s = {}
    BY <1>1, FS_EmptySet
  <2>2. g[{}] = 0 /\ h[{}] = 0
    BY DEF Sums
  <2> QED BY <2>1, <2>2
<1>3. ASSUME NEW n \in Nat, n \in N
      PROVE  n + 1 \in N
  <2> SUFFICES ASSUME NEW s \in SUBSET T, Cardinality(s) = n + 1
               PROVE  g[s] = h[s]
    OBVIOUS
  <2>1. s # {}
    BY FS_EmptySet
  <2>2. Pick1(s) \in s
    BY <2>1, PickIn
  <2>3. Cardinality(s \ {Pick1(s)}) = n /\ s \ {Pick1(s)} \in SUBSET T
    BY <1>1, <2>2, Without
  <2>4. g[s \ {Pick1(s)}] = h[s \ {Pick1(s)}]
    BY <1>3, <2>3
  <2>5. s \in SUBSET S
    OBVIOUS
  <2>6. g[s] = f[Pick1(s)] + g[s \ {Pick1(s)}]
    BY <2>1, <2>5 DEF Sums
  <2>7. h[s] = f[Pick1(s)] + h[s \ {Pick1(s)}]
    BY <2>1 DEF Sums
  <2> QED BY <2>4, <2>6, <2>7
<1>4. Nat \subseteq N
  <2> HIDE DEF N
  <2> QED BY <1>2, <1>3, Induction
<1> QED BY <1>1, <1>4

(* The sum without the picked member.                                         *)
LEMMA SumRecursion ==
  ASSUME NEW f, NEW S, IsFiniteSet(S)
  PROVE  Sum(f, S) = IF S = {} THEN 0 ELSE f[Pick1(S)] + Sum(f, S \ {Pick1(S)})
<1>1. ASSUME NEW T \in SUBSET S
      PROVE  Sums(f, SUBSET T, SumFcn(f, T))
  <2>1. \E g : Sums(f, SUBSET T, g)
    BY FS_Subset, SumsExist
  <2> QED BY <2>1 DEF SumFcn
<1>2. Sums(f, SUBSET S, SumFcn(f, S))
  BY <1>1
<1>3. CASE S = {}
  <2>1. SumFcn(f, S)[S] = 0
    BY <1>2, <1>3 DEF Sums
  <2> QED BY <1>3, <2>1, SumIs
<1>4. CASE S # {}
  <2> DEFINE T == S \ {Pick1(S)}
             e == Pick1(S)
  <2>1. SumFcn(f, S)[S] = f[e] + SumFcn(f, S)[T]
    <3>1. S \in SUBSET S
      OBVIOUS
    <3> HIDE DEF e
    <3> QED BY <1>2, <1>4, <3>1 DEF Sums, e
  <2>2. SumFcn(f, S)[T] = SumFcn(f, T)[T]
    <3>1. Sums(f, SUBSET T, SumFcn(f, T)) /\ T \in SUBSET S /\ T \in SUBSET T
      BY <1>1
    <3> DEFINE g == SumFcn(f, S)
               h == SumFcn(f, T)
    <3>2. Sums(f, SUBSET S, g) /\ Sums(f, SUBSET T, h)
      BY <1>2, <3>1
    <3> HIDE DEF T, g, h
    <3>3. \A s \in SUBSET T : g[s] = h[s]
      BY <3>1, <3>2, SumsUnique, SMTT(60)
    <3>4. g[T] = h[T]
      BY <3>1, <3>3
    <3> QED BY <3>4 DEF g, h
  <2> QED BY <1>4, <2>1, <2>2, SumIs
<1> QED BY <1>3, <1>4

(* Numbers add up to a number.                                                *)
LEMMA SumType ==
  ASSUME NEW f, NEW S, IsFiniteSet(S), \A x \in S : f[x] \in Nat
  PROVE  Sum(f, S) \in Nat
<1> DEFINE N == {n \in Nat : \A T \in SUBSET S : Cardinality(T) = n => Sum(f, T) \in Nat}
<1>1. \A T \in SUBSET S : IsFiniteSet(T) /\ Cardinality(T) \in Nat
  BY FS_Subset, FS_CardinalityType
<1>2. 0 \in N
  <2>1. \A T \in SUBSET S : Cardinality(T) = 0 => T = {}
    BY <1>1, FS_EmptySet
  <2>2. Sum(f, {}) = 0
    BY SumRecursion, FS_EmptySet
  <2> QED BY <2>1, <2>2
<1>3. ASSUME NEW n \in Nat, n \in N
      PROVE  n + 1 \in N
  <2> SUFFICES ASSUME NEW T \in SUBSET S, Cardinality(T) = n + 1
               PROVE  Sum(f, T) \in Nat
    OBVIOUS
  <2> DEFINE e == Pick1(T)
  <2>1. T # {} /\ e \in T
    BY FS_EmptySet, PickIn
  <2>2. Sum(f, T) = f[e] + Sum(f, T \ {e})
    BY <1>1, <2>1, SumRecursion
  <2> HIDE DEF e
  <2>3. Cardinality(T \ {e}) = n /\ T \ {e} \in SUBSET S
    BY <1>1, <2>1, Without
  <2>4. Sum(f, T \ {e}) \in Nat /\ f[e] \in Nat
    BY <1>3, <2>1, <2>3
  <2> QED BY <2>2, <2>4
<1>4. Nat \subseteq N
  <2> HIDE DEF N
  <2> QED BY <1>2, <1>3, Induction
<1> QED BY <1>1, <1>4

(* A sum of natural numbers does not depend on the order of its terms.      *)
LEMMA SumWithout ==
  ASSUME NEW f, NEW S, IsFiniteSet(S), \A x \in S : f[x] \in Nat, NEW w \in S
  PROVE  Sum(f, S) = f[w] + Sum(f, S \ {w})
<1> DEFINE N == {n \in Nat : \A T \in SUBSET S : Cardinality(T) = n =>
                   \A x \in T : Sum(f, T) = f[x] + Sum(f, T \ {x})}
<1>1. \A T \in SUBSET S : IsFiniteSet(T) /\ Cardinality(T) \in Nat /\ Sum(f, T) \in Nat
  BY FS_Subset, FS_CardinalityType, SumType
<1>2. 0 \in N
  BY <1>1, FS_EmptySet
<1>3. ASSUME NEW n \in Nat, n \in N
      PROVE  n + 1 \in N
  <2> SUFFICES ASSUME NEW T \in SUBSET S, Cardinality(T) = n + 1, NEW x \in T
               PROVE  Sum(f, T) = f[x] + Sum(f, T \ {x})
    OBVIOUS
  <2> DEFINE e == Pick1(T)
  <2>1. e \in T
    BY PickIn
  <2>2. Sum(f, T) = f[e] + Sum(f, T \ {e})
    BY <1>1, SumRecursion
  <2> HIDE DEF e
  <2>3. CASE x = e
    BY <2>2, <2>3
  <2>4. CASE x # e
    <3>1. \A z \in T : Cardinality(T \ {z}) = n /\ T \ {z} \in SUBSET S
      BY <1>1, Without
    <3>2. (T \ {e}) \ {x} = (T \ {x}) \ {e}
      OBVIOUS
    <3>3. Sum(f, T \ {e}) = f[x] + Sum(f, (T \ {e}) \ {x})
      BY <1>3, <2>1, <2>4, <3>1
    <3>4. Sum(f, T \ {x}) = f[e] + Sum(f, (T \ {e}) \ {x})
      BY <1>3, <2>1, <2>4, <3>1, <3>2
    <3>5. f[x] \in Nat /\ f[e] \in Nat /\ (T \ {e}) \ {x} \in SUBSET S
      BY <2>1
    <3>6. Sum(f, (T \ {e}) \ {x}) \in Nat
      BY <1>1, <3>5
    <3> QED BY <2>2, <3>3, <3>4, <3>5, <3>6
  <2> QED BY <2>3, <2>4
<1>4. Nat \subseteq N
  <2> HIDE DEF N
  <2> QED BY <1>2, <1>3, Induction
<1> QED BY <1>1, <1>4

(* Nothing to add.                                                            *)
LEMMA SumEmpty == \A f : Sum(f, {}) = 0
BY SumRecursion, FS_EmptySet

(* Sums of the ranks below one, and above one.                              *)
LEMMA SumBelow ==
  ASSUME NEW f, NEW n \in Nat, \A x \in 0 .. n - 1 : f[x] \in Nat
  PROVE  /\ Sum(f, 0 .. -1) = 0
         /\ \A m \in 0 .. n : Sum(f, 0 .. m - 1) \in Nat
         /\ \A m \in 0 .. n - 1 : Sum(f, 0 .. m) = Sum(f, 0 .. m - 1) + f[m]
<1>1. 0 .. -1 = {}
  OBVIOUS
<1>2. \A m \in 0 .. n : IsFiniteSet(0 .. m - 1) /\ \A x \in 0 .. m - 1 : f[x] \in Nat
  BY FS_Interval
<1>3. \A m \in 0 .. n : Sum(f, 0 .. m - 1) \in Nat
  BY <1>2, SumType
<1>4. ASSUME NEW m \in 0 .. n - 1
      PROVE  Sum(f, 0 .. m) = Sum(f, 0 .. m - 1) + f[m]
  <2>1. (0 .. m) \ {m} = 0 .. m - 1 /\ m \in 0 .. m
    OBVIOUS
  <2>2. IsFiniteSet(0 .. m) /\ \A x \in 0 .. m : f[x] \in Nat
    BY FS_Interval
  <2>3. Sum(f, 0 .. m) = f[m] + Sum(f, (0 .. m) \ {m})
    <3> DEFINE A == 0 .. m
    <3>1. IsFiniteSet(A) /\ m \in A /\ \A x \in A : f[x] \in Nat
      BY <2>1, <2>2
    <3> HIDE DEF A
    <3>2. Sum(f, A) = f[m] + Sum(f, A \ {m})
      BY <3>1, SumWithout
    <3> QED BY <3>2 DEF A
  <2>4. Sum(f, 0 .. m) = f[m] + Sum(f, 0 .. m - 1)
    BY <2>1, <2>3, Zenon
  <2>5. f[m] \in Nat /\ Sum(f, 0 .. m - 1) \in Nat
    BY <1>3
  <2> QED BY <2>4, <2>5
<1> QED BY <1>1, <1>3, <1>4, SumEmpty

--------------------------------------------------------------------------------
(* Sequences one behind the other                                             *)

(* The scan adds up what is below.                                          *)
LEMMA ScanIs == \A f : ExclusiveScan(f) = [i \in DOMAIN f |-> Sum(f, {j \in DOMAIN f : j < i})]
BY DEF ExclusiveScan, Sum

(* One count after the other: what exclusive_scan makes of them.              *)
LEMMA ScanNext ==
  ASSUME NEW n \in Nat, NEW f, DOMAIN f = 0 .. n - 1, \A x \in 0 .. n - 1 : f[x] \in Nat
  PROVE  /\ \A i \in 0 .. n - 1 : ExclusiveScan(f)[i] \in Nat
         /\ 0 < n => ExclusiveScan(f)[0] = 0
         /\ \A i \in 0 .. n - 1 : i + 1 < n => ExclusiveScan(f)[i + 1] = ExclusiveScan(f)[i] + f[i]
<1>1. \A i \in 0 .. n - 1 : ExclusiveScan(f)[i] = Sum(f, 0 .. i - 1)
  <2> SUFFICES ASSUME NEW i \in 0 .. n - 1
               PROVE  ExclusiveScan(f)[i] = Sum(f, 0 .. i - 1)
    OBVIOUS
  <2>1. ExclusiveScan(f)[i] = Sum(f, {j \in DOMAIN f : j < i})
    BY ScanIs
  <2>2. {j \in DOMAIN f : j < i} = 0 .. i - 1
    OBVIOUS
  <2> QED BY <2>1, <2>2
<1>2. /\ Sum(f, 0 .. -1) = 0
      /\ \A m \in 0 .. n : Sum(f, 0 .. m - 1) \in Nat
      /\ \A m \in 0 .. n - 1 : Sum(f, 0 .. m) = Sum(f, 0 .. m - 1) + f[m]
  BY SumBelow
<1>3. ASSUME NEW i \in 0 .. n - 1, i + 1 < n
      PROVE  ExclusiveScan(f)[i + 1] = ExclusiveScan(f)[i] + f[i]
  <2>1. i + 1 \in 0 .. n - 1 /\ (i + 1) - 1 = i
    BY <1>3
  <2>2. ExclusiveScan(f)[i + 1] = Sum(f, 0 .. i)
    BY <1>1, <2>1
  <2> QED BY <1>1, <1>2, <2>2
<1>4. 0 < n => ExclusiveScan(f)[0] = 0
  BY <1>1, <1>2
<1>5. \A i \in 0 .. n - 1 : ExclusiveScan(f)[i] \in Nat
  BY <1>1, <1>2
<1> QED BY <1>3, <1>4, <1>5

(* Concatenations                                                           *)

Catted(f, g) == g = [i \in Nat |-> IF i = 0 THEN <<>> ELSE g[i - 1] \o f[i]]

CattedTo(f, n, g) == g = [i \in 0 .. n |-> IF i = 0 THEN <<>> ELSE g[i - 1] \o f[i]]

CatFcn(f) == CHOOSE g : Catted(f, g)

(* The recursion that Concat chooses.                                         *)
LEMMA ConcatIs == \A f : Concat(f) = CatFcn(f)[Len(f)]
BY DEF Concat, CatFcn, Catted

(* Some function concatenates the first n sequences.                        *)
LEMMA CattedExists ==
  ASSUME NEW f
  PROVE  \A n \in Nat : \E g : CattedTo(f, n, g)
<1> DEFINE N == {n \in Nat : \E g : CattedTo(f, n, g)}
<1>1. 0 \in N
  <2>1. CattedTo(f, 0, [i \in 0 .. 0 |-> <<>>])
    BY DEF CattedTo
  <2> QED BY <2>1
<1>2. ASSUME NEW n \in Nat, n \in N
      PROVE  n + 1 \in N
  <2>1. PICK g : CattedTo(f, n, g)
    BY <1>2
  <2> DEFINE h == [i \in 0 .. n + 1 |-> IF i = 0 THEN <<>> ELSE g[i - 1] \o f[i]]
  <2>2. \A i \in 0 .. n : h[i] = g[i]
    <3>1. \A i \in 0 .. n : g[i] = IF i = 0 THEN <<>> ELSE g[i - 1] \o f[i]
      BY <2>1, Zenon DEF CattedTo
    <3>2. \A i \in 0 .. n : i \in 0 .. n + 1
      OBVIOUS
    <3>3. \A i \in 0 .. n + 1 : h[i] = IF i = 0 THEN <<>> ELSE g[i - 1] \o f[i]
      BY Zenon
    <3> HIDE DEF h
    <3> QED BY <3>1, <3>2, <3>3, Zenon
  <2>3. \A i \in 0 .. n + 1 : i # 0 => i - 1 \in 0 .. n
    OBVIOUS
  <2>4. CattedTo(f, n + 1, h)
    BY <2>2, <2>3 DEF CattedTo
  <2> QED BY <2>4
<1>3. Nat \subseteq N
  <2> HIDE DEF N
  <2> QED BY <1>1, <1>2, Induction
<1> QED BY <1>3

(* Two such functions agree where both are defined.                         *)
LEMMA CattedUnique ==
  ASSUME NEW f, NEW n \in Nat, NEW m \in Nat, NEW g, NEW h, CattedTo(f, n, g), CattedTo(f, m, h)
  PROVE  \A i \in Nat : i <= n /\ i <= m => g[i] = h[i]
<1> DEFINE N == {i \in Nat : i <= n /\ i <= m => g[i] = h[i]}
<1>1. /\ \A i \in 0 .. n : g[i] = IF i = 0 THEN <<>> ELSE g[i - 1] \o f[i]
      /\ \A i \in 0 .. m : h[i] = IF i = 0 THEN <<>> ELSE h[i - 1] \o f[i]
  BY Zenon DEF CattedTo
<1>2. 0 \in N
  BY <1>1
<1>3. ASSUME NEW i \in Nat, i \in N
      PROVE  i + 1 \in N
  <2> SUFFICES ASSUME i + 1 <= n, i + 1 <= m
               PROVE  g[i + 1] = h[i + 1]
    OBVIOUS
  <2>1. g[i] = h[i]
    BY <1>3
  <2>2. i + 1 \in 0 .. n /\ i + 1 \in 0 .. m /\ i + 1 # 0 /\ (i + 1) - 1 = i
    OBVIOUS
  <2> QED BY <1>1, <2>1, <2>2
<1>4. Nat \subseteq N
  <2> HIDE DEF N
  <2> QED BY <1>2, <1>3, Induction
<1> QED BY <1>4

(* Each concatenation is the one before and the next sequence.              *)
LEMMA CatRecursion ==
  ASSUME NEW f
  PROVE  /\ CatFcn(f)[0] = <<>>
         /\ \A n \in Nat : CatFcn(f)[n + 1] = CatFcn(f)[n] \o f[n + 1]
<1> DEFINE c(n) == CHOOSE g : CattedTo(f, n, g)
           G == [n \in Nat |-> c(n)[n]]
<1>1. \A n \in Nat : CattedTo(f, n, c(n))
  BY CattedExists
<1> HIDE DEF c
<1>2. ASSUME NEW n \in Nat
      PROVE  G[n] = IF n = 0 THEN <<>> ELSE G[n - 1] \o f[n]
  <2>1. \A i \in 0 .. n : c(n)[i] = IF i = 0 THEN <<>> ELSE c(n)[i - 1] \o f[i]
    BY <1>1, Zenon DEF CattedTo
  <2>2. c(n)[n] = IF n = 0 THEN <<>> ELSE c(n)[n - 1] \o f[n]
    BY <2>1
  <2>3. CASE n = 0
    BY <2>2, <2>3
  <2>4. CASE n # 0
    <3> DEFINE m == n - 1
    <3>1. m \in Nat /\ m <= n /\ m <= m
      BY <2>4
    <3> HIDE DEF m
    <3>2. c(n)[m] = c(m)[m]
      BY <1>1, <3>1, CattedUnique
    <3>3. G[m] = c(m)[m]
      BY <3>1
    <3> QED BY <2>2, <2>4, <3>2, <3>3 DEF m
  <2> QED BY <2>3, <2>4
<1>3. Catted(f, G)
  <2>1. G = [n \in Nat |-> IF n = 0 THEN <<>> ELSE G[n - 1] \o f[n]]
    <3>1. DOMAIN G = Nat /\ G = [n \in Nat |-> G[n]]
      OBVIOUS
    <3> HIDE DEF G
    <3> QED BY <1>2, <3>1
  <2> HIDE DEF G
  <2> QED BY <2>1 DEF Catted
<1>4. Catted(f, CatFcn(f))
  BY <1>3 DEF CatFcn
<1>5. \A n \in Nat : CatFcn(f)[n] = IF n = 0 THEN <<>> ELSE CatFcn(f)[n - 1] \o f[n]
  BY <1>4, Zenon DEF Catted
<1>6. \A n \in Nat : n + 1 \in Nat /\ n + 1 # 0 /\ (n + 1) - 1 = n
  OBVIOUS
<1> QED BY <1>5, <1>6

(* The parts of a concatenation and where they begin.                       *)
Parts(t, f, n, off) ==
  /\ off \in [0 .. n -> Nat] /\ off[0] = 0 /\ off[n] = Len(t)
  /\ \A i \in 1 .. n : off[i] = off[i - 1] + Len(f[i])
  /\ \A i \in 1 .. n : \A j \in 1 .. Len(f[i]) : t[off[i - 1] + j] = f[i][j]

(* The concatenation of the first m sequences, and what is where in it.     *)
Catenates(C, V, f, m) ==
  /\ C[m] \in Seq(V)
  /\ \A i \in 1 .. m :
       /\ C[i - 1] \in Seq(V) /\ Len(C[i]) = Len(C[i - 1]) + Len(f[i]) /\ Len(C[i]) <= Len(C[m])
       /\ \A j \in 1 .. Len(f[i]) : C[m][Len(C[i - 1]) + j] = f[i][j]

(* Concat puts every sequence where those before it end.                      *)
LEMMA ConcatParts ==
  ASSUME NEW n \in Nat, NEW V, NEW f \in [1 .. n -> Seq(V)]
  PROVE  Concat(f) \in Seq(V) /\ \E off : Parts(Concat(f), f, n, off)
<1> DEFINE C == CatFcn(f)
<1>1. C[0] = <<>> /\ \A m \in Nat : C[m + 1] = C[m] \o f[m + 1]
  BY CatRecursion
<1> HIDE DEF C
<1> DEFINE N == {m \in Nat : m <= n => Catenates(C, V, f, m)}
<1>2. 0 \in N
  <2>1. C[0] \in Seq(V)
    BY <1>1
  <2>2. Catenates(C, V, f, 0)
    BY <2>1 DEF Catenates
  <2> QED BY <2>2
<1>3. ASSUME NEW m \in Nat, m \in N
      PROVE  m + 1 \in N
  <2> SUFFICES ASSUME m + 1 <= n
               PROVE  Catenates(C, V, f, m + 1)
    OBVIOUS
  <2>0. Catenates(C, V, f, m)
    BY <1>3
  <2> DEFINE t == C[m]
             u == f[m + 1]
             v == C[m + 1]
  <2>1. t \in Seq(V) /\ u \in Seq(V) /\ v = t \o u
    <3>1. t \in Seq(V)
      BY <2>0 DEF Catenates
    <3>2. u \in Seq(V)
      <4>1. m + 1 \in 1 .. n
        OBVIOUS
      <4> QED BY <4>1
    <3>3. v = t \o u
      BY <1>1
    <3> QED BY <3>1, <3>2, <3>3
  <2>2. \A i \in 1 .. m :
          /\ C[i - 1] \in Seq(V) /\ Len(C[i]) = Len(C[i - 1]) + Len(f[i]) /\ Len(C[i]) <= Len(t)
          /\ \A j \in 1 .. Len(f[i]) : t[Len(C[i - 1]) + j] = f[i][j]
    BY <2>0 DEF Catenates
  <2>3. \A i \in 1 .. m : f[i] \in Seq(V)
    OBVIOUS
  <2> HIDE DEF t, u, v
  <2>4. /\ v \in Seq(V) /\ Len(v) = Len(t) + Len(u) /\ Len(t) \in Nat /\ Len(u) \in Nat
        /\ \A i \in 1 .. Len(t) + Len(u) : v[i] = IF i <= Len(t) THEN t[i] ELSE u[i - Len(t)]
    BY <2>1, ConcatProperties
  <2>41. Len(v) = Len(t) + Len(u) /\ Len(t) \in Nat /\ Len(u) \in Nat
    BY <2>4
  <2>5. ASSUME NEW i \in 1 .. m
        PROVE  /\ C[i - 1] \in Seq(V) /\ Len(C[i]) = Len(C[i - 1]) + Len(f[i]) /\ Len(C[i]) <= Len(v)
               /\ \A j \in 1 .. Len(f[i]) : v[Len(C[i - 1]) + j] = f[i][j]
    <3>1. /\ C[i - 1] \in Seq(V) /\ Len(C[i]) = Len(C[i - 1]) + Len(f[i]) /\ Len(C[i]) <= Len(t)
          /\ \A j \in 1 .. Len(f[i]) : t[Len(C[i - 1]) + j] = f[i][j]
      BY <2>2
    <3>2. Len(C[i - 1]) \in Nat /\ Len(f[i]) \in Nat
      BY <2>3, <3>1
    <3>21. Len(C[i]) = Len(C[i - 1]) + Len(f[i]) /\ Len(C[i]) <= Len(t)
      BY <3>1
    <3> DEFINE a == Len(C[i - 1])
               b == Len(f[i])
               c == Len(C[i])
               k == Len(t)
               l == Len(u)
               z == Len(v)
    <3>22. /\ a \in Nat /\ b \in Nat /\ k \in Nat /\ l \in Nat
           /\ c = a + b /\ c <= k /\ z = k + l
      BY <2>41, <3>2, <3>21
    <3> HIDE DEF a, b, c, k, l, z
    <3>23. c <= z /\ \A j \in 1 .. b : a + j \in 1 .. k + l /\ a + j <= k
      BY <3>22
    <3>3. Len(C[i]) <= Len(v)
      BY <3>23 DEF c, z
    <3>4. ASSUME NEW j \in 1 .. Len(f[i])
          PROVE  v[Len(C[i - 1]) + j] = f[i][j]
      <4> DEFINE x == Len(C[i - 1]) + j
      <4>1. x \in 1 .. Len(t) + Len(u) /\ x <= Len(t)
        BY <3>23 DEF a, b, k, l
      <4>2. t[x] = f[i][j]
        BY <3>1
      <4> HIDE DEF x
      <4>3. v[x] = t[x]
        BY <2>4, <4>1
      <4> QED BY <4>2, <4>3 DEF x
    <3> QED BY <3>1, <3>3, <3>4
  <2>6. \A j \in 1 .. Len(u) : v[Len(t) + j] = u[j]
    <3> SUFFICES ASSUME NEW j \in 1 .. Len(u)
                 PROVE  v[Len(t) + j] = u[j]
      OBVIOUS
    <3> DEFINE x == Len(t) + j
    <3>1. x \in 1 .. Len(t) + Len(u) /\ ~(x <= Len(t)) /\ x - Len(t) = j
      BY <2>4
    <3> HIDE DEF x
    <3>2. v[x] = u[j]
      BY <2>4, <3>1
    <3> QED BY <3>2 DEF x
  <2>7. ASSUME NEW i \in 1 .. m + 1
        PROVE  /\ C[i - 1] \in Seq(V) /\ Len(C[i]) = Len(C[i - 1]) + Len(f[i]) /\ Len(C[i]) <= Len(v)
               /\ \A j \in 1 .. Len(f[i]) : v[Len(C[i - 1]) + j] = f[i][j]
    <3>1. CASE i \in 1 .. m
      BY <2>5, <3>1
    <3>3. i \in 1 .. m \/ i = m + 1
      OBVIOUS
    <3>2. CASE i = m + 1
      <4>1. C[i - 1] = t /\ C[i] = v /\ f[i] = u
        BY <3>2 DEF t, u, v
      <4> QED BY <2>1, <2>4, <2>6, <4>1
    <3> QED BY <3>1, <3>2, <3>3
  <2>8. C[m + 1] = v
    BY DEF v
  <2> QED BY <2>4, <2>7, <2>8 DEF Catenates
<1>4. Nat \subseteq N
  <2> HIDE DEF N
  <2> QED BY <1>2, <1>3, Induction
<1>5. Catenates(C, V, f, n)
  BY <1>4
<1>6. Len(f) = n
  OBVIOUS
<1>7. Concat(f) = C[n]
  BY <1>6, ConcatIs DEF C
<1> DEFINE off == [i \in 0 .. n |-> Len(C[i])]
<1>8. \A i \in 0 .. n : Len(C[i]) \in Nat
  <2> SUFFICES ASSUME NEW i \in 0 .. n
               PROVE  C[i] \in Seq(V)
    OBVIOUS
  <2>1. CASE i = n
    BY <1>5, <2>1 DEF Catenates
  <2>2. CASE i # n
    <3>1. i + 1 \in 1 .. n /\ (i + 1) - 1 = i
      BY <2>2
    <3> QED BY <1>5, <3>1 DEF Catenates
  <2> QED BY <2>1, <2>2
<1>9. Len(C[0]) = 0
  BY <1>1
<1>10. \A i \in 1 .. n : i - 1 \in 0 .. n /\ i \in 0 .. n
  OBVIOUS
<1>11. Parts(C[n], f, n, off)
  <2>1. off \in [0 .. n -> Nat] /\ off[0] = 0 /\ off[n] = Len(C[n])
    BY <1>8, <1>9
  <2>2. \A i \in 1 .. n : off[i] = Len(C[i]) /\ off[i - 1] = Len(C[i - 1])
    BY <1>10
  <2> HIDE DEF off
  <2> QED BY <1>5, <2>1, <2>2 DEF Parts, Catenates
<1>12. Concat(f) \in Seq(V)
  BY <1>5, <1>7 DEF Catenates
<1> QED BY <1>7, <1>11, <1>12

(* The parts cover the concatenation, and do not overlap.                   *)
LEMMA PartsCover ==
  ASSUME NEW n \in Nat, NEW t, NEW f, NEW off, Parts(t, f, n, off), \A i \in 1 .. n : Len(f[i]) \in Nat
  PROVE  /\ \A q \in 1 .. Len(t) : \E i \in 1 .. n : \E j \in 1 .. Len(f[i]) : q = off[i - 1] + j
         /\ \A i, k \in 1 .. n : i < k => off[i - 1] + Len(f[i]) <= off[k - 1]
         /\ \A i \in 1 .. n : \A j \in 1 .. Len(f[i]) : off[i - 1] + j \in 1 .. Len(t)
         /\ Len(t) \in Nat
<1>1. \A m \in 0 .. n : off[m] \in Nat
  BY DEF Parts
<1>2. \A i \in 0 .. n - 1 : off[i + 1] = off[i] + Len(f[i + 1]) /\ Len(f[i + 1]) \in Nat
  <2> SUFFICES ASSUME NEW i \in 0 .. n - 1
               PROVE  off[i + 1] = off[i] + Len(f[i + 1]) /\ Len(f[i + 1]) \in Nat
    OBVIOUS
  <2>1. i + 1 \in 1 .. n /\ (i + 1) - 1 = i
    OBVIOUS
  <2> QED BY <2>1 DEF Parts
<1>3. \A q \in 1 .. Len(t) : \E i \in 1 .. n : \E j \in 1 .. Len(f[i]) : q = off[i - 1] + j
  <2> DEFINE N == {m \in Nat : m <= n => \A q \in 1 .. off[m] :
                     \E i \in 1 .. n : \E j \in 1 .. Len(f[i]) : q = off[i - 1] + j}
  <2>1. 0 \in N
    BY DEF Parts
  <2>2. ASSUME NEW m \in Nat, m \in N
        PROVE  m + 1 \in N
    <3> SUFFICES ASSUME m + 1 <= n, NEW q \in 1 .. off[m + 1]
                 PROVE  \E i \in 1 .. n : \E j \in 1 .. Len(f[i]) : q = off[i - 1] + j
      OBVIOUS
    <3>1. off[m + 1] = off[m] + Len(f[m + 1]) /\ Len(f[m + 1]) \in Nat /\ off[m] \in Nat
      BY <1>1, <1>2
    <3>2. CASE q <= off[m]
      BY <2>2, <3>1, <3>2
    <3>3. CASE ~(q <= off[m])
      <4>1. q - off[m] \in 1 .. Len(f[m + 1]) /\ q = off[m] + (q - off[m])
        BY <3>1, <3>3
      <4>2. m + 1 \in 1 .. n /\ (m + 1) - 1 = m
        OBVIOUS
      <4> QED BY <4>1, <4>2
    <3> QED BY <3>2, <3>3
  <2>3. Nat \subseteq N
    <3> HIDE DEF N
    <3> QED BY <2>1, <2>2, Induction
  <2>4. n \in N
    BY <2>3
  <2> QED BY <2>4 DEF Parts
<1>4. \A i \in 0 .. n : \A k \in Nat : i + k <= n => off[i] <= off[i + k]
  <2> SUFFICES ASSUME NEW i \in 0 .. n
               PROVE  \A k \in Nat : i + k <= n => off[i] <= off[i + k]
    OBVIOUS
  <2> DEFINE N == {k \in Nat : i + k <= n => off[i] <= off[i + k]}
  <2>1. 0 \in N
    BY <1>1
  <2>2. ASSUME NEW k \in Nat, k \in N
        PROVE  k + 1 \in N
    <3> SUFFICES ASSUME i + (k + 1) <= n
                 PROVE  off[i] <= off[i + (k + 1)]
      OBVIOUS
    <3> DEFINE x == i + k
    <3>1. x \in 0 .. n - 1 /\ x \in 0 .. n /\ i + (k + 1) = x + 1
      OBVIOUS
    <3>2. off[i] <= off[x]
      BY <2>2, <3>1
    <3> HIDE DEF x
    <3>3. off[x + 1] = off[x] + Len(f[x + 1]) /\ Len(f[x + 1]) \in Nat /\ off[x] \in Nat /\ off[i] \in Nat
      BY <1>1, <1>2, <3>1
    <3>4. off[i] <= off[x + 1]
      BY <3>2, <3>3
    <3> QED BY <3>1, <3>4
  <2>3. Nat \subseteq N
    <3> HIDE DEF N
    <3> QED BY <2>1, <2>2, Induction
  <2> QED BY <2>3
<1>5. \A i, k \in 0 .. n : i <= k => off[i] <= off[k]
  <2> SUFFICES ASSUME NEW i \in 0 .. n, NEW k \in 0 .. n, i <= k
               PROVE  off[i] <= off[k]
    OBVIOUS
  <2> DEFINE d == k - i
  <2>1. d \in Nat /\ i + d = k /\ k <= n
    OBVIOUS
  <2> HIDE DEF d
  <2> QED BY <1>4, <2>1
<1>6. \A i \in 1 .. n : off[i] = off[i - 1] + Len(f[i]) /\ i - 1 \in 0 .. n /\ i \in 0 .. n
  BY DEF Parts
<1>7. ASSUME NEW i \in 1 .. n, NEW k \in 1 .. n, i < k
      PROVE  off[i - 1] + Len(f[i]) <= off[k - 1]
  <2>1. i \in 0 .. n /\ k - 1 \in 0 .. n /\ i <= k - 1
    BY <1>7
  <2>2. off[i] <= off[k - 1]
    BY <1>5, <2>1
  <2> QED BY <1>6, <2>2
<1>8. ASSUME NEW i \in 1 .. n, NEW j \in 1 .. Len(f[i])
      PROVE  off[i - 1] + j \in 1 .. Len(t)
  <2>1. off[i] <= off[n] /\ off[n] = Len(t)
    BY <1>5, <1>6 DEF Parts
  <2>2. off[i - 1] \in Nat /\ off[i] = off[i - 1] + Len(f[i]) /\ Len(f[i]) \in Nat /\ off[n] \in Nat
    BY <1>1, <1>6
  <2> QED BY <2>1, <2>2
<1>9. Len(t) \in Nat
  BY <1>1 DEF Parts
<1> QED BY <1>3, <1>7, <1>8, <1>9

--------------------------------------------------------------------------------
(* Elements in envelopes                                                      *)

(* An element of a call is known by the call, its two ends and its number.  *)
Word == Nat \X Nat \X Nat \X Nat

RowEntry == {[payload |-> w, source |-> w[2], destination |-> w[3]] : w \in Word}
ColEntry == {[payload |-> w, source |-> w[2]] : w \in Word}

(* A sequence of entries has each of these elements once, and those with    *)
(* the same ends in order.                                                  *)
Sooner(v, w) == v[2] = w[2] /\ v[3] = w[3] /\ v[4] < w[4]

Carries(e, W) ==
  /\ \A i \in 1 .. Len(e) : e[i].payload \in W
  /\ \A w \in W : \E i \in 1 .. Len(e) : e[i].payload = w
  /\ \A i, j \in 1 .. Len(e) : e[i].payload = e[j].payload => i = j
  /\ \A i, j \in 1 .. Len(e) : Sooner(e[i].payload, e[j].payload) => i < j

(* No element of one set has the ends of an element of the other.           *)
Apart(A, B) == \A v \in A, w \in B : v[2] # w[2] \/ v[3] # w[3]

Together(W, S) == UNION {W[s] : s \in S}

(* Sequences of elements with different ends carry them all, one behind       *)
(* the other.                                                                 *)
LEMMA ConcatCarries ==
  ASSUME NEW n \in Nat, NEW V, NEW f \in [1 .. n -> Seq(V)], NEW W,
         \A i \in 1 .. n : Carries(f[i], W[i]),
         \A i, k \in 1 .. n : i # k => Apart(W[i], W[k])
  PROVE  Concat(f) \in Seq(V) /\ Carries(Concat(f), Together(W, 1 .. n))
<1> DEFINE t == Concat(f)
           X == UNION {W[i] : i \in 1 .. n}
<1>1. t \in Seq(V) /\ \E off : Parts(t, f, n, off)
  BY ConcatParts
<1>2. PICK off : Parts(t, f, n, off)
  BY <1>1
<1>3. \A i \in 1 .. n : f[i] \in Seq(V) /\ Len(f[i]) \in Nat
  OBVIOUS
<1> HIDE DEF t
<1>4. /\ \A q \in 1 .. Len(t) : \E i \in 1 .. n : \E j \in 1 .. Len(f[i]) : q = off[i - 1] + j
      /\ \A i, k \in 1 .. n : i < k => off[i - 1] + Len(f[i]) <= off[k - 1]
      /\ \A i \in 1 .. n : \A j \in 1 .. Len(f[i]) : off[i - 1] + j \in 1 .. Len(t)
      /\ Len(t) \in Nat
  BY <1>2, <1>3, PartsCover
<1>5. \A i \in 1 .. n : off[i - 1] \in Nat
  <2>1. \A i \in 1 .. n : i - 1 \in 0 .. n
    OBVIOUS
  <2> QED BY <1>2, <2>1 DEF Parts
<1>6. \A i \in 1 .. n : \A j \in 1 .. Len(f[i]) : t[off[i - 1] + j] = f[i][j]
  BY <1>2 DEF Parts
<1>7. \A i \in 1 .. n : \A j \in 1 .. Len(f[i]) : f[i][j].payload \in W[i]
  BY DEF Carries
<1>8. \A q \in 1 .. Len(t) : t[q].payload \in X
  <2> SUFFICES ASSUME NEW q \in 1 .. Len(t)
               PROVE  t[q].payload \in X
    OBVIOUS
  <2>1. PICK i \in 1 .. n : \E j \in 1 .. Len(f[i]) : q = off[i - 1] + j
    BY <1>4
  <2>11. PICK j \in 1 .. Len(f[i]) : q = off[i - 1] + j
    BY <2>1
  <2> QED BY <1>6, <1>7, <2>11
<1>9. ASSUME NEW w \in X
      PROVE  \E q \in 1 .. Len(t) : t[q].payload = w
  <2>1. PICK i \in 1 .. n : w \in W[i]
    OBVIOUS
  <2>2. PICK j \in 1 .. Len(f[i]) : f[i][j].payload = w
    BY <2>1 DEF Carries
  <2> QED BY <1>4, <1>6, <2>2
<1>10. ASSUME NEW i \in 1 .. n, NEW j \in 1 .. Len(f[i]), NEW k \in 1 .. n, NEW l \in 1 .. Len(f[k]),
              \/ f[i][j].payload = f[k][l].payload
              \/ Sooner(f[i][j].payload, f[k][l].payload)
       PROVE  i = k
  <2> DEFINE v == f[i][j].payload
             w == f[k][l].payload
  <2>1. v \in W[i] /\ w \in W[k] /\ v[2] = w[2] /\ v[3] = w[3]
    BY <1>7, <1>10 DEF Sooner
  <2> HIDE DEF v, w
  <2> QED BY <2>1 DEF Apart
<1>11. ASSUME NEW q \in 1 .. Len(t), NEW z \in 1 .. Len(t), t[q].payload = t[z].payload
       PROVE  q = z
  <2>1. PICK i \in 1 .. n : \E j \in 1 .. Len(f[i]) : q = off[i - 1] + j
    BY <1>4
  <2>11. PICK j \in 1 .. Len(f[i]) : q = off[i - 1] + j
    BY <2>1
  <2>2. PICK k \in 1 .. n : \E l \in 1 .. Len(f[k]) : z = off[k - 1] + l
    BY <1>4
  <2>21. PICK l \in 1 .. Len(f[k]) : z = off[k - 1] + l
    BY <2>2
  <2>3. f[i][j].payload = f[k][l].payload
    BY <1>6, <1>11, <2>11, <2>21
  <2>4. i = k
    BY <1>10, <2>3
  <2>5. j = l
    BY <2>3, <2>4 DEF Carries
  <2> QED BY <2>11, <2>21, <2>4, <2>5
<1>12. ASSUME NEW q \in 1 .. Len(t), NEW z \in 1 .. Len(t), Sooner(t[q].payload, t[z].payload)
       PROVE  q < z
  <2>1. PICK i \in 1 .. n : \E j \in 1 .. Len(f[i]) : q = off[i - 1] + j
    BY <1>4
  <2>11. PICK j \in 1 .. Len(f[i]) : q = off[i - 1] + j
    BY <2>1
  <2>2. PICK k \in 1 .. n : \E l \in 1 .. Len(f[k]) : z = off[k - 1] + l
    BY <1>4
  <2>21. PICK l \in 1 .. Len(f[k]) : z = off[k - 1] + l
    BY <2>2
  <2>3. Sooner(f[i][j].payload, f[k][l].payload)
    BY <1>6, <1>12, <2>11, <2>21
  <2>4. i = k
    BY <1>10, <2>3
  <2>5. j < l
    BY <2>3, <2>4 DEF Carries
  <2>6. off[i - 1] \in Nat /\ q = off[i - 1] + j /\ z = off[i - 1] + l /\ j \in Nat /\ l \in Nat
    BY <1>3, <1>5, <2>11, <2>21, <2>4
  <2> QED BY <2>5, <2>6
<1>13. Carries(t, X)
  BY <1>8, <1>9, <1>11, <1>12 DEF Carries
<1> QED BY <1>1, <1>13 DEF t, Together

(* What a set of ranks has to send to a set of ranks in a call.             *)
Elements(k, S, D) ==
  {w \in Word : w[1] = k /\ w[2] \in S /\ w[3] \in D /\ w[4] \in 1 .. Count(pattern, k, w[2], w[3])}

(* One message in envelopes.                                                *)
LEMMA MessageCarries ==
  ASSUME NEW k \in Nat, NEW s \in Nat, NEW d \in Nat, Count(pattern, k, s, d) \in Nat, NEW m,
         m = [j \in 1 .. Count(pattern, k, s, d) |->
                [payload |-> Payloads(k, s, d)[j], source |-> s, destination |-> d]]
  PROVE  m \in Seq(RowEntry) /\ Carries(m, Elements(k, {s}, {d}))
<1> DEFINE c == Count(pattern, k, s, d)
<1>1. c \in Nat /\ Len(m) = c /\ DOMAIN m = 1 .. c
  OBVIOUS
<1>2. \A j \in 1 .. c : m[j] = [payload |-> <<k, s, d, j>>, source |-> s, destination |-> d]
  BY DEF Payloads
<1>3. \A j \in 1 .. c : <<k, s, d, j>> \in Word
  BY DEF Word
<1>4. \A j \in 1 .. c : m[j] \in RowEntry
  <2> SUFFICES ASSUME NEW j \in 1 .. c
               PROVE  m[j] \in RowEntry
    OBVIOUS
  <2> DEFINE w == <<k, s, d, j>>
  <2>1. w \in Word /\ w[2] = s /\ w[3] = d
    BY <1>3
  <2>2. m[j] = [payload |-> w, source |-> w[2], destination |-> w[3]]
    BY <1>2
  <2> HIDE DEF w
  <2> QED BY <2>1, <2>2 DEF RowEntry
<1>5. m \in Seq(RowEntry)
  <2> HIDE DEF c
  <2>1. m = [j \in 1 .. c |-> m[j]]
    BY DEF c
  <2> QED BY <1>1, <1>4, <2>1
<1>6. \A j \in 1 .. c : m[j].payload = <<k, s, d, j>>
  BY <1>2
<1>7. \A j \in 1 .. c : <<k, s, d, j>> \in Elements(k, {s}, {d})
  BY <1>3 DEF Elements
<1>8. ASSUME NEW w \in Elements(k, {s}, {d})
      PROVE  \E j \in 1 .. c : w = <<k, s, d, j>>
  <2>1. w \in Word /\ w[1] = k /\ w[2] = s /\ w[3] = d /\ w[4] \in 1 .. c
    BY DEF Elements
  <2>2. w = <<w[1], w[2], w[3], w[4]>>
    BY <2>1 DEF Word
  <2> QED BY <2>1, <2>2
<1> HIDE DEF c
<1>9. \A i, j \in 1 .. c : <<k, s, d, i>> = <<k, s, d, j>> => i = j
  OBVIOUS
<1>10. \A i, j \in 1 .. c : Sooner(<<k, s, d, i>>, <<k, s, d, j>>) => i < j
  BY DEF Sooner
<1>11. Carries(m, Elements(k, {s}, {d}))
  <2>1. \A i \in 1 .. Len(m) : m[i].payload \in Elements(k, {s}, {d})
    BY <1>1, <1>6, <1>7
  <2>2. \A w \in Elements(k, {s}, {d}) : \E i \in 1 .. Len(m) : m[i].payload = w
    BY <1>1, <1>6, <1>8
  <2>3. \A i, j \in 1 .. Len(m) : m[i].payload = m[j].payload => i = j
    BY <1>1, <1>6, <1>9
  <2>4. \A i, j \in 1 .. Len(m) : Sooner(m[i].payload, m[j].payload) => i < j
    BY <1>1, <1>6, <1>10
  <2> QED BY <2>1, <2>2, <2>3, <2>4 DEF Carries
<1> QED BY <1>5, <1>11

--------------------------------------------------------------------------------
(* Choosing entries in order                                                  *)

Below(S, s) == {t \in S : t < s}

(* The larger of two members has more members below it.                       *)
LEMMA BelowGrows ==
  ASSUME NEW S \in SUBSET Nat, IsFiniteSet(S), NEW s \in S
  PROVE  /\ Cardinality(Below(S, s)) + 1 \in 1 .. Cardinality(S)
         /\ \A t \in S : s < t => Cardinality(Below(S, s)) < Cardinality(Below(S, t))
<1>1. \A t \in S : IsFiniteSet(Below(S, t)) /\ Cardinality(Below(S, t)) \in Nat
  <2> SUFFICES ASSUME NEW t \in S
               PROVE  IsFiniteSet(Below(S, t)) /\ Cardinality(Below(S, t)) \in Nat
    OBVIOUS
  <2>1. Below(S, t) \in SUBSET S
    BY DEF Below
  <2> QED BY <2>1, FS_Subset, FS_CardinalityType
<1>2. s \notin Below(S, s)
  BY DEF Below
<1>3. Cardinality(Below(S, s) \cup {s}) = Cardinality(Below(S, s)) + 1
  BY <1>1, <1>2, FS_AddElement
<1>4. Below(S, s) \cup {s} \in SUBSET S
  BY DEF Below
<1>5. Cardinality(Below(S, s) \cup {s}) <= Cardinality(S) /\ Cardinality(S) \in Nat
  BY <1>4, FS_Subset, FS_CardinalityType
<1>6. ASSUME NEW t \in S, s < t
      PROVE  Cardinality(Below(S, s)) < Cardinality(Below(S, t))
  <2>1. Below(S, s) \cup {s} \in SUBSET Below(S, t)
    <3>1. s \in Below(S, t)
      BY <1>6 DEF Below
    <3>2. ASSUME NEW x \in Below(S, s)
          PROVE  x \in Below(S, t)
      <4>1. x \in S /\ x < s /\ x \in Nat /\ s \in Nat /\ t \in Nat
        BY DEF Below
      <4>2. x < t
        BY <1>6, <4>1
      <4> QED BY <4>1, <4>2 DEF Below
    <3> QED BY <3>1, <3>2
  <2>2. Cardinality(Below(S, s) \cup {s}) <= Cardinality(Below(S, t))
    BY <1>1, <2>1, FS_Subset
  <2> QED BY <1>1, <1>3, <2>2
<1> QED BY <1>1, <1>3, <1>5, <1>6

(* Each member has one place, and the order is theirs.                      *)
LEMMA AscendingOrders ==
  ASSUME NEW S \in SUBSET Nat, IsFiniteSet(S)
  PROVE  /\ Cardinality(S) \in Nat /\ DOMAIN Ascending(S) = 1 .. Cardinality(S)
         /\ \A i \in 1 .. Cardinality(S) : Ascending(S)[i] \in S
         /\ \A s \in S : \E i \in 1 .. Cardinality(S) : Ascending(S)[i] = s
         /\ \A i, j \in 1 .. Cardinality(S) : i < j => Ascending(S)[i] < Ascending(S)[j]
         /\ \A i \in 1 .. Cardinality(S) : Cardinality(Below(S, Ascending(S)[i])) = i - 1
<1> DEFINE n == Cardinality(S)
           a == Ascending(S)
           g == [s \in S |-> Cardinality(Below(S, s)) + 1]
<1>1. n \in Nat
  BY FS_CardinalityType
<1>2. \A s \in S : g[s] \in 1 .. n
  BY BelowGrows
<1>3. \A s, t \in S : s < t => g[s] < g[t]
  <2> SUFFICES ASSUME NEW s \in S, NEW t \in S, s < t
               PROVE  g[s] < g[t]
    OBVIOUS
  <2>1. Cardinality(Below(S, s)) < Cardinality(Below(S, t))
    BY BelowGrows
  <2>2. g[s] \in 1 .. n /\ g[t] \in 1 .. n
    BY <1>2
  <2>3. IsFiniteSet(Below(S, s)) /\ IsFiniteSet(Below(S, t))
    <3>1. Below(S, s) \in SUBSET S /\ Below(S, t) \in SUBSET S
      BY DEF Below
    <3> QED BY <3>1, FS_Subset
  <2>4. Cardinality(Below(S, s)) \in Nat /\ Cardinality(Below(S, t)) \in Nat
    BY <2>3, FS_CardinalityType
  <2> QED BY <2>1, <2>4
<1>4. \A s, t \in S : g[s] = g[t] => s = t
  <2> SUFFICES ASSUME NEW s \in S, NEW t \in S, g[s] = g[t]
               PROVE  s = t
    OBVIOUS
  <2>1. g[s] \in Nat
    BY <1>1, <1>2
  <2>2. ~(s < t) /\ ~(t < s)
    BY <1>3, <2>1
  <2> QED BY <2>2
<1>5. g \in Injection(S, 1 .. n)
  <2>1. g \in [S -> 1 .. n]
    BY <1>2
  <2> HIDE DEF g
  <2> QED BY <1>4, <2>1 DEF Injection, IsInjective
<1>6. IsFiniteSet(1 .. n) /\ Cardinality(1 .. n) = n
  BY <1>1, FS_Interval
<1>7. g \in Surjection(S, 1 .. n)
  BY <1>5, <1>6, FS_Injection
<1>8. \A i \in 1 .. n : \E s \in S : g[s] = i
  BY <1>7 DEF Surjection
<1> HIDE DEF g
<1>9. \A s \in S : g[s] = Cardinality({t \in S : t < s}) + 1 /\ Cardinality({t \in S : t < s}) \in Nat
  <2> SUFFICES ASSUME NEW s \in S
               PROVE  g[s] = Cardinality({t \in S : t < s}) + 1 /\ Cardinality({t \in S : t < s}) \in Nat
    OBVIOUS
  <2>1. {t \in S : t < s} \in SUBSET S
    OBVIOUS
  <2>2. Cardinality({t \in S : t < s}) \in Nat
    BY <2>1, FS_Subset, FS_CardinalityType
  <2> QED BY <2>2 DEF g, Below
<1>10. ASSUME NEW i \in 1 .. n
       PROVE  a[i] \in S /\ g[a[i]] = i
  <2>1. a[i] = CHOOSE s \in S : Cardinality({t \in S : t < s}) = i - 1
    BY DEF Ascending
  <2>2. PICK s \in S : g[s] = i
    BY <1>8
  <2>3. Cardinality({t \in S : t < s}) = i - 1
    BY <1>9, <2>2
  <2>4. a[i] \in S /\ Cardinality({t \in S : t < a[i]}) = i - 1
    BY <2>1, <2>3
  <2>5. g[a[i]] = (i - 1) + 1
    BY <1>9, <2>4
  <2> QED BY <2>4, <2>5
<1>11. DOMAIN a = 1 .. n
  BY DEF Ascending
<1> HIDE DEF a
<1>12. \A s \in S : a[g[s]] = s /\ g[s] \in 1 .. n
  BY <1>2, <1>4, <1>10 DEF g
<1>13. ASSUME NEW i \in 1 .. n, NEW j \in 1 .. n, i < j
       PROVE  a[i] < a[j]
  <2>1. a[i] \in S /\ a[j] \in S /\ g[a[i]] = i /\ g[a[j]] = j
    BY <1>10
  <2>2. i \in Nat /\ j \in Nat /\ i < j
    <3> HIDE DEF n
    <3> QED BY <1>1, <1>13
  <2>5. a[i] \in Nat /\ a[j] \in Nat
    BY <2>1
  <2>3. a[j] < a[i] => j < i
    BY <1>3, <2>1
  <2>4. a[i] = a[j] => i = j
    BY <2>1
  <2> QED BY <2>2, <2>3, <2>4, <2>5
<1>14. ASSUME NEW i \in 1 .. n
       PROVE  Cardinality(Below(S, a[i])) = i - 1
  <2>1. a[i] \in S /\ g[a[i]] = i
    BY <1>10
  <2>2. g[a[i]] = Cardinality(Below(S, a[i])) + 1 /\ Cardinality(Below(S, a[i])) \in Nat
    BY <1>9, <2>1 DEF Below
  <2> QED BY <2>1, <2>2
<1> QED BY <1>1, <1>10, <1>11, <1>12, <1>13, <1>14 DEF a

(* The entries for one row, in their order.                                 *)
LEMMA SelectCarries ==
  ASSUME NEW e \in Seq(RowEntry), NEW W, Carries(e, W), NEW i,
         NEW here, here = Ascending({j \in DOMAIN e : ColDestination(e[j].destination) = i - 1}),
         NEW g, g = [j \in DOMAIN here |-> [payload |-> e[here[j]].payload, source |-> e[here[j]].source]]
  PROVE  g \in Seq(ColEntry) /\ Carries(g, {w \in W : ColDestination(w[3]) = i - 1})
<1> DEFINE S == {j \in DOMAIN e : ColDestination(e[j].destination) = i - 1}
           n == Cardinality(S)
           X == {w \in W : ColDestination(w[3]) = i - 1}
<1>1. DOMAIN e = 1 .. Len(e) /\ Len(e) \in Nat
  OBVIOUS
<1>2. IsFiniteSet(S) /\ S \in SUBSET Nat
  <2>1. S \in SUBSET (1 .. Len(e))
    BY <1>1
  <2>2. IsFiniteSet(1 .. Len(e))
    BY <1>1, FS_Interval
  <2> HIDE DEF S
  <2>3. IsFiniteSet(S)
    BY <2>1, <2>2, FS_Subset
  <2>4. S \in SUBSET Nat
    BY <1>1, <2>1
  <2> QED BY <2>3, <2>4
<1>3. /\ n \in Nat /\ DOMAIN here = 1 .. n
      /\ \A j \in 1 .. n : here[j] \in S
      /\ \A s \in S : \E j \in 1 .. n : here[j] = s
      /\ \A j, k \in 1 .. n : j < k => here[j] < here[k]
  <2>1. here = Ascending(S)
    OBVIOUS
  <2> HIDE DEF S
  <2> QED BY <1>2, <2>1, AscendingOrders
<1>4. \A j \in 1 .. Len(e) : /\ e[j].payload \in Word
                              /\ e[j].source = e[j].payload[2] /\ e[j].destination = e[j].payload[3]
  BY <1>1 DEF RowEntry
<1>5. \A j \in 1 .. n : /\ here[j] \in 1 .. Len(e) /\ here[j] \in Nat
                        /\ ColDestination(e[here[j]].destination) = i - 1
  BY <1>1, <1>3
<1>6. \A j \in 1 .. n : g[j] \in ColEntry /\ g[j].payload = e[here[j]].payload
  <2> SUFFICES ASSUME NEW j \in 1 .. n
               PROVE  g[j] \in ColEntry /\ g[j].payload = e[here[j]].payload
    OBVIOUS
  <2>1. g[j] = [payload |-> e[here[j]].payload, source |-> e[here[j]].source]
    BY <1>3
  <2> DEFINE w == e[here[j]].payload
  <2>2. w \in Word /\ g[j] = [payload |-> w, source |-> w[2]]
    BY <1>4, <1>5, <2>1
  <2> HIDE DEF w
  <2>3. g[j] \in ColEntry
    BY <2>2 DEF ColEntry
  <2>4. g[j].payload = e[here[j]].payload
    BY <1>3
  <2> QED BY <2>3, <2>4
<1>7. DOMAIN g = 1 .. n
  BY <1>3
<1>8. g = [j \in 1 .. n |-> g[j]]
  BY <1>3
<1>81. g \in Seq(ColEntry) /\ Len(g) = n
  <2> HIDE DEF n
  <2>1. n \in Nat /\ \A j \in 1 .. n : g[j] \in ColEntry
    BY <1>3, <1>6
  <2>2. g \in [1 .. n -> ColEntry]
    BY <1>8, <2>1, Zenon
  <2>3. \A k \in Nat : \A f \in [1 .. k -> ColEntry] : f \in Seq(ColEntry) /\ Len(f) = k
    OBVIOUS
  <2> QED BY <2>1, <2>2, <2>3, Zenon
<1> HIDE DEF n
<1>9. \A j \in 1 .. Len(g) : g[j].payload \in X
  <2> SUFFICES ASSUME NEW j \in 1 .. n
               PROVE  g[j].payload \in X
    BY <1>81
  <2>1. e[here[j]].payload \in W
    BY <1>5 DEF Carries
  <2>2. e[here[j]].payload[3] = e[here[j]].destination
    BY <1>4, <1>5
  <2> QED BY <1>5, <1>6, <2>1, <2>2
<1>10. ASSUME NEW w \in X
       PROVE  \E j \in 1 .. Len(g) : g[j].payload = w
  <2>1. PICK m \in 1 .. Len(e) : e[m].payload = w
    BY DEF Carries
  <2>2. m \in S
    BY <1>1, <1>4, <2>1
  <2>3. PICK j \in 1 .. n : here[j] = m
    BY <1>3, <2>2
  <2> QED BY <1>6, <1>81, <2>1, <2>3
<1>11. ASSUME NEW j \in 1 .. n, NEW k \in 1 .. n, g[j].payload = g[k].payload
       PROVE  j = k
  <2>1. e[here[j]].payload = e[here[k]].payload
    BY <1>6, <1>11
  <2>2. here[j] = here[k]
    BY <1>5, <2>1 DEF Carries
  <2>3. ~(j < k) /\ ~(k < j)
    BY <1>3, <1>5, <2>2
  <2> QED BY <1>3, <2>3
<1>12. ASSUME NEW j \in 1 .. n, NEW k \in 1 .. n, Sooner(g[j].payload, g[k].payload)
       PROVE  j < k
  <2>1. Sooner(e[here[j]].payload, e[here[k]].payload)
    BY <1>6, <1>12
  <2>2. here[j] < here[k]
    BY <1>5, <2>1 DEF Carries
  <2>3. ~(k < j) /\ k # j
    BY <1>3, <1>5, <2>2
  <2> QED BY <1>3, <2>3
<1>13. Carries(g, X)
  <2> HIDE DEF X
  <2>1. \A j, k \in 1 .. Len(g) : g[j].payload = g[k].payload => j = k
    BY <1>81, <1>11
  <2>2. \A j, k \in 1 .. Len(g) : Sooner(g[j].payload, g[k].payload) => j < k
    BY <1>81, <1>12
  <2> QED BY <1>9, <1>10, <2>1, <2>2, Zenon DEF Carries
<1> QED BY <1>81, <1>13

--------------------------------------------------------------------------------
(* Sorting by source                                                          *)

(* What a rank has received when all its elements of a call are there: each *)
(* entry is an element, known by its source and its number.                 *)
LEMMA EntryIs ==
  ASSUME NEW k, NEW d \in Rank, NEW env \in Seq(ColEntry), Carries(env, Elements(k, Rank, {d}))
  PROVE  /\ \A i \in 1 .. Len(env) :
              /\ env[i].source \in Rank
              /\ env[i].payload[4] \in 1 .. Count(pattern, k, env[i].source, d)
              /\ env[i].payload = <<k, env[i].source, d, env[i].payload[4]>>
              /\ env[i].payload[4] \in Nat
<1> SUFFICES ASSUME NEW i \in 1 .. Len(env)
             PROVE  /\ env[i].source \in Rank
                    /\ env[i].payload[4] \in 1 .. Count(pattern, k, env[i].source, d)
                    /\ env[i].payload = <<k, env[i].source, d, env[i].payload[4]>>
                    /\ env[i].payload[4] \in Nat
  OBVIOUS
<1> DEFINE w == env[i].payload
<1>1. w \in Elements(k, Rank, {d})
  BY DEF Carries
<1>2. env[i] \in ColEntry
  OBVIOUS
<1>3. env[i].source = w[2]
  BY <1>2 DEF ColEntry
<1> HIDE DEF w
<1>4. w \in Word /\ w[1] = k /\ w[2] \in Rank /\ w[3] = d /\ w[4] \in 1 .. Count(pattern, k, w[2], w[3])
  BY <1>1 DEF Elements
<1>5. w = <<w[1], w[2], w[3], w[4]>> /\ w[4] \in Nat
  BY <1>4 DEF Word
<1>6. w = <<k, env[i].source, d, w[4]>> /\ w[4] \in 1 .. Count(pattern, k, env[i].source, d)
  BY <1>3, <1>4, <1>5
<1> QED BY <1>3, <1>4, <1>5, <1>6 DEF w

Has(env, w) == \E i \in 1 .. Len(env) : env[i].payload = w

(* Every element of the call to this rank is in some entry.                   *)
LEMMA EntryOf ==
  ASSUME NEW k \in Nat, p \in Nat, NEW d \in Rank, NEW env, Carries(env, Elements(k, Rank, {d})),
         NEW s \in Rank
  PROVE  \A j \in Nat : j \in 1 .. Count(pattern, k, s, d) => Has(env, <<k, s, d, j>>)
<1> SUFFICES ASSUME NEW j \in Nat, j \in 1 .. Count(pattern, k, s, d)
             PROVE  Has(env, <<k, s, d, j>>)
  OBVIOUS
<1> DEFINE w == <<k, s, d, j>>
<1>1. w \in Word /\ w[1] = k /\ w[2] = s /\ w[3] = d /\ w[4] = j
  BY DEF Word, Rank
<1> HIDE DEF w
<1>2. w \in Elements(k, Rank, {d})
  BY <1>1 DEF Elements
<1>3. Has(env, w)
  BY <1>2 DEF Carries, Has
<1> QED BY <1>3 DEF w

(* The first m elements of a source are m.                                  *)
LEMMA FirstOfSource ==
  ASSUME NEW k \in Nat, p \in Nat, NEW d \in Rank, NEW env \in Seq(ColEntry), Carries(env, Elements(k, Rank, {d})),
         NEW s \in Rank, Count(pattern, k, s, d) \in Nat, NEW m \in 0 .. Count(pattern, k, s, d)
  PROVE  Cardinality({i \in 1 .. Len(env) : env[i].source = s /\ env[i].payload[4] <= m}) = m
<1>0. \A j \in Nat : j \in 1 .. Count(pattern, k, s, d) => Has(env, <<k, s, d, j>>)
  BY EntryOf
<1> DEFINE T == {i \in 1 .. Len(env) : env[i].source = s /\ env[i].payload[4] <= m}
           h == [i \in T |-> env[i].payload[4]]
<1>1. \A i \in T : /\ i \in 1 .. Len(env) /\ env[i].source = s /\ env[i].payload[4] \in 1 .. m
                   /\ env[i].payload = <<k, s, d, env[i].payload[4]>>
  BY EntryIs
<1>2. \A i, j \in T : h[i] = h[j] => i = j
  <2> SUFFICES ASSUME NEW i \in T, NEW j \in T, h[i] = h[j]
               PROVE  i = j
    OBVIOUS
  <2>1. env[i].payload[4] = env[j].payload[4]
    OBVIOUS
  <2>2. env[i].payload = env[j].payload
    BY <1>1, <2>1
  <2> QED BY <1>1, <2>2 DEF Carries
<1>3. \A j \in 1 .. m : \E i \in T : h[i] = j
  <2> SUFFICES ASSUME NEW j \in 1 .. m
               PROVE  \E i \in T : h[i] = j
    OBVIOUS
  <2>1. j \in 1 .. Count(pattern, k, s, d)
    OBVIOUS
  <2> DEFINE w == <<k, s, d, j>>
  <2>9. Has(env, w) /\ w[4] = j /\ w[2] = s
    BY <2>1, <1>0
  <2> HIDE DEF w
  <2>2. PICK i \in 1 .. Len(env) : env[i].payload = w
    BY <2>9 DEF Has
  <2>3. env[i].payload[4] = j /\ env[i].payload[2] = s
    BY <2>2, <2>9
  <2>4. env[i].payload = <<k, env[i].source, d, env[i].payload[4]>>
    BY EntryIs
  <2>5. env[i].source = s
    BY <2>3, <2>4
  <2>6. i \in T
    BY <2>3, <2>5
  <2> QED BY <2>3, <2>6
<1>4. h \in [T -> 1 .. m]
  BY <1>1
<1>5. IsFiniteSet(T)
  <2>1. T \in SUBSET (1 .. Len(env)) /\ Len(env) \in Nat
    OBVIOUS
  <2> HIDE DEF T
  <2>2. IsFiniteSet(1 .. Len(env))
    BY <2>1, FS_Interval
  <2> QED BY <2>1, <2>2, FS_Subset
<1> HIDE DEF h, T
<1>6. h \in Bijection(T, 1 .. m)
  BY <1>2, <1>3, <1>4 DEF Bijection, Injection, Surjection, IsInjective
<1>7. Cardinality(1 .. m) = Cardinality(T)
  BY <1>5, <1>6, FS_Bijection DEF ExistsBijection
<1>8. Cardinality(1 .. m) = m
  BY FS_Interval
<1> QED BY <1>7, <1>8 DEF T

(* RecvCounts counts what was sent.                                         *)
LEMMA CountsAre ==
  ASSUME NEW k \in Nat, p \in Nat, NEW d \in Rank, NEW env \in Seq(ColEntry), Carries(env, Elements(k, Rank, {d})),
         \A s \in Rank : Count(pattern, k, s, d) \in Nat
  PROVE  RecvCounts(env) = [s \in Rank |-> Count(pattern, k, s, d)]
<1>1. ASSUME NEW s \in Rank
      PROVE  Cardinality({i \in DOMAIN env : env[i].source = s}) = Count(pattern, k, s, d)
  <2> DEFINE n == Count(pattern, k, s, d)
  <2>1. n \in 0 .. n /\ n \in Nat
    OBVIOUS
  <2>2. Cardinality({i \in 1 .. Len(env) : env[i].source = s /\ env[i].payload[4] <= n}) = n
    BY <2>1, FirstOfSource
  <2>3. {i \in DOMAIN env : env[i].source = s} =
          {i \in 1 .. Len(env) : env[i].source = s /\ env[i].payload[4] <= n}
    <3>1. \A i \in 1 .. Len(env) : env[i].source = s => env[i].payload[4] <= n
      BY EntryIs
    <3>2. DOMAIN env = 1 .. Len(env)
      OBVIOUS
    <3> QED BY <3>1, <3>2
  <2> QED BY <2>2, <2>3
<1> QED BY <1>1 DEF RecvCounts

(* Before an entry are the elements of its source with smaller numbers.     *)
LEMMA WritePosIs ==
  ASSUME NEW k \in Nat, p \in Nat, NEW d \in Rank, NEW env \in Seq(ColEntry), Carries(env, Elements(k, Rank, {d})),
         \A s \in Rank : Count(pattern, k, s, d) \in Nat, NEW displs, NEW i \in 1 .. Len(env)
  PROVE  WritePos(env, displs, i) = displs[env[i].source] + (env[i].payload[4] - 1)
<1> DEFINE s == env[i].source
           m == env[i].payload[4] - 1
           A == {j \in 1 .. i - 1 : env[j].source = env[i].source}
           B == {j \in 1 .. Len(env) : env[j].source = s /\ env[j].payload[4] <= m}
<1>1. s \in Rank /\ m \in 0 .. Count(pattern, k, s, d) /\ Count(pattern, k, s, d) \in Nat
  BY EntryIs
<1>2. Cardinality(B) = m
  BY <1>1, FirstOfSource
<1>3. ASSUME NEW j \in 1 .. Len(env), env[j].source = s
      PROVE  j < i <=> env[j].payload[4] <= m
  <2>1. /\ env[i].payload = <<k, s, d, env[i].payload[4]>> /\ env[i].payload[4] \in Nat
        /\ env[j].payload = <<k, s, d, env[j].payload[4]>> /\ env[j].payload[4] \in Nat
    BY <1>3, EntryIs
  <2> DEFINE a == env[i].payload
             b == env[j].payload
  <2>2. a[2] = b[2] /\ a[3] = b[3] /\ (a[4] = b[4] => a = b) /\ a[4] \in Nat /\ b[4] \in Nat
    BY <2>1
  <2>3. (Sooner(a, b) => i < j) /\ (Sooner(b, a) => j < i) /\ (a = b => i = j)
    BY DEF Carries
  <2>4. m = a[4] - 1
    OBVIOUS
  <2> HIDE DEF a, b, m
  <2>5. i \in Nat /\ j \in Nat
    OBVIOUS
  <2>6. CASE a[4] < b[4]
    BY <2>2, <2>3, <2>4, <2>5, <2>6 DEF Sooner, b
  <2>7. CASE b[4] < a[4]
    BY <2>2, <2>3, <2>4, <2>5, <2>7 DEF Sooner, b
  <2>8. CASE a[4] = b[4]
    BY <2>2, <2>3, <2>4, <2>5, <2>8 DEF b
  <2> QED BY <2>2, <2>6, <2>7, <2>8
<1>4. A = B
  <2>1. \A j \in 1 .. Len(env) : env[j].source = s => (j < i <=> env[j].payload[4] <= m)
    BY <1>3
  <2>2. \A j : j \in 1 .. i - 1 <=> j \in 1 .. Len(env) /\ j < i
    OBVIOUS
  <2> HIDE DEF m
  <2> QED BY <2>1, <2>2
<1> QED BY <1>2, <1>4 DEF WritePos

(* The size of an interval from one.                                          *)
LEMMA UpTo ==
  ASSUME NEW m \in Nat
  PROVE  IsFiniteSet(1 .. m) /\ Cardinality(1 .. m) = m
BY FS_Interval

(* The greatest of one.                                                       *)
LEMMA LastOfOne ==
  ASSUME NEW i \in Nat
  PROVE  Max({i}) = i
<1>1. \A y \in {i} : i >= y
  OBVIOUS
<1>2. \A x \in {i} : x = i
  OBVIOUS
<1> QED BY <1>1, <1>2 DEF Max

(* The messages of a call to a rank, and where they begin in its result.    *)
Expected(k, d, f, x) ==
  /\ f \in [1 .. p -> Seq(Word)]
  /\ \A s \in Rank : Len(f[s + 1]) = Count(pattern, k, s, d)
  /\ \A s \in Rank : \A j \in 1 .. Count(pattern, k, s, d) : f[s + 1][j] = <<k, s, d, j>>
  /\ Concat(f) \in Seq(Word)
  /\ \E off : Parts(Concat(f), f, p, off) /\ \A s \in Rank : x[s] = off[s]

(* The result sorted by source: what MPI_Alltoallv would have returned.     *)
LEMMA ExpectedParts ==
  ASSUME NEW k \in Nat, p \in Nat, NEW d \in Rank, \A s \in Rank : Count(pattern, k, s, d) \in Nat,
         NEW f, f = PerRank([s \in Rank |-> Payloads(k, s, d)]),
         NEW x, x = ExclusiveScan([s \in Rank |-> Count(pattern, k, s, d)])
  PROVE  Expected(k, d, f, x)
<1> DEFINE c == [s \in Rank |-> Count(pattern, k, s, d)]
<1>1. \A i \in 1 .. p : i - 1 \in Rank
  BY DEF Rank
<1>2. ASSUME NEW s \in Rank
      PROVE  /\ Payloads(k, s, d) \in Seq(Word) /\ Len(Payloads(k, s, d)) = Count(pattern, k, s, d)
             /\ \A j \in 1 .. Count(pattern, k, s, d) : Payloads(k, s, d)[j] = <<k, s, d, j>>
  <2> DEFINE n == Count(pattern, k, s, d)
             m == Payloads(k, s, d)
  <2>1. m = [j \in 1 .. n |-> <<k, s, d, j>>]
    BY DEF Payloads
  <2>2. n \in Nat
    OBVIOUS
  <2>3. \A j \in 1 .. n : <<k, s, d, j>> \in Word
    BY <2>2 DEF Word, Rank
  <2> HIDE DEF n, m
  <2>4. m \in Seq(Word) /\ Len(m) = n
    BY <2>1, <2>2, <2>3
  <2>5. \A j \in 1 .. n : m[j] = <<k, s, d, j>>
    BY <2>1
  <2> QED BY <2>4, <2>5 DEF n, m
<1>3. \A i \in 1 .. p : f[i] = Payloads(k, i - 1, d)
  BY <1>1 DEF PerRank
<1>4. \A s \in Rank : s + 1 \in 1 .. p /\ (s + 1) - 1 = s
  BY DEF Rank
<1>5. \A s \in Rank : f[s + 1] = Payloads(k, s, d)
  BY <1>3, <1>4
<1>6. f \in [1 .. p -> Seq(Word)]
  <2>1. f = [i \in 1 .. p |-> f[i]]
    BY DEF PerRank
  <2>2. \A i \in 1 .. p : f[i] \in Seq(Word)
    BY <1>1, <1>2, <1>3
  <2> QED BY <2>1, <2>2, Zenon
<1>7. Concat(f) \in Seq(Word) /\ \E off : Parts(Concat(f), f, p, off)
  BY <1>6, ConcatParts
<1>8. PICK off : Parts(Concat(f), f, p, off)
  BY <1>7
<1>9. /\ \A i \in 0 .. p - 1 : x[i] \in Nat
      /\ 0 < p => x[0] = 0
      /\ \A i \in 0 .. p - 1 : i + 1 < p => x[i + 1] = x[i] + c[i]
  <2>1. DOMAIN c = 0 .. p - 1 /\ \A i \in 0 .. p - 1 : c[i] \in Nat
    BY DEF Rank
  <2>2. x = ExclusiveScan(c)
    OBVIOUS
  <2> HIDE DEF c
  <2> QED BY <2>1, <2>2, ScanNext
<1>10. \A s \in Rank : x[s] = off[s]
  <2> DEFINE N == {m \in Nat : m < p => x[m] = off[m]}
  <2>1. 0 \in N
    BY <1>8, <1>9 DEF Parts
  <2>2. ASSUME NEW m \in Nat, m \in N
        PROVE  m + 1 \in N
    <3> SUFFICES ASSUME m + 1 < p
                 PROVE  x[m + 1] = off[m + 1]
      OBVIOUS
    <3>1. x[m] = off[m] /\ m \in Rank /\ m \in 0 .. p - 1
      BY <2>2 DEF Rank
    <3>2. x[m + 1] = x[m] + c[m] /\ c[m] = Count(pattern, k, m, d)
      BY <1>9, <3>1
    <3>3. off[m + 1] = off[m] + Len(f[m + 1])
      <4>1. m + 1 \in 1 .. p /\ (m + 1) - 1 = m
        BY <1>4, <3>1
      <4> QED BY <1>8, <4>1 DEF Parts
    <3>4. Len(f[m + 1]) = c[m]
      BY <1>2, <1>5, <3>1, <3>2
    <3> HIDE DEF c
    <3> QED BY <3>1, <3>2, <3>3, <3>4
  <2>3. Nat \subseteq N
    <3> HIDE DEF N
    <3> QED BY <2>1, <2>2, Induction
  <2> QED BY <2>3 DEF Rank
<1>11. \A s \in Rank : Len(f[s + 1]) = Count(pattern, k, s, d)
  BY <1>2, <1>5
<1>12. \A s \in Rank : \A j \in 1 .. Count(pattern, k, s, d) : f[s + 1][j] = <<k, s, d, j>>
  BY <1>2, <1>5
<1>13. \E o : Parts(Concat(f), f, p, o) /\ \A s \in Rank : x[s] = o[s]
  BY <1>8, <1>10
<1> QED BY <1>6, <1>7, <1>11, <1>12, <1>13 DEF Expected

(* write_recv_buffer puts every element at its place in the result.         *)
LEMMA SortedBack ==
  ASSUME NEW k \in Nat, p \in Nat, NEW d \in Rank, NEW env \in Seq(ColEntry), Carries(env, Elements(k, Rank, {d})),
         \A s \in Rank : Count(pattern, k, s, d) \in Nat
  PROVE  RecvBuf(env, RecvCounts(env), ExclusiveScan(RecvCounts(env))) = Concat(PerRank([s \in Rank |-> Payloads(k, s, d)]))
<1> DEFINE f == PerRank([s \in Rank |-> Payloads(k, s, d)])
           c == [s \in Rank |-> Count(pattern, k, s, d)]
           x == ExclusiveScan([s \in Rank |-> Count(pattern, k, s, d)])
           B == Concat(f)
           q(i) == WritePos(env, x, i) + 1
           n(s) == Count(pattern, k, s, d)
<1>1. ExclusiveScan(RecvCounts(env)) = x /\ RecvCounts(env) = c
  BY CountsAre
<1>01. p - 1 \in Rank /\ c[p - 1] = n(p - 1)
  BY DEF Rank
<1>2. /\ f \in [1 .. p -> Seq(Word)]
      /\ \A s \in Rank : Len(f[s + 1]) = n(s)
      /\ \A s \in Rank : \A j \in 1 .. n(s) : f[s + 1][j] = <<k, s, d, j>>
      /\ B \in Seq(Word)
      /\ \E off : Parts(B, f, p, off) /\ \A s \in Rank : x[s] = off[s]
  <2> HIDE DEF f, x
  <2>1. f = PerRank([s \in Rank |-> Payloads(k, s, d)])
    BY DEF f
  <2>2. x = ExclusiveScan([s \in Rank |-> Count(pattern, k, s, d)])
    BY DEF x
  <2>3. Expected(k, d, f, x)
    BY <2>1, <2>2, ExpectedParts
  <2> QED BY <2>3 DEF Expected
<1>3. PICK off : Parts(B, f, p, off) /\ \A s \in Rank : x[s] = off[s]
  BY <1>2
<1>4. ASSUME NEW i \in 1 .. Len(env)
      PROVE  /\ env[i].source \in Rank /\ env[i].payload[4] \in 1 .. n(env[i].source) /\ env[i].payload[4] \in Nat
             /\ env[i].payload = <<k, env[i].source, d, env[i].payload[4]>>
             /\ WritePos(env, x, i) = x[env[i].source] + (env[i].payload[4] - 1)
  <2>1. WritePos(env, x, i) = x[env[i].source] + (env[i].payload[4] - 1)
    <3> HIDE DEF x
    <3> QED BY WritePosIs
  <2> QED BY <2>1, EntryIs
<1>5. \A s \in Rank : \A j \in Nat : j \in 1 .. n(s) => Has(env, <<k, s, d, j>>)
  BY EntryOf
<1> HIDE DEF B, f, x, c
<1>6. /\ \A z \in 1 .. Len(B) : \E i \in 1 .. p : \E j \in 1 .. Len(f[i]) : z = off[i - 1] + j
      /\ \A i \in 1 .. p : \A j \in 1 .. Len(f[i]) : off[i - 1] + j \in 1 .. Len(B)
      /\ Len(B) \in Nat
  <2>1. \A i \in 1 .. p : Len(f[i]) \in Nat
    BY <1>2
  <2> QED BY <1>3, <2>1, PartsCover
<1>7. \A s \in Rank : s + 1 \in 1 .. p /\ (s + 1) - 1 = s /\ s \in 0 .. p
  BY DEF Rank
<1>71. \A s \in Rank : off[s] \in Nat
  BY <1>3, <1>7 DEF Parts
<1>8. \A s \in Rank : \A j \in 1 .. n(s) : off[s] + j \in 1 .. Len(B) /\ B[off[s] + j] = <<k, s, d, j>>
  <2> SUFFICES ASSUME NEW s \in Rank, NEW j \in 1 .. n(s)
               PROVE  off[s] + j \in 1 .. Len(B) /\ B[off[s] + j] = <<k, s, d, j>>
    OBVIOUS
  <2> DEFINE i == s + 1
  <2>1. i \in 1 .. p /\ i - 1 = s /\ j \in 1 .. Len(f[i]) /\ f[i][j] = <<k, s, d, j>>
    BY <1>2, <1>7
  <2> HIDE DEF i
  <2>2. off[i - 1] + j \in 1 .. Len(B)
    BY <1>6, <2>1
  <2>3. B[off[i - 1] + j] = f[i][j]
    BY <1>3, <2>1 DEF Parts
  <2> QED BY <2>1, <2>2, <2>3
<1>9. ASSUME NEW i \in 1 .. Len(env)
      PROVE  q(i) \in 1 .. Len(B) /\ B[q(i)] = env[i].payload
  <2> DEFINE s == env[i].source
             j == env[i].payload[4]
  <2>1. s \in Rank /\ j \in 1 .. n(s) /\ j \in Nat /\ env[i].payload = <<k, s, d, j>>
        /\ WritePos(env, x, i) = x[s] + (j - 1)
    BY <1>4
  <2>2. x[s] = off[s] /\ off[s] \in Nat
    BY <1>3, <1>71, <2>1
  <2>3. off[s] + j \in 1 .. Len(B) /\ B[off[s] + j] = <<k, s, d, j>>
    BY <1>8, <2>1
  <2> HIDE DEF s, j
  <2>4. q(i) = off[s] + j
    BY <2>1, <2>2
  <2> QED BY <2>1, <2>3, <2>4
<1>10. ASSUME NEW z \in 1 .. Len(B)
       PROVE  \E i \in 1 .. Len(env) : q(i) = z
  <2>1. PICK m \in 1 .. p : \E j \in 1 .. Len(f[m]) : z = off[m - 1] + j
    BY <1>6
  <2>2. PICK j \in 1 .. Len(f[m]) : z = off[m - 1] + j
    BY <2>1
  <2> DEFINE s == m - 1
             w == <<k, s, d, j>>
  <2>3. s \in Rank /\ s + 1 = m
    BY DEF Rank
  <2>4. Len(f[m]) = n(s) /\ n(s) \in Nat
    BY <1>2, <2>3
  <2>41. j \in 1 .. n(s) /\ j \in Nat /\ z = off[s] + j
    BY <2>2, <2>4
  <2>5. Has(env, w) /\ w[2] = s /\ w[4] = j
    BY <1>5, <2>3, <2>41
  <2> HIDE DEF w, s
  <2>6. PICK i \in 1 .. Len(env) : env[i].payload = w
    BY <2>5 DEF Has
  <2>7. env[i].payload[4] = j /\ env[i].payload[2] = s
    BY <2>5, <2>6
  <2>8. env[i].source = s
    BY <1>4, <2>7
  <2>9. WritePos(env, x, i) = off[s] + (j - 1)
    BY <1>3, <1>4, <2>3, <2>7, <2>8
  <2>10. off[s] \in Nat
    BY <1>71, <2>3
  <2> QED BY <2>9, <2>10, <2>41
<1> HIDE DEF q
<1>11. \A i, j \in 1 .. Len(env) : q(i) = q(j) => i = j
  <2>1. \A i, j \in 1 .. Len(env) : env[i].payload = env[j].payload => i = j
    BY DEF Carries
  <2> QED BY <1>9, <2>1
<1>12. Len(env) = Len(B)
  <2> DEFINE h == [i \in 1 .. Len(env) |-> q(i)]
  <2>1. h \in [1 .. Len(env) -> 1 .. Len(B)]
    BY <1>9
  <2>2. \A i, j \in 1 .. Len(env) : h[i] = h[j] => i = j
    BY <1>11
  <2>3. \A z \in 1 .. Len(B) : \E i \in 1 .. Len(env) : h[i] = z
    BY <1>10
  <2> HIDE DEF h
  <2>4. h \in Bijection(1 .. Len(env), 1 .. Len(B))
    BY <2>1, <2>2, <2>3 DEF Bijection, Injection, Surjection, IsInjective
  <2>5. Len(env) \in Nat
    OBVIOUS
  <2>6. IsFiniteSet(1 .. Len(env)) /\ Cardinality(1 .. Len(env)) = Len(env)
    BY <2>5, UpTo
  <2>7. Cardinality(1 .. Len(B)) = Len(B)
    BY <1>6, UpTo
  <2>8. Cardinality(1 .. Len(B)) = Cardinality(1 .. Len(env))
    BY <2>4, <2>6, FS_Bijection DEF ExistsBijection
  <2> QED BY <2>6, <2>7, <2>8
<1>121. RequiredRecvBufSize(c, x) = Len(env)
  <2>1. x[p - 1] = off[p - 1] /\ Len(f[p]) = n(p - 1) /\ p \in 1 .. p
    BY <1>01, <1>2, <1>3 DEF Rank
  <2>2. off[p] = off[p - 1] + Len(f[p]) /\ off[p] = Len(B)
    BY <1>3, <2>1 DEF Parts
  <2> QED BY <1>01, <1>12, <2>1, <2>2 DEF RequiredRecvBufSize
<1>13. ASSUME NEW z \in 1 .. Len(env)
       PROVE  RecvBuf(env, c, x)[z] = B[z]
  <2> DEFINE writers == {i \in DOMAIN env : WritePos(env, x, i) + 1 = z}
  <2>1. PICK i \in 1 .. Len(env) : q(i) = z
    BY <1>10, <1>12
  <2>2. DOMAIN env = 1 .. Len(env)
    OBVIOUS
  <2>3. \A j \in 1 .. Len(env) : WritePos(env, x, j) + 1 = z <=> j = i
    BY <1>11, <2>1 DEF q
  <2>4. writers = {i}
    BY <2>2, <2>3
  <2>5. RecvBuf(env, c, x)[z] = IF writers = {} THEN <<>> ELSE env[Max(writers)].payload
    BY <1>121 DEF RecvBuf
  <2> HIDE DEF writers
  <2>6. Max(writers) = i /\ writers # {}
    BY <2>4, LastOfOne
  <2> QED BY <1>9, <2>1, <2>5, <2>6
<1>14. RecvBuf(env, c, x) = [z \in 1 .. Len(env) |-> RecvBuf(env, c, x)[z]]
  BY <1>121 DEF RecvBuf
<1>15. B = [z \in 1 .. Len(B) |-> B[z]]
  BY <1>2
<1>16. [z \in 1 .. Len(env) |-> RecvBuf(env, c, x)[z]] = [z \in 1 .. Len(B) |-> B[z]]
  BY <1>12, <1>13
<1>17. RecvBuf(env, c, x) = B
  BY <1>14, <1>15, <1>16, Zenon
<1> QED BY <1>1, <1>17 DEF B, f

--------------------------------------------------------------------------------
(* The shape of the grid                                                      *)

(* Quotient and remainder,                                                    *)
LEMMA DivMod ==
  ASSUME NEW a \in Nat, NEW K \in Nat \ {0}
  PROVE  a \div K \in Nat /\ a % K \in 0 .. K - 1 /\ a = K * (a \div K) + (a % K)
OBVIOUS

(* and that there are no others.                                              *)
LEMMA DivModIs ==
  ASSUME NEW K \in Nat \ {0}, NEW b \in Nat, NEW c \in 0 .. K - 1
  PROVE  (K * b + c) \div K = b /\ (K * b + c) % K = c
<1> DEFINE a == K * b + c
           d == a \div K
           e == a % K
<1>1. K * b \in Nat
  OBVIOUS
<1>2. a \in Nat
  BY <1>1
<1>3. d \in Nat /\ e \in 0 .. K - 1 /\ a = K * d + e
  BY <1>2, DivMod
<1>4. a = K * b + c
  OBVIOUS
<1> HIDE DEF a, d, e
<1>5. ~(d < b)
  <2> SUFFICES ASSUME d < b
               PROVE  FALSE
    OBVIOUS
  <2>1. K * b >= K * (d + 1)
    BY <1>3
  <2>2. K * (d + 1) = K * d + K
    BY <1>3
  <2> QED BY <1>1, <1>3, <1>4, <2>1, <2>2
<1>6. ~(b < d)
  <2> SUFFICES ASSUME b < d
               PROVE  FALSE
    OBVIOUS
  <2>1. K * d >= K * (b + 1)
    BY <1>3
  <2>2. K * (b + 1) = K * b + K
    OBVIOUS
  <2>3. K * d \in Nat
    BY <1>3
  <2> QED BY <1>1, <1>3, <1>4, <2>1, <2>2, <2>3
<1>7. d = b
  BY <1>3, <1>5, <1>6
<1>8. e = c
  BY <1>1, <1>3, <1>4, <1>7
<1> QED BY <1>7, <1>8 DEF d, e, a

(* A set of numbers has a least member, and a bounded one a greatest.       *)
LEMMA LeastOf ==
  ASSUME NEW S \in SUBSET Nat, S # {}
  PROVE  \E m \in S : \A x \in S : m <= x
<1> SUFFICES ASSUME ~(\E m \in S : \A x \in S : m <= x)
             PROVE  FALSE
  OBVIOUS
<1> DEFINE N == {n \in Nat : \A x \in S : n <= x}
<1>1. 0 \in N
  OBVIOUS
<1>2. ASSUME NEW n \in Nat, n \in N
      PROVE  n + 1 \in N
  <2>1. n \notin S
    BY <1>2
  <2> QED BY <1>2, <2>1
<1>3. Nat \subseteq N
  <2> HIDE DEF N
  <2> QED BY <1>1, <1>2, Induction
<1>4. PICK s : s \in S
  OBVIOUS
<1>5. s + 1 \in N
  BY <1>3, <1>4
<1> QED BY <1>4, <1>5

(* The same from above.                                                       *)
LEMMA GreatestOf ==
  ASSUME NEW n \in Nat, NEW S \in SUBSET (0 .. n), S # {}
  PROVE  \E m \in S : \A x \in S : m >= x
<1> DEFINE T == {n - x : x \in S}
<1>1. T \in SUBSET Nat /\ T # {}
  <2>1. \A x \in S : n - x \in Nat
    OBVIOUS
  <2> QED BY <2>1, Zenon
<1>2. PICK t \in T : \A y \in T : t <= y
  BY <1>1, LeastOf
<1>3. PICK m \in S : t = n - m
  OBVIOUS
<1>4. \A x \in S : n - m <= n - x
  BY <1>2, <1>3
<1> QED BY <1>4

(* FloorSqrt and CeilSqrt are the roots they are named for.                 *)
LEMMA FloorSqrtIs ==
  ASSUME NEW m \in Nat \ {0}
  PROVE  /\ FloorSqrt(m) \in Nat \ {0} /\ FloorSqrt(m) * FloorSqrt(m) <= m
         /\ m < (FloorSqrt(m) + 1) * (FloorSqrt(m) + 1)
<1> DEFINE S == {k \in 0 .. m : k * k <= m}
           F == FloorSqrt(m)
<1>1. 1 \in S
  OBVIOUS
<1>2. \E x \in S : \A y \in S : x >= y
  <2>1. S \in SUBSET (0 .. m) /\ S # {}
    BY <1>1
  <2> HIDE DEF S
  <2> QED BY <2>1, GreatestOf
<1>3. F = CHOOSE x \in S : \A y \in S : x >= y
  BY DEF FloorSqrt, Max
<1>4. F \in S /\ \A y \in S : F >= y
  <2> HIDE DEF S, F
  <2> QED BY <1>2, <1>3
<1>5. F \in 0 .. m /\ F * F <= m /\ F >= 1
  BY <1>1, <1>4
<1>6. F + 1 \notin S
  <2> HIDE DEF F
  <2> QED BY <1>4, <1>5
<1> HIDE DEF F
<1>7. F \in Nat \ {0} /\ F <= m
  BY <1>5
<1>8. m < (F + 1) * (F + 1)
  <2>1. CASE F + 1 <= m
    <3>1. F + 1 \in 0 .. m
      BY <1>7, <2>1
    <3>2. ~((F + 1) * (F + 1) <= m)
      BY <1>6, <3>1
    <3>3. (F + 1) * (F + 1) \in Nat
      BY <1>7
    <3> QED BY <3>2, <3>3
  <2>2. CASE F = m
    <3>1. (m + 1) * (m + 1) = m * m + 2 * m + 1
      OBVIOUS
    <3>2. m * m \in Nat
      OBVIOUS
    <3> QED BY <2>2, <3>1, <3>2
  <2> QED BY <1>7, <2>1, <2>2
<1> QED BY <1>5, <1>7, <1>8 DEF F

(* The root from above.                                                       *)
LEMMA CeilSqrtIs ==
  ASSUME NEW m \in Nat \ {0}
  PROVE  /\ CeilSqrt(m) \in Nat \ {0} /\ m <= CeilSqrt(m) * CeilSqrt(m)
         /\ (CeilSqrt(m) - 1) * (CeilSqrt(m) - 1) < m
<1> DEFINE S == {k \in 0 .. m : k * k >= m}
           C == CeilSqrt(m)
<1>1. m \in S
  <2>1. m * m >= m
    OBVIOUS
  <2> QED BY <2>1
<1>2. \E x \in S : \A y \in S : x <= y
  <2>1. S \in SUBSET Nat
    OBVIOUS
  <2>2. S # {}
    BY <1>1, Zenon
  <2> HIDE DEF S
  <2> QED BY <2>1, <2>2, LeastOf
<1>3. C = CHOOSE x \in S : \A y \in S : x <= y
  BY DEF CeilSqrt, Min
<1>4. C \in S /\ \A y \in S : C <= y
  <2> HIDE DEF S, C
  <2> QED BY <1>2, <1>3
<1>5. C \in 0 .. m /\ C * C >= m
  BY <1>4
<1>6. C - 1 \notin S
  <2>1. C \in Int
    BY <1>5
  <2> HIDE DEF C, S
  <2> QED BY <1>4, <2>1
<1> HIDE DEF C
<1>7. C \in Nat \ {0}
  <2>1. C # 0
    BY <1>5
  <2> QED BY <1>5, <2>1
<1>8. C - 1 \in 0 .. m
  BY <1>5, <1>7
<1>9. (C - 1) * (C - 1) < m
  <2>1. ~((C - 1) * (C - 1) >= m)
    BY <1>6, <1>8
  <2>2. (C - 1) * (C - 1) \in Int
    BY <1>8
  <2> QED BY <2>1, <2>2
<1> QED BY <1>5, <1>7, <1>9 DEF C

(* The incomplete row has no more ranks than there are rows to take them.   *)
LEMMA GridShapeIs ==
  ASSUME NEW m \in Nat \ {0}
  PROVE  /\ NumColumns(m) \in Nat \ {0}
         /\ NumRows(m) \in Nat \ {0}
         /\ SizeCompleteRectangle(m) \in Nat /\ SizeCompleteRectangle(m) <= m
         /\ m - SizeCompleteRectangle(m) \in 0 .. NumRows(m)
         /\ m - SizeCompleteRectangle(m) < NumColumns(m)
<1> DEFINE F == FloorSqrt(m)
           C == CeilSqrt(m)
           K == NumColumns(m)
           R == NumRows(m)
<1>1. F \in Nat \ {0} /\ F * F <= m /\ m < (F + 1) * (F + 1)
  BY FloorSqrtIs
<1>2. C \in Nat \ {0} /\ m <= C * C /\ (C - 1) * (C - 1) < m
  BY CeilSqrtIs
<1>3. K = IF m >= F * C THEN C ELSE F
  BY DEF NumColumns
<1>4. R = m \div K
  BY DEF NumRows
<1>5. SizeCompleteRectangle(m) = K * R
  BY DEF SizeCompleteRectangle
<1> HIDE DEF F, C, K, R
<1>6. (F + 1) * (F + 1) = F * F + F + F + 1 /\ F * F \in Nat
  BY <1>1
<1>7. C = F \/ C = F + 1
  <2>1. C >= F
    <3> SUFFICES ASSUME C <= F - 1
                 PROVE  FALSE
      BY <1>1, <1>2
    <3>1. C * C <= (F - 1) * (F - 1)
      BY <1>1, <1>2
    <3>2. (F - 1) * (F - 1) = F * F - F - F + 1
      BY <1>1
    <3>3. C * C \in Nat
      BY <1>2
    <3> QED BY <1>1, <1>2, <1>6, <3>1, <3>2, <3>3
  <2>2. C <= F + 1
    <3> SUFFICES ASSUME C - 1 >= F + 1
                 PROVE  FALSE
      BY <1>1, <1>2
    <3> DEFINE b == C - 1
    <3>1. b \in Nat /\ b >= F + 1 /\ b * b < m
      BY <1>2
    <3> HIDE DEF b
    <3>2. b * b >= (F + 1) * (F + 1)
      BY <1>1, <3>1
    <3>3. b * b \in Nat
      BY <3>1
    <3> QED BY <1>1, <1>6, <3>1, <3>2, <3>3
  <2> QED BY <1>1, <1>2, <2>1, <2>2
<1>8. \/ K = F /\ \E e \in Nat : m = F * F + e /\ e < F
      \/ K = F + 1 /\ \E e \in Nat : m = (F + 1) * F + e /\ e <= F
  <2>1. CASE C = F
    <3>1. m = F * F
      BY <1>1, <1>2, <1>6, <2>1
    <3>2. K = F
      BY <1>3, <2>1
    <3>3. m = F * F + 0
      BY <1>6, <3>1
    <3> QED BY <1>1, <3>2, <3>3
  <2>2. CASE C = F + 1
    <3>1. F * C = F * F + F
      BY <1>1, <2>2
    <3>11. (F + 1) * F = F * F + F
      BY <1>1
    <3>2. CASE m >= F * C
      <4> DEFINE e == m - (F * F + F)
      <4>1. e \in Nat /\ e <= F /\ m = (F * F + F) + e
        BY <1>1, <1>6, <3>1, <3>2
      <4> HIDE DEF e
      <4>2. K = F + 1
        BY <1>3, <2>2, <3>2
      <4> QED BY <3>11, <4>1, <4>2
    <3>3. CASE m < F * C
      <4> DEFINE e == m - F * F
      <4>1. e \in Nat /\ e < F /\ m = F * F + e
        BY <1>1, <1>6, <3>1, <3>3
      <4> HIDE DEF e
      <4>3. ~(m >= F * C)
        BY <1>1, <1>6, <3>1, <3>3
      <4>2. K = F
        BY <1>3, <4>3
      <4> QED BY <4>1, <4>2
    <3>4. F * C \in Nat
      BY <1>1, <1>2
    <3> QED BY <3>2, <3>3, <3>4
  <2> QED BY <1>7, <2>1, <2>2
<1>9. PICK e \in Nat : K \in Nat \ {0} /\ m = K * F + e /\ e < K /\ e <= F
  <2>1. CASE K = F /\ \E e \in Nat : m = F * F + e /\ e < F
    BY <1>1, <2>1
  <2>2. CASE K = F + 1 /\ \E e \in Nat : m = (F + 1) * F + e /\ e <= F
    <3>1. PICK e \in Nat : m = (F + 1) * F + e /\ e <= F
      BY <2>2
    <3>2. K \in Nat \ {0} /\ e < K
      BY <1>1, <2>2, <3>1
    <3>3. m = K * F + e
      BY <2>2, <3>1
    <3> QED BY <3>1, <3>2, <3>3
  <2> QED BY <1>8, <2>1, <2>2
<1>10. R = F
  BY <1>1, <1>4, <1>9, DivModIs
<1>11. K * F \in Nat
  BY <1>1, <1>9
<1>12. m - K * R = e
  BY <1>9, <1>10, <1>11
<1>13. K * R \in Nat /\ K * R <= m
  BY <1>9, <1>10, <1>11
<1> QED BY <1>1, <1>5, <1>9, <1>10, <1>12, <1>13 DEF K, R

--------------------------------------------------------------------------------
(* Rows and columns                                                           *)

(* The ranks of a row or column in ascending order, and the place of one.   *)
Orders(comm, S) ==
  /\ \E n \in Nat : DOMAIN comm = 1 .. n
  /\ \A i \in DOMAIN comm : comm[i] \in S /\ Cardinality(Below(S, comm[i])) = i - 1
  /\ \A s \in S : \E i \in DOMAIN comm : comm[i] = s
  /\ \A i, j \in DOMAIN comm : comm[i] = comm[j] => i = j

Place(comm, r) == CHOOSE i \in DOMAIN comm : comm[i] = r

(* Ascending gives the members of a communicator in that way.                 *)
LEMMA AscendingIs ==
  ASSUME NEW S \in SUBSET Nat, IsFiniteSet(S)
  PROVE  Orders(Ascending(S), S)
<1> DEFINE a == Ascending(S)
           n == Cardinality(S)
<1>1. /\ n \in Nat /\ DOMAIN a = 1 .. n
      /\ \A i \in 1 .. n : a[i] \in S
      /\ \A s \in S : \E i \in 1 .. n : a[i] = s
      /\ \A i, j \in 1 .. n : i < j => a[i] < a[j]
      /\ \A i \in 1 .. n : Cardinality(Below(S, a[i])) = i - 1
  BY AscendingOrders
<1> HIDE DEF a, n
<1>2. \A i, j \in 1 .. n : a[i] = a[j] => i = j
  <2> SUFFICES ASSUME NEW i \in 1 .. n, NEW j \in 1 .. n, a[i] = a[j]
               PROVE  i = j
    OBVIOUS
  <2>1. a[i] \in Nat
    BY <1>1
  <2>2. ~(i < j) /\ ~(j < i)
    BY <1>1, <2>1
  <2> QED BY <1>1, <2>2
<1>3. \E m \in Nat : DOMAIN a = 1 .. m
  BY <1>1
<1>4. \A i \in DOMAIN a : a[i] \in S /\ Cardinality(Below(S, a[i])) = i - 1
  BY <1>1
<1> QED BY <1>1, <1>2, <1>3, <1>4 DEF Orders, a

(* A member stands behind those below it.                                     *)
LEMMA PlaceIs ==
  ASSUME NEW comm, NEW S, Orders(comm, S), NEW s \in S
  PROVE  /\ Place(comm, s) \in DOMAIN comm /\ comm[Place(comm, s)] = s
         /\ Cardinality(Below(S, s)) = Place(comm, s) - 1
<1>1. \E i \in DOMAIN comm : comm[i] = s
  BY DEF Orders
<1>2. Place(comm, s) \in DOMAIN comm /\ comm[Place(comm, s)] = s
  BY <1>1 DEF Place
<1>3. Cardinality(Below(S, comm[Place(comm, s)])) = Place(comm, s) - 1
  BY <1>2 DEF Orders
<1> QED BY <1>2, <1>3

Columns == NumColumns(p)
Rectangle == SizeCompleteRectangle(p)

RowOf(r) == {s \in Rank : RowColor(p, s) = RowColor(p, r)}
ColumnOf(r) == {s \in Rank : ColColor(p, s) = ColColor(p, r)}

(* The numbers of a rank in the grid.                                       *)
LEMMA RankIs ==
  ASSUME p \in Nat \ {0}, NEW r \in Rank
  PROVE  /\ Columns \in Nat \ {0} /\ r \in Nat /\ r < p
         /\ r \div Columns \in Nat /\ r % Columns \in 0 .. Columns - 1
         /\ r = Columns * (r \div Columns) + (r % Columns)
<1>1. Columns \in Nat \ {0}
  BY GridShapeIs DEF Columns
<1>2. r \in Nat /\ r < p
  BY DEF Rank
<1> QED BY <1>1, <1>2, DivMod

(* The shape of the grid in the names used here.                              *)
LEMMA ShapeIs ==
  ASSUME p \in Nat \ {0}
  PROVE  /\ Columns \in Nat \ {0} /\ NumRows(p) \in Nat \ {0}
         /\ Rectangle = Columns * NumRows(p) /\ Rectangle \in Nat /\ Rectangle <= p
         /\ p - Rectangle \in 0 .. NumRows(p) /\ p - Rectangle < Columns
BY GridShapeIs DEF Columns, Rectangle, SizeCompleteRectangle

(* A complete rank is in the row of its number, an incomplete one in one    *)
(* of the first.                                                            *)
LEMMA RowColorIs ==
  ASSUME p \in Nat \ {0}, NEW r \in Rank
  PROVE  /\ RowColor(p, r) \in 0 .. NumRows(p) - 1
         /\ r < Rectangle => RowColor(p, r) = r \div Columns
<1> DEFINE K == Columns
           R == NumRows(p)
<1>1. /\ K \in Nat \ {0} /\ R \in Nat \ {0} /\ Rectangle = K * R /\ Rectangle \in Nat
      /\ p - Rectangle \in 0 .. R /\ p - Rectangle < K
  BY ShapeIs
<1>2. r \in Nat /\ r < p /\ r \div K \in Nat /\ r % K \in 0 .. K - 1 /\ r = K * (r \div K) + (r % K)
  BY RankIs
<1>3. RowColor(p, r) = IF r >= Rectangle THEN r % K ELSE r \div K
  BY DEF RowColor, RowIndex, Columns, Rectangle
<1> HIDE DEF K, R
<1>4. CASE r >= Rectangle
  <2> DEFINE e == r - Rectangle
  <2>1. e \in 0 .. K - 1 /\ e < R /\ r = K * R + e /\ e \in Nat
    BY <1>1, <1>2, <1>4
  <2> HIDE DEF e
  <2>2. (K * R + e) % K = e
    BY <1>1, <2>1, DivModIs
  <2>3. r % K = e
    BY <2>1, <2>2
  <2>4. RowColor(p, r) = e
    BY <1>3, <1>4, <2>3
  <2>5. RowColor(p, r) \in 0 .. R - 1
    BY <1>1, <2>1, <2>4
  <2>6. ~(r < Rectangle)
    BY <1>1, <1>2, <1>4
  <2> QED BY <2>5, <2>6 DEF R
<1>5. CASE r < Rectangle
  <2> DEFINE b == r \div K
  <2>1. b \in Nat /\ r >= K * b
    <3>1. K * b \in Nat
      BY <1>1, <1>2
    <3> QED BY <1>2, <3>1
  <2>2. RowColor(p, r) = b
    BY <1>1, <1>2, <1>3, <1>5
  <2> HIDE DEF b
  <2>3. b < R
    <3> SUFFICES ASSUME b >= R
                 PROVE  FALSE
      BY <1>1, <2>1
    <3>1. K * b >= K * R
      BY <1>1, <2>1
    <3>2. K * b \in Nat
      BY <1>1, <2>1
    <3> QED BY <1>1, <1>2, <1>5, <2>1, <3>1, <3>2
  <2>4. RowColor(p, r) \in 0 .. R - 1
    BY <1>1, <2>1, <2>2, <2>3
  <2> QED BY <2>2, <2>4 DEF b, K, R
<1> QED BY <1>1, <1>2, <1>4, <1>5

(* Every pair of ranks meets in one complete rank: it is in the row of the  *)
(* one and the column of the other.                                         *)
LEMMA MeetingIs ==
  ASSUME p \in Nat \ {0}, NEW s \in Rank, NEW d \in Rank
  PROVE  \E q \in Rank : q < Rectangle /\ RowColor(p, q) = RowColor(p, s) /\ q % Columns = d % Columns
<1> DEFINE K == Columns
           R == NumRows(p)
           b == RowColor(p, s)
           c == d % K
           q == K * b + c
<1>1. K \in Nat \ {0} /\ R \in Nat \ {0} /\ Rectangle = K * R /\ Rectangle <= p /\ Rectangle \in Nat
  BY ShapeIs
<1>2. b \in 0 .. R - 1 /\ b \in Nat
  <2>1. b \in 0 .. R - 1
    BY RowColorIs
  <2> QED BY <1>1, <2>1
<1>3. c \in 0 .. K - 1
  BY RankIs
<1> HIDE DEF K, R, b, c
<1>4. q \div K = b /\ q % K = c
  BY <1>1, <1>2, <1>3, DivModIs
<1>5. q < K * R /\ q \in Nat
  <2>1. K * (b + 1) <= K * R
    BY <1>1, <1>2
  <2>2. K * (b + 1) = K * b + K /\ K * b \in Nat
    BY <1>1, <1>2
  <2>3. K * R \in Nat
    BY <1>1
  <2> QED BY <1>1, <1>2, <1>3, <2>1, <2>2, <2>3
<1> HIDE DEF q
<1>6. q \in Rank /\ q < Rectangle
  BY <1>1, <1>5 DEF Rank
<1>7. RowColor(p, q) = q \div Columns
  BY <1>6, RowColorIs
<1> QED BY <1>4, <1>6, <1>7 DEF K, b, c

(* There is only one such rank.                                               *)
LEMMA MeetingUnique ==
  ASSUME p \in Nat \ {0}, NEW q \in Rank, NEW t \in Rank, q < Rectangle, t < Rectangle,
         RowColor(p, q) = RowColor(p, t), q % Columns = t % Columns
  PROVE  q = t
<1>1. RowColor(p, q) = q \div Columns /\ RowColor(p, t) = t \div Columns
  BY RowColorIs
<1>2. /\ q = Columns * (q \div Columns) + (q % Columns)
      /\ t = Columns * (t \div Columns) + (t % Columns)
  BY RankIs
<1> QED BY <1>1, <1>2

(* The row communicator of a rank is its row in ascending order,              *)
LEMMA RowCommIs ==
  ASSUME p \in Nat \ {0}, NEW r \in Rank
  PROVE  Orders(RowComm(p, r), RowOf(r)) /\ RowOf(r) \in SUBSET Nat /\ IsFiniteSet(RowOf(r)) /\ r \in RowOf(r)
<1>1. RowOf(r) \in SUBSET (0 .. p - 1) /\ IsFiniteSet(0 .. p - 1)
  BY FS_Interval DEF RowOf, Rank
<1>2. RowOf(r) \in SUBSET Nat /\ IsFiniteSet(RowOf(r))
  <2>1. IsFiniteSet(RowOf(r))
    BY <1>1, FS_Subset
  <2> QED BY <1>1, <2>1
<1>3. RowComm(p, r) = Ascending(RowOf(r))
  BY DEF RowComm, RowOf, Rank
<1> QED BY <1>2, <1>3, AscendingIs DEF RowOf

(* and the column communicator its column.                                    *)
LEMMA ColCommIs ==
  ASSUME p \in Nat \ {0}, NEW r \in Rank
  PROVE  Orders(ColComm(p, r), ColumnOf(r)) /\ ColumnOf(r) \in SUBSET Nat /\ IsFiniteSet(ColumnOf(r)) /\ r \in ColumnOf(r)
<1>1. ColumnOf(r) \in SUBSET (0 .. p - 1) /\ IsFiniteSet(0 .. p - 1)
  BY FS_Interval DEF ColumnOf, Rank
<1>2. ColumnOf(r) \in SUBSET Nat /\ IsFiniteSet(ColumnOf(r))
  <2>1. IsFiniteSet(ColumnOf(r))
    BY <1>1, FS_Subset
  <2> QED BY <1>1, <2>1
<1>3. ColComm(p, r) = Ascending(ColumnOf(r))
  BY DEF ColComm, ColumnOf, Rank
<1> QED BY <1>2, <1>3, AscendingIs DEF ColumnOf

(* A complete rank stands in its row where its column is,                   *)
LEMMA RowPlaceComplete ==
  ASSUME p \in Nat \ {0}, NEW r \in Rank, r < Rectangle
  PROVE  Place(RowComm(p, r), r) - 1 = r % Columns
<1> DEFINE K == Columns
           b == r \div K
           e == r % K
           B == Below(RowOf(r), r)
<1>1. K \in Nat \ {0} /\ r \in Nat /\ r < p /\ b \in Nat /\ e \in 0 .. K - 1 /\ r = K * b + e
  BY RankIs
<1>2. RowColor(p, r) = b
  BY RowColorIs
<1>3. Rectangle \in Nat /\ p \in Nat
  BY ShapeIs
<1> HIDE DEF b, e
<1>4. K * b \in Nat
  BY <1>1
<1>5. ASSUME NEW t \in B
      PROVE  t \in (K * b) .. (r - 1)
  <2>1. t \in Rank /\ RowColor(p, t) = b /\ t < r
    BY <1>2 DEF Below, RowOf
  <2>2. t < Rectangle
    BY <1>1, <1>3, <2>1 DEF Rank
  <2>3. t \div K = b
    BY <2>1, <2>2, RowColorIs
  <2>4. t = K * (t \div K) + (t % K) /\ t % K \in 0 .. K - 1 /\ t \in Nat
    BY <2>1, RankIs
  <2> DEFINE f == t % K
  <2>5. t = K * b + f /\ f \in Nat
    <3>1. t = K * b + f
      BY <2>3, <2>4
    <3>2. K - 1 \in Int
      BY <1>1
    <3> QED BY <2>4, <3>1, <3>2
  <2> HIDE DEF f, K
  <2> QED BY <1>1, <1>4, <2>1, <2>4, <2>5
<1>6. ASSUME NEW t \in (K * b) .. (r - 1)
      PROVE  t \in B
  <2> DEFINE f == t - K * b
  <2>1. f \in 0 .. K - 1 /\ t = K * b + f /\ t \in Nat /\ t < r
    <3> HIDE DEF K
    <3> QED BY <1>1, <1>4
  <2> HIDE DEF f
  <2>2. (K * b + f) \div K = b
    <3> HIDE DEF K
    <3> QED BY <1>1, <2>1, DivModIs
  <2>3. t \in Rank /\ t < Rectangle
    BY <1>1, <1>3, <2>1 DEF Rank
  <2>4. RowColor(p, t) = t \div K
    BY <2>3, RowColorIs
  <2>5. t \div K = b
    BY <2>1, <2>2
  <2> QED BY <1>2, <2>1, <2>3, <2>4, <2>5 DEF Below, RowOf
<1>7. B = (K * b) .. (r - 1)
  <2> HIDE DEF B
  <2> QED BY <1>5, <1>6
<1>8. Cardinality((K * b) .. (r - 1)) = e
  <2> DEFINE x == K * b
             y == r - 1
  <2>1. x \in Int /\ y \in Int
    BY <1>1, <1>4
  <2>2. y - x + 1 = e /\ (x > y => e = 0) /\ e \in Nat
    BY <1>1, <1>4
  <2> HIDE DEF x, y
  <2>3. Cardinality(x .. y) = IF x > y THEN 0 ELSE y - x + 1
    BY <2>1, FS_Interval
  <2>4. Cardinality(x .. y) = e
    BY <2>1, <2>2, <2>3
  <2> QED BY <2>4 DEF x, y
<1>9. Cardinality(B) = Place(RowComm(p, r), r) - 1
  BY RowCommIs, PlaceIs
<1> QED BY <1>7, <1>8, <1>9 DEF e

(* and an incomplete one behind the columns.                                *)
LEMMA RowPlaceIncomplete ==
  ASSUME p \in Nat \ {0}, NEW r \in Rank, ~(r < Rectangle)
  PROVE  Place(RowComm(p, r), r) - 1 \in Nat /\ Place(RowComm(p, r), r) - 1 >= Columns
<1> DEFINE K == Columns
           R == NumRows(p)
           b == RowColor(p, r)
           B == Below(RowOf(r), r)
           x == K * b
           y == K * b + (K - 1)
<1>1. K \in Nat \ {0} /\ R \in Nat \ {0} /\ Rectangle = K * R /\ Rectangle \in Nat /\ p \in Nat
  BY ShapeIs
<1>2. b \in 0 .. R - 1 /\ r \in Nat /\ r < p
  BY RowColorIs, RankIs
<1>3. x \in Nat /\ y \in Nat /\ y - x + 1 = K /\ ~(x > y)
  <2> HIDE DEF K, R, b
  <2>1. K * b \in Nat
    BY <1>1, <1>2
  <2> QED BY <1>1, <2>1
<1>4. y < Rectangle
  <2> HIDE DEF K, R, b
  <2>1. K * (b + 1) <= K * R
    BY <1>1, <1>2
  <2>2. K * (b + 1) = K * b + K /\ K * b \in Nat
    BY <1>1, <1>2
  <2> QED BY <1>1, <2>1, <2>2
<1>5. ASSUME NEW t \in x .. y
      PROVE  t \in B
  <2> DEFINE f == t - x
  <2>0. K * b = x /\ y = x + (K - 1)
    OBVIOUS
  <2> HIDE DEF x, y, K, R, b
  <2>1. f \in 0 .. K - 1 /\ t = K * b + f /\ t \in Nat /\ t < Rectangle /\ t < r /\ t < p
    BY <1>1, <1>2, <1>3, <1>4, <2>0
  <2> HIDE DEF f
  <2>11. b \in Nat
    BY <1>1, <1>2
  <2>2. (K * b + f) \div K = b
    BY <1>1, <2>1, <2>11, DivModIs
  <2>3. t \in Rank
    BY <1>1, <2>1 DEF Rank
  <2>4. RowColor(p, t) = t \div Columns
    BY <2>1, <2>3, RowColorIs
  <2>5. RowColor(p, t) = b
    BY <2>1, <2>2, <2>4 DEF K
  <2> QED BY <2>1, <2>3, <2>5 DEF Below, RowOf, b
<1>6. IsFiniteSet(B)
  <2>1. IsFiniteSet(RowOf(r))
    BY RowCommIs
  <2>2. B \in SUBSET RowOf(r)
    BY DEF Below
  <2> QED BY <2>1, <2>2, FS_Subset
<1>7. Cardinality(x .. y) = K
  <2>0. x \in Int /\ y \in Int
    BY <1>3
  <2> HIDE DEF x, y, K
  <2>1. Cardinality(x .. y) = IF x > y THEN 0 ELSE y - x + 1
    BY <2>0, FS_Interval
  <2> QED BY <1>3, <2>1
<1>8. Cardinality(x .. y) <= Cardinality(B) /\ Cardinality(B) \in Nat
  <2> HIDE DEF B, x, y
  <2>1. (x .. y) \in SUBSET B
    BY <1>5
  <2> QED BY <1>6, <2>1, FS_Subset, FS_CardinalityType
<1>9. Cardinality(B) = Place(RowComm(p, r), r) - 1
  BY RowCommIs, PlaceIs
<1> QED BY <1>1, <1>7, <1>8, <1>9

(* A rank stands in its column where its row is.                            *)
LEMMA ColumnPlace ==
  ASSUME p \in Nat \ {0}, NEW r \in Rank
  PROVE  Place(ColComm(p, r), r) - 1 = r \div Columns
<1> DEFINE K == Columns
           b == r \div K
           e == r % K
           B == Below(ColumnOf(r), r)
           h == [t \in B |-> t \div K]
<1>1. K \in Nat \ {0} /\ r \in Nat /\ r < p /\ b \in Nat /\ e \in 0 .. K - 1 /\ r = K * b + e
  BY RankIs
<1>2. \A t \in Rank : t \in ColumnOf(r) <=> t % K = e
  BY DEF ColumnOf, ColColor, ColIndex, Columns
<1> HIDE DEF b, e
<1>3. ASSUME NEW t \in B
      PROVE  t \div K \in 0 .. b - 1 /\ t = K * (t \div K) + e
  <2>1. t \in Rank /\ t % K = e /\ t < r
    BY <1>2 DEF Below, ColumnOf
  <2> DEFINE c == t \div K
  <2>2. t = K * c + e /\ c \in Nat
    BY <2>1, RankIs
  <2> HIDE DEF c, K
  <2>3. c < b
    <3> SUFFICES ASSUME c >= b
                 PROVE  FALSE
      BY <1>1, <2>2
    <3>1. K * c >= K * b
      BY <1>1, <2>2
    <3>2. K * c \in Nat /\ K * b \in Nat
      BY <1>1, <2>2
    <3> QED BY <1>1, <2>1, <2>2, <3>1, <3>2
  <2> QED BY <1>1, <2>2, <2>3 DEF c
<1>4. ASSUME NEW c \in 0 .. b - 1
      PROVE  \E t \in B : t \div K = c
  <2> DEFINE t == K * c + e
  <2>1. c \in Nat /\ c < b
    BY <1>1
  <2>2. t \div K = c /\ t % K = e
    BY <1>1, <2>1, DivModIs
  <2>3. t \in Nat /\ t < r
    <3> HIDE DEF K
    <3>1. K * c \in Nat /\ K * b \in Nat /\ K * (c + 1) <= K * b /\ K * (c + 1) = K * c + K
      BY <1>1, <2>1
    <3> QED BY <1>1, <3>1
  <2> HIDE DEF t
  <2>4. t \in Rank
    BY <1>1, <2>3 DEF Rank
  <2>5. t \in B
    BY <1>2, <2>2, <2>3, <2>4 DEF Below
  <2> QED BY <2>2, <2>5
<1> HIDE DEF B, K
<1>5. h \in [B -> 0 .. b - 1]
  BY <1>3
<1>6. \A t, u \in B : h[t] = h[u] => t = u
  BY <1>3
<1>7. \A c \in 0 .. b - 1 : \E t \in B : h[t] = c
  BY <1>4
<1> HIDE DEF h
<1>8. h \in Bijection(B, 0 .. b - 1)
  BY <1>5, <1>6, <1>7 DEF Bijection, Injection, Surjection, IsInjective
<1>9. IsFiniteSet(B)
  <2>1. IsFiniteSet(ColumnOf(r))
    BY ColCommIs
  <2>2. B \in SUBSET ColumnOf(r)
    BY DEF Below, B
  <2> QED BY <2>1, <2>2, FS_Subset
<1>10. Cardinality(0 .. b - 1) = Cardinality(B)
  BY <1>8, <1>9, FS_Bijection DEF ExistsBijection
<1>11. Cardinality(0 .. b - 1) = b
  <2>1. b - 1 \in Int
    BY <1>1
  <2>2. Cardinality(0 .. b - 1) = IF 0 > b - 1 THEN 0 ELSE (b - 1) - 0 + 1
    BY <2>1, FS_Interval
  <2> QED BY <1>1, <2>2
<1>12. Cardinality(B) = Place(ColComm(p, r), r) - 1
  BY ColCommIs, PlaceIs DEF B
<1> QED BY <1>10, <1>11, <1>12 DEF b, K

--------------------------------------------------------------------------------
(* The two hops                                                               *)

(* A sequence of entries of a kind with these elements.                     *)
Bundle(e, V, W) == e \in Seq(V) /\ Carries(e, W)

(* send_counts of a call *)
Counted(k) == k \in Nat /\ \A s, d \in Rank : Count(pattern, k, s, d) \in Nat

(* The destinations of the n-th rank of a row, and of the n-th rank of a    *)
(* column by rank r.                                                        *)
InColumn(n) == {d \in Rank : d % Columns = n - 1}
Dest(r, n) == {d \in InColumn(Place(RowComm(p, r), r)) : d \div Columns = n - 1}

(* Nothing carries nothing.                                                   *)
LEMMA NoneCarries == \A V : Bundle(<<>>, V, {})
<1> SUFFICES ASSUME NEW V
             PROVE  Bundle(<<>>, V, {})
  OBVIOUS
<1>1. <<>> \in Seq(V) /\ 1 .. Len(<<>>) = {}
  OBVIOUS
<1> QED BY <1>1 DEF Bundle, Carries

Listed(f, n) == f = [i \in 1 .. n |-> f[i]]

(* Sequences with elements of different ends, one behind the other.           *)
LEMMA ConcatBundles ==
  ASSUME NEW n \in Nat, NEW V, NEW f, Listed(f, n), NEW W,
         \A i \in 1 .. n : Bundle(f[i], V, W[i]),
         \A i, k \in 1 .. n : i # k => Apart(W[i], W[k])
  PROVE  Bundle(Concat(f), V, Together(W, 1 .. n))
<1>1. \A i \in 1 .. n : f[i] \in Seq(V) /\ Carries(f[i], W[i])
  BY DEF Bundle
<1>2. f \in [1 .. n -> Seq(V)]
  BY <1>1, Zenon DEF Listed
<1>3. Concat(f) \in Seq(V) /\ Carries(Concat(f), Together(W, 1 .. n))
  BY <1>1, <1>2, ConcatCarries
<1> QED BY <1>3 DEF Bundle

(* Elements with different sources, or different destinations, have           *)
(* different ends.                                                            *)
LEMMA ElementsApart ==
  ASSUME NEW k, NEW S, NEW D, NEW T, NEW E, S \cap T = {} \/ D \cap E = {}
  PROVE  Apart(Elements(k, S, D), Elements(k, T, E))
BY DEF Apart, Elements

(* rowwise_exchange sends everything to the column of its destination.      *)
LEMMA RowSendCarries ==
  ASSUME p \in Nat \ {0}, NEW k, Counted(k), NEW r \in Rank, NEW i \in DOMAIN row[r]
  PROVE  Bundle(RowSendBuf(k, r)[i], RowEntry, Elements(k, {r}, InColumn(i)))
<1> DEFINE m(d) == [j \in 1 .. Count(pattern, k, r, d) |->
                     [payload |-> Payloads(k, r, d)[j], source |-> r, destination |-> d]]
           g == [d \in Rank |-> IF RowDestination(d) # i - 1 THEN <<>> ELSE m(d)]
           f == PerRank(g)
           w(d) == IF d % Columns # i - 1 THEN {} ELSE Elements(k, {r}, {d})
           W == [x \in 1 .. p |-> w(x - 1)]
<1>1. ASSUME NEW d \in Rank
      PROVE  Bundle(g[d], RowEntry, w(d))
  <2>1. g[d] = IF d % Columns # i - 1 THEN <<>> ELSE m(d)
    BY DEF RowDestination, Columns
  <2>2. m(d) \in Seq(RowEntry) /\ Carries(m(d), Elements(k, {r}, {d}))
    <3>1. k \in Nat /\ r \in Nat /\ d \in Nat /\ Count(pattern, k, r, d) \in Nat
      BY DEF Counted, Rank
    <3> QED BY <3>1, MessageCarries
  <2> HIDE DEF m, g
  <2> QED BY <2>1, <2>2, NoneCarries DEF Bundle
<1>2. \A x \in 1 .. p : x - 1 \in Rank
  BY DEF Rank
<1>3. \A x \in 1 .. p : f[x] = g[x - 1] /\ W[x] = w(x - 1)
  BY DEF PerRank
<1>4. Listed(f, p)
  BY DEF PerRank, Listed
<1>41. W = [x \in 1 .. p |-> W[x]]
  OBVIOUS
<1> HIDE DEF g, f, W
<1>5. \A x \in 1 .. p : Bundle(f[x], RowEntry, W[x])
  <2> HIDE DEF w
  <2> QED BY <1>1, <1>2, <1>3
<1>6. ASSUME NEW x \in 1 .. p, NEW y \in 1 .. p, x # y
      PROVE  Apart(W[x], W[y])
  <2>1. {x - 1} \cap {y - 1} = {}
    BY <1>6
  <2>2. Apart(Elements(k, {r}, {x - 1}), Elements(k, {r}, {y - 1}))
    BY <2>1, ElementsApart
  <2>3. W[x] \in {{}, Elements(k, {r}, {x - 1})} /\ W[y] \in {{}, Elements(k, {r}, {y - 1})}
    BY <1>3
  <2>4. \A A : Apart({}, A) /\ Apart(A, {})
    BY DEF Apart
  <2> QED BY <2>2, <2>3, <2>4, Zenon
<1>7. Bundle(Concat(f), RowEntry, Together(W, 1 .. p))
  BY <1>4, <1>5, <1>6, ConcatBundles
<1>8. Together(W, 1 .. p) = Elements(k, {r}, InColumn(i))
  <2>1. ASSUME NEW x \in 1 .. p, NEW v \in W[x]
        PROVE  v \in Elements(k, {r}, InColumn(i))
    <3>1. (x - 1) % Columns = i - 1 /\ v \in Elements(k, {r}, {x - 1})
      BY <1>3, <2>1
    <3>2. x - 1 \in InColumn(i)
      BY <1>2, <3>1 DEF InColumn
    <3> QED BY <3>1, <3>2 DEF Elements
  <2>2. ASSUME NEW v \in Elements(k, {r}, InColumn(i))
        PROVE  \E x \in 1 .. p : v \in W[x]
    <3> DEFINE d == v[3]
    <3>1. d \in Rank /\ d % Columns = i - 1 /\ v \in Elements(k, {r}, {d})
      BY <2>2 DEF Elements, InColumn
    <3>2. d + 1 \in 1 .. p /\ (d + 1) - 1 = d
      BY <3>1 DEF Rank
    <3> HIDE DEF d
    <3>3. W[d + 1] = w(d)
      BY <1>3, <3>2
    <3> QED BY <3>1, <3>2, <3>3
  <2> HIDE DEF w
  <2> QED BY <2>1, <2>2 DEF Together
<1>9. RowSendBuf(k, r)[i] = Concat(f)
  BY DEF RowSendBuf, f, g
<1> QED BY <1>7, <1>8, <1>9

(* What comes out of an exchange when every member has sent its part.       *)
LEMMA ReceivedCarries ==
  ASSUME NEW comm, NEW S, Orders(comm, S), NEW r, NEW sent, NEW n, NEW V, NEW w,
         \A s \in S : Bundle(sent[s][n][Place(comm, r)], V, w[s]),
         \A s, t \in S : s # t => Apart(w[s], w[t])
  PROVE  Bundle(Received(sent, comm, n, r), V, Together(w, S))
<1> DEFINE f == [i \in DOMAIN comm |-> sent[comm[i]][n][Place(comm, r)]]
           W == [i \in DOMAIN comm |-> w[comm[i]]]
<1>1. PICK m \in Nat : DOMAIN comm = 1 .. m
  BY DEF Orders
<1>2. \A i \in 1 .. m : comm[i] \in S
  BY <1>1 DEF Orders
<1>3. \A i, j \in 1 .. m : i # j => comm[i] # comm[j]
  BY <1>1 DEF Orders
<1>4. \A s \in S : \E i \in 1 .. m : comm[i] = s
  BY <1>1 DEF Orders
<1>5. \A i \in 1 .. m : f[i] = sent[comm[i]][n][Place(comm, r)] /\ W[i] = w[comm[i]]
  BY <1>1
<1>6. Listed(f, m)
  BY <1>1 DEF Listed
<1>7. Received(sent, comm, n, r) = Concat(f)
  BY DEF Received, Place
<1> HIDE DEF f, W
<1>8. \A i \in 1 .. m : Bundle(f[i], V, W[i])
  BY <1>2, <1>5
<1>9. \A i, j \in 1 .. m : i # j => Apart(W[i], W[j])
  BY <1>2, <1>3, <1>5
<1>10. Bundle(Concat(f), V, Together(W, 1 .. m))
  BY <1>6, <1>8, <1>9, ConcatBundles
<1>11. Together(W, 1 .. m) = Together(w, S)
  <2>1. \A i \in 1 .. m : W[i] = w[comm[i]] /\ comm[i] \in S
    BY <1>2, <1>5
  <2> QED BY <2>1, <1>4 DEF Together
<1> QED BY <1>7, <1>10, <1>11

(* A rank gets from its row what the row has for its column, an incomplete  *)
(* one nothing.                                                             *)
LEMMA RowReceived ==
  ASSUME p \in Nat \ {0}, NEW k, NEW r \in Rank, NEW sent, NEW n,
         \A s \in RowOf(r) : \A i \in DOMAIN RowComm(p, r) :
           Bundle(sent[s][n][i], RowEntry, Elements(k, {s}, InColumn(i)))
  PROVE  Bundle(Received(sent, RowComm(p, r), n, r), RowEntry,
                Elements(k, RowOf(r), InColumn(Place(RowComm(p, r), r))))
<1> DEFINE comm == RowComm(p, r)
           S == RowOf(r)
           me == Place(comm, r)
           D == InColumn(me)
           w == [s \in S |-> Elements(k, {s}, D)]
<1>1. Orders(comm, S) /\ r \in S
  BY RowCommIs
<1>2. me \in DOMAIN comm
  BY <1>1, PlaceIs
<1>21. \A s \in S : Bundle(sent[s][n][me], RowEntry, Elements(k, {s}, D))
  BY <1>2
<1> HIDE DEF comm, S, me, D
<1>3. \A s \in S : w[s] = Elements(k, {s}, D)
  OBVIOUS
<1> HIDE DEF w
<1>4. \A s \in S : Bundle(sent[s][n][Place(comm, r)], RowEntry, w[s])
  BY <1>21, <1>3 DEF me
<1>5. ASSUME NEW s \in S, NEW t \in S, s # t
      PROVE  Apart(w[s], w[t])
  <2>1. {s} \cap {t} = {}
    BY <1>5
  <2>2. Apart(Elements(k, {s}, D), Elements(k, {t}, D))
    BY <2>1, ElementsApart
  <2> QED BY <1>3, <2>2
<1>6. Bundle(Received(sent, comm, n, r), RowEntry, Together(w, S))
  BY <1>1, <1>4, <1>5, ReceivedCarries
<1>7. Together(w, S) = Elements(k, S, D)
  BY <1>3 DEF Elements, Together
<1> QED BY <1>6, <1>7 DEF comm, S, me, D

(* columnwise_exchange sends it on to the row of its destination.           *)
LEMMA ColSendCarries ==
  ASSUME p \in Nat \ {0}, NEW k, NEW r \in Rank, NEW e, NEW i \in DOMAIN col[r],
         Bundle(e, RowEntry, Elements(k, RowOf(r), InColumn(Place(RowComm(p, r), r))))
  PROVE  Bundle(ColSendBuf(r, e)[i], ColEntry, Elements(k, RowOf(r), Dest(r, i)))
<1> DEFINE W == Elements(k, RowOf(r), InColumn(Place(RowComm(p, r), r)))
           here == Ascending({j \in DOMAIN e : ColDestination(e[j].destination) = i - 1})
           g == [j \in DOMAIN here |-> [payload |-> e[here[j]].payload, source |-> e[here[j]].source]]
<1>1. ColSendBuf(r, e)[i] = g
  BY DEF ColSendBuf
<1>2. e \in Seq(RowEntry) /\ Carries(e, W)
  BY DEF Bundle
<1>3. g \in Seq(ColEntry) /\ Carries(g, {v \in W : ColDestination(v[3]) = i - 1})
  <2> HIDE DEF W
  <2> QED BY <1>2, SelectCarries
<1>4. {v \in W : ColDestination(v[3]) = i - 1} = Elements(k, RowOf(r), Dest(r, i))
  BY DEF Elements, Dest, ColDestination, Columns
<1> HIDE DEF g, W
<1> QED BY <1>1, <1>3, <1>4 DEF Bundle

(* What a rank gets from its column: from the complete ranks in it all that *)
(* their rows have for it, from the others nothing.                         *)
LEMMA DestIs ==
  ASSUME p \in Nat \ {0}, NEW d \in Rank, NEW t \in ColumnOf(d)
  PROVE  /\ t \in Rank
         /\ t < Rectangle => Dest(t, Place(ColComm(p, d), d)) = {d}
         /\ ~(t < Rectangle) => Dest(t, Place(ColComm(p, d), d)) = {}
<1> DEFINE K == Columns
           me == Place(ColComm(p, d), d)
           pl == Place(RowComm(p, t), t)
<1>1. t \in Rank /\ t % K = d % K
  BY DEF ColumnOf, ColColor, ColIndex, Columns
<1>2. me - 1 = d \div K
  BY ColumnPlace
<1>3. Dest(t, me) = {x \in Rank : x % K = pl - 1 /\ x \div K = d \div K}
  BY <1>2 DEF Dest, InColumn
<1>4. CASE t < Rectangle
  <2>1. pl - 1 = d % K
    BY <1>1, <1>4, RowPlaceComplete
  <2>2. ASSUME NEW x \in Rank, x % K = d % K, x \div K = d \div K
        PROVE  x = d
    <3>1. x = K * (x \div K) + (x % K) /\ d = K * (d \div K) + (d % K)
      BY RankIs
    <3> QED BY <2>2, <3>1
  <2>3. Dest(t, me) = {d}
    BY <1>3, <2>1, <2>2
  <2> QED BY <1>1, <1>4, <2>3
<1>5. CASE ~(t < Rectangle)
  <2>1. pl - 1 \in Nat /\ pl - 1 >= K
    BY <1>1, <1>5, RowPlaceIncomplete
  <2>2. \A x \in Rank : x % K \in 0 .. K - 1 /\ K \in Nat \ {0}
    BY RankIs
  <2>3. \A x \in Rank : x % K # pl - 1
    <3> HIDE DEF pl, K
    <3> QED BY <2>1, <2>2
  <2>4. Dest(t, me) = {}
    BY <1>3, <2>3
  <2> QED BY <1>1, <1>5, <2>4
<1> QED BY <1>4, <1>5

(* Together these are all the elements for the rank, each once.               *)
LEMMA ColumnReceived ==
  ASSUME p \in Nat \ {0}, NEW k, NEW d \in Rank, NEW sent, NEW n,
         \A t \in ColumnOf(d) : \A i \in DOMAIN ColComm(p, d) :
           Bundle(sent[t][n][i], ColEntry, Elements(k, RowOf(t), Dest(t, i)))
  PROVE  Bundle(Received(sent, ColComm(p, d), n, d), ColEntry, Elements(k, Rank, {d}))
<1> DEFINE comm == ColComm(p, d)
           S == ColumnOf(d)
           me == Place(comm, d)
           w == [t \in S |-> Elements(k, RowOf(t), Dest(t, me))]
<1>1. Orders(comm, S) /\ d \in S
  BY ColCommIs
<1>2. me \in DOMAIN comm
  BY <1>1, PlaceIs
<1>21. \A t \in S : Bundle(sent[t][n][me], ColEntry, Elements(k, RowOf(t), Dest(t, me)))
  BY <1>2
<1>3. \A t \in S : w[t] = Elements(k, RowOf(t), Dest(t, me))
  OBVIOUS
<1>31. \A t \in S : /\ t \in Rank /\ t % Columns = d % Columns
                    /\ t < Rectangle => Dest(t, me) = {d}
                    /\ ~(t < Rectangle) => Dest(t, me) = {}
  <2> SUFFICES ASSUME NEW t \in S
               PROVE  /\ t \in Rank /\ t % Columns = d % Columns
                      /\ t < Rectangle => Dest(t, me) = {d}
                      /\ ~(t < Rectangle) => Dest(t, me) = {}
    OBVIOUS
  <2>1. t % Columns = d % Columns
    BY DEF ColumnOf, ColColor, ColIndex, Columns
  <2> QED BY <2>1, DestIs
<1>32. \A t \in Rank : t % Columns = d % Columns => t \in S
  BY DEF ColumnOf, ColColor, ColIndex, Columns
<1> HIDE DEF comm, S, me
<1> HIDE DEF w
<1>4. \A t \in S : Bundle(sent[t][n][Place(comm, d)], ColEntry, w[t])
  BY <1>21, <1>3 DEF me
<1>5. ASSUME NEW s \in S, NEW t \in S, s # t
      PROVE  Apart(w[s], w[t])
  <2>1. CASE s < Rectangle /\ t < Rectangle
    <3>1. RowColor(p, s) # RowColor(p, t)
      BY <1>5, <1>31, <2>1, MeetingUnique
    <3>2. RowOf(s) \cap RowOf(t) = {}
      BY <3>1 DEF RowOf
    <3> QED BY <1>3, <3>2, ElementsApart
  <2>2. CASE ~(s < Rectangle) \/ ~(t < Rectangle)
    <3>1. Dest(s, me) \cap Dest(t, me) = {}
      BY <1>31, <2>2
    <3> QED BY <1>3, <3>1, ElementsApart
  <2> QED BY <2>1, <2>2
<1>6. Bundle(Received(sent, comm, n, d), ColEntry, Together(w, S))
  BY <1>1, <1>4, <1>5, ReceivedCarries
<1>7. Together(w, S) = Elements(k, Rank, {d})
  <2>1. ASSUME NEW t \in S, NEW v \in w[t]
        PROVE  v \in Elements(k, Rank, {d})
    <3>1. v \in Elements(k, RowOf(t), Dest(t, me))
      BY <1>3
    <3>2. Dest(t, me) \subseteq {d} /\ RowOf(t) \subseteq Rank
      BY <1>31 DEF RowOf
    <3> QED BY <3>1, <3>2 DEF Elements
  <2>2. ASSUME NEW v \in Elements(k, Rank, {d})
        PROVE  \E t \in S : v \in w[t]
    <3>1. v[2] \in Rank
      BY DEF Elements
    <3> DEFINE s == v[2]
    <3>2. s \in Rank
      BY <3>1
    <3> HIDE DEF s
    <3>3. PICK q \in Rank : q < Rectangle /\ RowColor(p, q) = RowColor(p, s) /\ q % Columns = d % Columns
      BY <3>2, MeetingIs
    <3>4. q \in S /\ Dest(q, me) = {d}
      BY <1>31, <1>32, <3>3
    <3>5. s \in RowOf(q)
      BY <3>2, <3>3 DEF RowOf
    <3>6. v \in Elements(k, RowOf(q), {d})
      BY <3>5 DEF Elements, s
    <3> QED BY <1>3, <3>4, <3>6
  <2> QED BY <2>1, <2>2 DEF Together
<1> QED BY <1>6, <1>7 DEF comm

--------------------------------------------------------------------------------
(* What ranks have sent and returned                                          *)

(* The exchanges over the grid up to a call.                                *)
Exchanges(k) == Cardinality({i \in 1 .. k : UseGrid(0, i)})

(* What a rank sends in the exchange of a call along its row, and along its *)
(* column; what the call returns.                                           *)
RowSentFor(v, k, r) ==
  \A i \in DOMAIN RowComm(p, r) : Bundle(v[i], RowEntry, Elements(k, {r}, InColumn(i)))
ColSentFor(v, k, r) ==
  \A i \in DOMAIN ColComm(p, r) : Bundle(v[i], ColEntry, Elements(k, RowOf(r), Dest(r, i)))

Promised(k, r) ==
  LET counts == [s \in Rank |-> Count(pattern, k, s, r)] IN
  [buf    |-> Concat(PerRank([s \in Rank |-> Payloads(k, s, r)])),
   counts |-> counts,
   displs |-> ExclusiveScan(counts)]

(* What a rank has sent and returned so far.                                *)
Sends(sent, r) ==
  \A k \in 1 .. MaxCalls(p) :
    UseGrid(0, k) /\ Exchanges(k) <= Len(sent) => RowSentFor(sent[Exchanges(k)], k, r)
Forwards(sent, r) ==
  \A k \in 1 .. MaxCalls(p) :
    UseGrid(0, k) /\ Exchanges(k) <= Len(sent) => ColSentFor(sent[Exchanges(k)], k, r)
Returns(res, r) == \A k \in 1 .. Len(res) : res[k] = Promised(k, r)

Return == [buf : Seq(Word), counts : [Rank -> Nat], displs : [Rank -> Nat]]

RowSends == Seq(Seq(RowEntry))
ColSends == Seq(Seq(ColEntry))

Outside == {"idle", "user row", "user column"}
Deciding == {"allreduce", "split row", "split column"}

DataTypes ==
  /\ p \in Sizes /\ pattern \in Patterns
  /\ pc \in [Rank -> Label]
  /\ calls \in [Rank -> 0 .. MaxCalls(p)]
  /\ DOMAIN row = Rank /\ DOMAIN col = Rank
  /\ rowSent \in [Rank -> Seq(RowSends)]
  /\ colSent \in [Rank -> Seq(ColSends)]
  /\ result \in [Rank -> Seq(Return)]

(* Where a rank is in its program, and what it has of the grid.             *)
Whereabouts(r) ==
  /\ col[r] \in {<<>>, ColComm(p, r)}
  /\ col[r] # <<>> \/ pc[r] \in {"split column", "user column"} => row[r] = RowComm(p, r)
  /\ pc[r] \in {"row", "col"} => col[r] # <<>>
  /\ pc[r] \notin Outside => calls[r] # 0
  /\ pc[r] \in {"split row", "split column", "row", "col"} => UseGrid(0, calls[r])
  /\ pc[r] = "alltoallv" => ~UseGrid(0, calls[r])

(* How far it has come at a place in call c, when there are x exchanges     *)
(* over the grid up to this call, and y up to the one before.               *)
ProgressAt(place, c, x, y, inRow, inColumn, returned) ==
  /\ inRow = (IF place \in Deciding THEN y ELSE x)
  /\ inColumn = (IF place \in Deciding \cup {"row"} THEN y ELSE x)
  /\ returned = (IF place \in Outside THEN c ELSE c - 1)

Progress(r) ==
  ProgressAt(pc[r], calls[r], Exchanges(calls[r]), Exchanges(calls[r] - 1),
             Len(rowSent[r]), Len(colSent[r]), Len(result[r]))

RankInv(r) ==
  /\ Whereabouts(r)
  /\ Progress(r)
  /\ Sends(rowSent[r], r) /\ Forwards(colSent[r], r) /\ Returns(result[r], r)

DataInv == DataTypes /\ \A r \in Rank : RankInv(r)

(* IsAlltoallv in the terms of the invariant.                                 *)
LEMMA IsPromise == DataTypes => (IsAlltoallv <=> \A r \in Rank : Returns(result[r], r))
<1> SUFFICES ASSUME DataTypes
             PROVE  IsAlltoallv <=> \A r \in Rank : Returns(result[r], r)
  OBVIOUS
<1>1. \A r \in Rank : DOMAIN result[r] = 1 .. Len(result[r])
  BY DEF DataTypes
<1>2. IsAlltoallv <=> \A r \in Rank : \A k \in DOMAIN result[r] : result[r][k] = Promised(k, r)
  BY DEF IsAlltoallv, Promised
<1> QED BY <1>1, <1>2 DEF Returns

(* What the assumptions say of a behaviour.                                   *)
LEMMA ParametersHold ==
  ASSUME DataTypes
  PROVE  /\ p \in Nat \ {0} /\ MaxCalls(p) \in Nat
         /\ \A k \in 1 .. MaxCalls(p) : Counted(k)
<1>1. p \in Nat \ {0} /\ MaxCalls(p) \in Nat
  BY SizesAssumption, MaxCallsAssumption DEF DataTypes
<1>2. \A k \in 1 .. MaxCalls(p) : \A s, d \in Rank : Count(pattern, k, s, d) \in Nat
  BY CountAssumption DEF DataTypes, Rank
<1>3. \A k \in 1 .. MaxCalls(p) : k \in Nat
  BY <1>1
<1> QED BY <1>1, <1>2, <1>3 DEF Counted

(* An exchange more for a call over the grid, and none for another.         *)
LEMMA ExchangesStep ==
  ASSUME NEW k \in Nat
  PROVE  /\ Exchanges(k) \in Nat
         /\ k # 0 => Exchanges(k) = Exchanges(k - 1) + (IF UseGrid(0, k) THEN 1 ELSE 0)
<1> DEFINE G(n) == {i \in 1 .. n : UseGrid(0, i)}
<1>1. \A n \in Nat : IsFiniteSet(G(n)) /\ Cardinality(G(n)) \in Nat
  <2> SUFFICES ASSUME NEW n \in Nat
               PROVE  IsFiniteSet(G(n)) /\ Cardinality(G(n)) \in Nat
    OBVIOUS
  <2>1. IsFiniteSet(1 .. n)
    BY FS_Interval
  <2>2. G(n) \in SUBSET (1 .. n)
    OBVIOUS
  <2> QED BY <2>1, <2>2, FS_Subset, FS_CardinalityType
<1>2. ASSUME k # 0
      PROVE  Exchanges(k) = Exchanges(k - 1) + (IF UseGrid(0, k) THEN 1 ELSE 0)
  <2>1. k - 1 \in Nat
    BY <1>2
  <2>2. IsFiniteSet(G(k - 1)) /\ Cardinality(G(k - 1)) \in Nat
    BY <1>1, <2>1
  <2>3. k \notin G(k - 1)
    OBVIOUS
  <2>4. G(k) = IF UseGrid(0, k) THEN G(k - 1) \cup {k} ELSE G(k - 1)
    BY <1>2
  <2>5. Cardinality(G(k - 1) \cup {k}) = Cardinality(G(k - 1)) + 1
    BY <2>2, <2>3, FS_AddElement
  <2>6. Exchanges(k) = Cardinality(G(k)) /\ Exchanges(k - 1) = Cardinality(G(k - 1))
    BY DEF Exchanges
  <2> HIDE DEF G
  <2> QED BY <2>2, <2>4, <2>5, <2>6
<1> QED BY <1>1, <1>2 DEF Exchanges

(* Each exchange is that of one call.                                       *)
LEMMA ExchangesUnique ==
  ASSUME NEW k \in Nat, NEW l \in Nat, k # 0, l # 0, UseGrid(0, k), UseGrid(0, l), Exchanges(k) = Exchanges(l)
  PROVE  k = l
<1>1. ASSUME NEW a \in Nat, NEW b \in Nat, a < b, UseGrid(0, b)
      PROVE  Exchanges(a) < Exchanges(b)
  <2>1. b - 1 \in Nat
    BY <1>1
  <2>2. Exchanges(b) = Exchanges(b - 1) + 1 /\ Exchanges(b - 1) \in Nat /\ Exchanges(a) \in Nat
    BY <1>1, <2>1, ExchangesStep
  <2>3. Exchanges(a) <= Exchanges(b - 1)
    <3> DEFINE A == {i \in 1 .. a : UseGrid(0, i)}
               B == {i \in 1 .. b - 1 : UseGrid(0, i)}
    <3>1. A \in SUBSET B
      BY <1>1
    <3>2. IsFiniteSet(1 .. b - 1)
      BY <2>1, FS_Interval
    <3>3. B \in SUBSET (1 .. b - 1)
      OBVIOUS
    <3> HIDE DEF A, B
    <3>4. IsFiniteSet(B)
      BY <3>2, <3>3, FS_Subset
    <3>5. Cardinality(A) <= Cardinality(B)
      BY <3>1, <3>4, FS_Subset
    <3> QED BY <3>5 DEF A, B, Exchanges
  <2> QED BY <2>2, <2>3
<1>2. Exchanges(k) \in Nat
  BY ExchangesStep
<1>3. ~(k < l) /\ ~(l < k)
  BY <1>1, <1>2
<1> QED BY <1>3

(* Only the behaviour's parameters count.                                   *)
LEMMA Stable ==
  ASSUME UNCHANGED <<p, pattern, threshold>>
  PROVE  /\ Rank' = Rank /\ Return' = Return
         /\ \A k : (UseGrid(0, k)' <=> UseGrid(0, k)) /\ Exchanges(k)' = Exchanges(k)
         /\ \A v, r : Sends(v, r)' <=> Sends(v, r)
         /\ \A v, r : Forwards(v, r)' <=> Forwards(v, r)
         /\ \A v, r : Returns(v, r)' <=> Returns(v, r)
<1>1. p' = p /\ pattern' = pattern /\ threshold' = threshold
  OBVIOUS
<1>2. Rank' = Rank
  BY <1>1 DEF Rank
<1>3. Return' = Return
  BY <1>2 DEF Return
<1>4. \A k : UseGrid(0, k)' <=> UseGrid(0, k)
  BY <1>1, <1>2 DEF UseGrid, MaxBottleneckSendVolume, Volume
<1>5. \A k : Exchanges(k)' = Exchanges(k)
  BY <1>4 DEF Exchanges
<1>6. Columns' = Columns
  BY <1>1 DEF Columns
<1>7. \A i : InColumn(i)' = InColumn(i)
  BY <1>2, <1>6 DEF InColumn
<1>8. \A r : RowOf(r)' = RowOf(r)
  BY <1>1, <1>2 DEF RowOf
<1>9. \A r, i : Dest(r, i)' = Dest(r, i)
  BY <1>1, <1>6, <1>7 DEF Dest
<1>10. \A k, S, D : Elements(k, S, D)' = Elements(k, S, D)
  BY <1>1 DEF Elements
<1>11. \A v, k, r : RowSentFor(v, k, r)' <=> RowSentFor(v, k, r)
  BY <1>1, <1>7, <1>10 DEF RowSentFor
<1>12. \A v, k, r : ColSentFor(v, k, r)' <=> ColSentFor(v, k, r)
  BY <1>1, <1>8, <1>9, <1>10 DEF ColSentFor
<1>13. \A k, r : Promised(k, r)' = Promised(k, r)
  BY <1>1, <1>2 DEF Promised, Payloads, PerRank
<1>14. \A v, r : Sends(v, r)' <=> Sends(v, r)
  BY <1>1, <1>4, <1>5, <1>11 DEF Sends
<1>15. \A v, r : Forwards(v, r)' <=> Forwards(v, r)
  BY <1>1, <1>4, <1>5, <1>12 DEF Forwards
<1>16. \A v, r : Returns(v, r)' <=> Returns(v, r)
  BY <1>13 DEF Returns
<1> QED BY <1>2, <1>3, <1>4, <1>5, <1>14, <1>15, <1>16

--------------------------------------------------------------------------------
(* What an exchange adds                                                      *)

(* What the next exchange adds.                                             *)
LEMMA SendsMore ==
  ASSUME MaxCalls(p) \in Nat, NEW A, NEW sent \in Seq(A), NEW v \in A, NEW r, NEW c \in 1 .. MaxCalls(p),
         UseGrid(0, c), Exchanges(c) = Len(sent) + 1, Sends(sent, r), RowSentFor(v, c, r)
  PROVE  Sends(Append(sent, v), r)
<1> SUFFICES ASSUME NEW k \in 1 .. MaxCalls(p), UseGrid(0, k), Exchanges(k) <= Len(Append(sent, v))
             PROVE  RowSentFor(Append(sent, v)[Exchanges(k)], k, r)
  BY DEF Sends
<1>1. /\ Len(Append(sent, v)) = Len(sent) + 1 /\ Append(sent, v)[Len(sent) + 1] = v
      /\ \A i \in 1 .. Len(sent) : Append(sent, v)[i] = sent[i]
  BY AppendProperties
<1>2. k \in Nat /\ k # 0 /\ c \in Nat /\ c # 0 /\ Len(sent) \in Nat
  OBVIOUS
<1>3. Exchanges(k) \in Nat /\ Exchanges(k) = Exchanges(k - 1) + 1 /\ Exchanges(k - 1) \in Nat
  <2>1. k - 1 \in Nat
    BY <1>2
  <2> QED BY <1>2, <2>1, ExchangesStep
<1>4. CASE Exchanges(k) <= Len(sent)
  <2>1. RowSentFor(sent[Exchanges(k)], k, r)
    BY <1>4 DEF Sends
  <2>2. Exchanges(k) \in 1 .. Len(sent)
    BY <1>2, <1>3, <1>4
  <2> QED BY <1>1, <2>1, <2>2
<1>5. CASE Exchanges(k) = Len(sent) + 1
  <2>1. k = c
    BY <1>2, <1>5, ExchangesUnique
  <2> QED BY <1>1, <1>5, <2>1
<1> QED BY <1>1, <1>2, <1>3, <1>4, <1>5

(* The same along the column.                                                 *)
LEMMA ForwardsMore ==
  ASSUME MaxCalls(p) \in Nat, NEW A, NEW sent \in Seq(A), NEW v \in A, NEW r, NEW c \in 1 .. MaxCalls(p),
         UseGrid(0, c), Exchanges(c) = Len(sent) + 1, Forwards(sent, r), ColSentFor(v, c, r)
  PROVE  Forwards(Append(sent, v), r)
<1> SUFFICES ASSUME NEW k \in 1 .. MaxCalls(p), UseGrid(0, k), Exchanges(k) <= Len(Append(sent, v))
             PROVE  ColSentFor(Append(sent, v)[Exchanges(k)], k, r)
  BY DEF Forwards
<1>1. /\ Len(Append(sent, v)) = Len(sent) + 1 /\ Append(sent, v)[Len(sent) + 1] = v
      /\ \A i \in 1 .. Len(sent) : Append(sent, v)[i] = sent[i]
  BY AppendProperties
<1>2. k \in Nat /\ k # 0 /\ c \in Nat /\ c # 0 /\ Len(sent) \in Nat
  OBVIOUS
<1>3. Exchanges(k) \in Nat /\ Exchanges(k) = Exchanges(k - 1) + 1 /\ Exchanges(k - 1) \in Nat
  <2>1. k - 1 \in Nat
    BY <1>2
  <2> QED BY <1>2, <2>1, ExchangesStep
<1>4. CASE Exchanges(k) <= Len(sent)
  <2>1. ColSentFor(sent[Exchanges(k)], k, r)
    BY <1>4 DEF Forwards
  <2>2. Exchanges(k) \in 1 .. Len(sent)
    BY <1>2, <1>3, <1>4
  <2> QED BY <1>1, <2>1, <2>2
<1>5. CASE Exchanges(k) = Len(sent) + 1
  <2>1. k = c
    BY <1>2, <1>5, ExchangesUnique
  <2> QED BY <1>1, <1>5, <2>1
<1> QED BY <1>1, <1>2, <1>3, <1>4, <1>5

(* One result more.                                                           *)
LEMMA ReturnsMore ==
  ASSUME NEW A, NEW res \in Seq(A), NEW v \in A, NEW r, NEW c, c = Len(res) + 1, Returns(res, r), v = Promised(c, r)
  PROVE  Returns(Append(res, v), r)
<1>1. /\ Len(Append(res, v)) = Len(res) + 1 /\ Append(res, v)[Len(res) + 1] = v
      /\ \A i \in 1 .. Len(res) : Append(res, v)[i] = res[i]
  BY AppendProperties
<1>2. Len(res) \in Nat
  OBVIOUS
<1> SUFFICES ASSUME NEW k \in 1 .. Len(res) + 1
             PROVE  Append(res, v)[k] = Promised(k, r)
  BY <1>1 DEF Returns
<1>3. CASE k \in 1 .. Len(res)
  BY <1>1, <1>3 DEF Returns
<1>4. CASE k = Len(res) + 1
  BY <1>1, <1>4
<1> QED BY <1>2, <1>3, <1>4

(* What a rank sends along its row is what is said.                         *)
LEMMA RowSendIs ==
  ASSUME p \in Nat \ {0}, NEW k, Counted(k), NEW r \in Rank, row[r] = RowComm(p, r)
  PROVE  RowSendBuf(k, r) \in RowSends /\ RowSentFor(RowSendBuf(k, r), k, r)
<1> DEFINE b == RowSendBuf(k, r)
<1>1. PICK n \in Nat : DOMAIN RowComm(p, r) = 1 .. n
  BY RowCommIs DEF Orders
<1>2. \A i \in 1 .. n : Bundle(b[i], RowEntry, Elements(k, {r}, InColumn(i)))
  BY <1>1, RowSendCarries
<1>3. b = [i \in 1 .. n |-> b[i]]
  BY <1>1 DEF RowSendBuf
<1> HIDE DEF b
<1>4. \A i \in 1 .. n : b[i] \in Seq(RowEntry)
  BY <1>2 DEF Bundle
<1>5. b \in [1 .. n -> Seq(RowEntry)]
  BY <1>3, <1>4, Zenon
<1>6. \A V : \A m \in Nat : \A f \in [1 .. m -> V] : f \in Seq(V)
  OBVIOUS
<1>7. b \in RowSends
  BY <1>5, <1>6, Zenon DEF RowSends
<1> QED BY <1>1, <1>2, <1>7 DEF RowSentFor, b

(* The members of a row have one row communicator,                            *)
LEMMA RowSame ==
  ASSUME p \in Nat \ {0}, NEW r \in Rank, NEW s \in RowOf(r)
  PROVE  s \in Rank /\ RowComm(p, s) = RowComm(p, r) /\ RowOf(s) = RowOf(r)
BY DEF RowComm, RowOf

(* and the members of a column one column communicator.                       *)
LEMMA ColumnSame ==
  ASSUME p \in Nat \ {0}, NEW r \in Rank, NEW s \in ColumnOf(r)
  PROVE  s \in Rank /\ ColComm(p, s) = ColComm(p, r)
BY DEF ColComm, ColumnOf

(* What a rank has from its row, it sends along its column.                 *)
LEMMA ColumnSendIs ==
  ASSUME p \in Nat \ {0}, NEW k \in 1 .. MaxCalls(p), UseGrid(0, k), NEW r \in Rank, col[r] = ColComm(p, r),
         \A s \in RowOf(r) : Sends(rowSent[s], s) /\ Len(rowSent[s]) >= Exchanges(k)
  PROVE  LET b == ColSendBuf(r, Received(rowSent, RowComm(p, r), Exchanges(k), r))
         IN  b \in ColSends /\ ColSentFor(b, k, r)
<1> DEFINE e == Received(rowSent, RowComm(p, r), Exchanges(k), r)
           b == ColSendBuf(r, e)
<1>1. PICK n \in Nat : DOMAIN ColComm(p, r) = 1 .. n
  BY ColCommIs DEF Orders
<1>2. Bundle(e, RowEntry, Elements(k, RowOf(r), InColumn(Place(RowComm(p, r), r))))
  <2> SUFFICES ASSUME NEW s \in RowOf(r), NEW i \in DOMAIN RowComm(p, r)
               PROVE  Bundle(rowSent[s][Exchanges(k)][i], RowEntry, Elements(k, {s}, InColumn(i)))
    BY RowReceived
  <2>1. RowSentFor(rowSent[s][Exchanges(k)], k, s)
    <3>1. Sends(rowSent[s], s) /\ Exchanges(k) <= Len(rowSent[s])
      OBVIOUS
    <3> QED BY <3>1 DEF Sends
  <2>2. i \in DOMAIN RowComm(p, s)
    BY RowSame
  <2> QED BY <2>1, <2>2 DEF RowSentFor
<1> HIDE DEF e
<1>3. \A i \in 1 .. n : Bundle(b[i], ColEntry, Elements(k, RowOf(r), Dest(r, i)))
  BY <1>1, <1>2, ColSendCarries
<1>4. b = [i \in 1 .. n |-> b[i]]
  BY <1>1 DEF ColSendBuf
<1> HIDE DEF b
<1>5. \A i \in 1 .. n : b[i] \in Seq(ColEntry)
  BY <1>3 DEF Bundle
<1>6. b \in [1 .. n -> Seq(ColEntry)]
  BY <1>4, <1>5, Zenon
<1>7. \A V : \A m \in Nat : \A f \in [1 .. m -> V] : f \in Seq(V)
  OBVIOUS
<1>8. b \in ColSends
  BY <1>6, <1>7, Zenon DEF ColSends
<1>9. ColSentFor(b, k, r)
  BY <1>1, <1>3 DEF ColSentFor
<1> QED BY <1>8, <1>9 DEF b, e

(* The promised result is one,                                              *)
LEMMA PromiseType ==
  ASSUME p \in Nat \ {0}, NEW k, Counted(k), NEW r \in Rank
  PROVE  Promised(k, r) \in Return
<1> DEFINE f == PerRank([s \in Rank |-> Payloads(k, s, r)])
           c == [s \in Rank |-> Count(pattern, k, s, r)]
           x == ExclusiveScan(c)
<1>1. k \in Nat /\ p \in Nat /\ \A s \in Rank : Count(pattern, k, s, r) \in Nat
  BY DEF Counted
<1>2. Concat(f) \in Seq(Word)
  <2> HIDE DEF f, x
  <2>1. f = PerRank([s \in Rank |-> Payloads(k, s, r)])
    BY DEF f
  <2>2. x = ExclusiveScan([s \in Rank |-> Count(pattern, k, s, r)])
    BY DEF x
  <2>3. Expected(k, r, f, x)
    BY <1>1, <2>1, <2>2, ExpectedParts
  <2> QED BY <2>3 DEF Expected
<1>3. c \in [Rank -> Nat]
  BY <1>1
<1>4. DOMAIN c = 0 .. p - 1 /\ \A i \in 0 .. p - 1 : c[i] \in Nat
  BY <1>1 DEF Rank
<1>5. x = [s \in Rank |-> x[s]]
  BY DEF ExclusiveScan
<1>6. \A s \in Rank : x[s] \in Nat
  <2> HIDE DEF c
  <2> QED BY <1>1, <1>4, ScanNext DEF Rank
<1>7. x \in [Rank -> Nat]
  <2> HIDE DEF x
  <2> QED BY <1>5, <1>6
<1>8. Promised(k, r) = [buf |-> Concat(f), counts |-> c, displs |-> x]
  BY DEF Promised
<1> HIDE DEF f, c, x
<1> QED BY <1>2, <1>3, <1>7, <1>8 DEF Return

(* and it is what a rank makes of what it has from its column.              *)
LEMMA ColumnReturnIs ==
  ASSUME p \in Nat \ {0}, NEW k \in 1 .. MaxCalls(p), Counted(k), UseGrid(0, k), NEW r \in Rank,
         \A s \in ColumnOf(r) : Forwards(colSent[s], s) /\ Len(colSent[s]) >= Exchanges(k)
  PROVE  LET env == Received(colSent, ColComm(p, r), Exchanges(k), r)
             counts == RecvCounts(env)
             displs == ExclusiveScan(counts)
         IN  [buf |-> RecvBuf(env, counts, displs), counts |-> counts, displs |-> displs] = Promised(k, r)
<1> DEFINE env == Received(colSent, ColComm(p, r), Exchanges(k), r)
           counts == [s \in Rank |-> Count(pattern, k, s, r)]
<1>1. Bundle(env, ColEntry, Elements(k, Rank, {r}))
  <2> SUFFICES ASSUME NEW s \in ColumnOf(r), NEW i \in DOMAIN ColComm(p, r)
               PROVE  Bundle(colSent[s][Exchanges(k)][i], ColEntry, Elements(k, RowOf(s), Dest(s, i)))
    BY ColumnReceived
  <2>1. ColSentFor(colSent[s][Exchanges(k)], k, s)
    <3>1. Forwards(colSent[s], s) /\ Exchanges(k) <= Len(colSent[s])
      OBVIOUS
    <3> QED BY <3>1 DEF Forwards
  <2>2. i \in DOMAIN ColComm(p, s)
    BY ColumnSame
  <2> QED BY <2>1, <2>2 DEF ColSentFor
<1> HIDE DEF env
<1>2. /\ k \in Nat /\ p \in Nat /\ env \in Seq(ColEntry) /\ Carries(env, Elements(k, Rank, {r}))
      /\ \A s \in Rank : Count(pattern, k, s, r) \in Nat
  BY <1>1 DEF Bundle, Counted
<1>3. RecvCounts(env) = counts
  BY <1>2, CountsAre
<1>4. RecvBuf(env, RecvCounts(env), ExclusiveScan(RecvCounts(env))) = Concat(PerRank([s \in Rank |-> Payloads(k, s, r)]))
  BY <1>2, SortedBack
<1>5. Promised(k, r) = [buf    |-> Concat(PerRank([s \in Rank |-> Payloads(k, s, r)])),
                        counts |-> counts, displs |-> ExclusiveScan(counts)]
  BY DEF Promised
<1> HIDE DEF counts
<1> QED BY <1>3, <1>4, <1>5 DEF env

--------------------------------------------------------------------------------
(* Steps of one rank                                                          *)

(* A step of one rank leaves the others where they are.                     *)
LEMMA RankFrame ==
  ASSUME DataInv, NEW r \in Rank, UNCHANGED <<p, pattern, threshold>>, DataTypes', RankInv(r)',
         \A s \in Rank : s # r =>
           /\ row'[s] = row[s] /\ col'[s] = col[s] /\ pc'[s] = pc[s] /\ calls'[s] = calls[s]
           /\ rowSent'[s] = rowSent[s] /\ colSent'[s] = colSent[s] /\ result'[s] = result[s]
  PROVE  DataInv'
<1>1. /\ Rank' = Rank /\ p' = p
      /\ \A k : (UseGrid(0, k)' <=> UseGrid(0, k)) /\ Exchanges(k)' = Exchanges(k)
      /\ \A v, s : Sends(v, s)' <=> Sends(v, s)
      /\ \A v, s : Forwards(v, s)' <=> Forwards(v, s)
      /\ \A v, s : Returns(v, s)' <=> Returns(v, s)
  BY Stable
<1>2. ASSUME NEW s \in Rank, s # r
      PROVE  RankInv(s)'
  <2>1. RankInv(s)
    BY DEF DataInv
  <2>2. /\ row'[s] = row[s] /\ col'[s] = col[s] /\ pc'[s] = pc[s] /\ calls'[s] = calls[s]
        /\ rowSent'[s] = rowSent[s] /\ colSent'[s] = colSent[s] /\ result'[s] = result[s]
    BY <1>2
  <2>3. Whereabouts(s)'
    BY <1>1, <2>1, <2>2 DEF RankInv, Whereabouts, Outside
  <2>4. Progress(s)'
    BY <1>1, <2>1, <2>2 DEF RankInv, Progress
  <2>5. Sends(rowSent[s], s)' /\ Forwards(colSent[s], s)' /\ Returns(result[s], s)'
    BY <1>1, <2>1, <2>2 DEF RankInv
  <2> QED BY <2>3, <2>4, <2>5 DEF RankInv
<1> QED BY <1>1, <1>2 DEF DataInv

(* No call, no exchange.                                                      *)
LEMMA NoCallYet == Exchanges(0) = 0
<1>1. {i \in 1 .. 0 : UseGrid(0, i)} = {}
  OBVIOUS
<1> QED BY <1>1, FS_EmptySet DEF Exchanges

(* The invariant holds before the first call.                                 *)
LEMMA InitDataInv == Init => DataInv
<1> SUFFICES ASSUME Init
             PROVE  DataInv
  OBVIOUS
<1>0. p \in Sizes /\ pattern \in Patterns
  BY DEF Init
<1>1. p \in Nat \ {0} /\ MaxCalls(p) \in Nat
  BY <1>0, SizesAssumption, MaxCallsAssumption
<1>2. \A r \in Rank : /\ pc[r] = "idle" /\ calls[r] = 0 /\ col[r] = <<>>
                      /\ rowSent[r] = <<>> /\ colSent[r] = <<>> /\ result[r] = <<>>
  BY DEF Init
<1>3. DataTypes
  <2>1. pc \in [Rank -> Label]
    BY DEF Init, Label
  <2>2. calls \in [Rank -> 0 .. MaxCalls(p)]
    BY <1>1 DEF Init
  <2>3. DOMAIN row = Rank /\ DOMAIN col = Rank
    BY DEF Init
  <2>4. \A V : [r \in Rank |-> <<>>] \in [Rank -> Seq(V)]
    OBVIOUS
  <2>5. rowSent \in [Rank -> Seq(RowSends)] /\ colSent \in [Rank -> Seq(ColSends)] /\ result \in [Rank -> Seq(Return)]
    BY <2>4 DEF Init
  <2> QED BY <1>0, <2>1, <2>2, <2>3, <2>5 DEF DataTypes
<1>4. ASSUME NEW r \in Rank
      PROVE  RankInv(r)
  <2>1. Whereabouts(r)
    BY <1>2 DEF Whereabouts, Outside
  <2>2. Progress(r)
    <3>1. pc[r] \in Outside /\ ~(pc[r] \in Deciding) /\ ~(pc[r] \in Deciding \cup {"row"})
      BY <1>2 DEF Outside, Deciding
    <3>2. Len(<<>>) = 0
      OBVIOUS
    <3> QED BY <1>2, <3>1, <3>2, NoCallYet DEF Progress, ProgressAt
  <2>3. \A k \in 1 .. MaxCalls(p) : UseGrid(0, k) => ~(Exchanges(k) <= Len(<<>>))
    <3> SUFFICES ASSUME NEW k \in 1 .. MaxCalls(p), UseGrid(0, k)
                 PROVE  ~(Exchanges(k) <= Len(<<>>))
      OBVIOUS
    <3>1. k \in Nat /\ k # 0 /\ k - 1 \in Nat
      BY <1>1
    <3>2. Exchanges(k) = Exchanges(k - 1) + 1 /\ Exchanges(k - 1) \in Nat
      BY <3>1, ExchangesStep
    <3>3. Len(<<>>) = 0
      OBVIOUS
    <3> QED BY <3>2, <3>3
  <2>4. Sends(rowSent[r], r) /\ Forwards(colSent[r], r)
    BY <1>2, <2>3 DEF Sends, Forwards
  <2>5. Returns(result[r], r)
    <3>1. 1 .. Len(<<>>) = {}
      OBVIOUS
    <3> QED BY <1>2, <3>1 DEF Returns
  <2> QED BY <2>1, <2>2, <2>4, <2>5 DEF RankInv
<1> QED BY <1>3, <1>4 DEF DataInv

(* Steps that only move a rank on: the data stay.                           *)
LEMMA MoveInv ==
  ASSUME DataInv, NEW r \in Rank, NEW to \in Label,
         UNCHANGED <<p, pattern, threshold, rowSent, colSent, result>>,
         pc' = [pc EXCEPT ![r] = to],
         calls' \in [Rank -> 0 .. MaxCalls(p)], DOMAIN row' = Rank, DOMAIN col' = Rank,
         \A s \in Rank : s # r => row'[s] = row[s] /\ col'[s] = col[s] /\ calls'[s] = calls[s],
         Whereabouts(r)', Progress(r)'
  PROVE  DataInv'
<1>1. /\ Rank' = Rank /\ Return' = Return /\ p' = p /\ pattern' = pattern
      /\ \A v, s : Sends(v, s)' <=> Sends(v, s)
      /\ \A v, s : Forwards(v, s)' <=> Forwards(v, s)
      /\ \A v, s : Returns(v, s)' <=> Returns(v, s)
  BY Stable
<1>2. pc \in [Rank -> Label]
  BY DEF DataInv, DataTypes
<1>3. pc' \in [Rank -> Label] /\ \A s \in Rank : s # r => pc'[s] = pc[s]
  BY <1>2
<1>4. DataTypes'
  BY <1>1, <1>3 DEF DataInv, DataTypes
<1>5. Sends(rowSent[r], r) /\ Forwards(colSent[r], r) /\ Returns(result[r], r)
  BY DEF DataInv, RankInv
<1>6. Sends(rowSent[r], r)' /\ Forwards(colSent[r], r)' /\ Returns(result[r], r)'
  BY <1>1, <1>5
<1>7. RankInv(r)'
  BY <1>6 DEF RankInv
<1> QED BY <1>3, <1>4, <1>7, RankFrame

(* What the proofs of the steps use of the invariant.                       *)
LEMMA RankFacts ==
  ASSUME DataInv, NEW r \in Rank
  PROVE  /\ p \in Nat \ {0} /\ MaxCalls(p) \in Nat
         /\ pc[r] \in Label /\ pc \in [Rank -> Label]
         /\ calls[r] \in 0 .. MaxCalls(p) /\ calls[r] \in Nat /\ calls \in [Rank -> 0 .. MaxCalls(p)]
         /\ calls[r] # 0 => calls[r] \in 1 .. MaxCalls(p) /\ Counted(calls[r])
         /\ DOMAIN row = Rank /\ DOMAIN col = Rank
         /\ rowSent[r] \in Seq(RowSends) /\ colSent[r] \in Seq(ColSends) /\ result[r] \in Seq(Return)
         /\ Whereabouts(r) /\ Progress(r)
<1>1. DataTypes /\ RankInv(r)
  BY DEF DataInv
<1>2. p \in Nat \ {0} /\ MaxCalls(p) \in Nat /\ \A k \in 1 .. MaxCalls(p) : Counted(k)
  BY <1>1, ParametersHold
<1>3. calls[r] \in 0 .. MaxCalls(p)
  BY <1>1 DEF DataTypes
<1>4. calls[r] \in Nat /\ (calls[r] # 0 => calls[r] \in 1 .. MaxCalls(p))
  BY <1>2, <1>3
<1>5. calls[r] # 0 => Counted(calls[r])
  BY <1>2, <1>4
<1> QED BY <1>1, <1>2, <1>3, <1>4, <1>5 DEF DataTypes, RankInv

(* How far a rank is, place by place.                                       *)
LEMMA ProgressIs ==
  ASSUME NEW place, NEW c, NEW x, NEW y, NEW i, NEW j, NEW n
  PROVE  /\ place \in Outside => (ProgressAt(place, c, x, y, i, j, n) <=> i = x /\ j = x /\ n = c)
         /\ place \in Deciding => (ProgressAt(place, c, x, y, i, j, n) <=> i = y /\ j = y /\ n = c - 1)
         /\ place = "row" => (ProgressAt(place, c, x, y, i, j, n) <=> i = x /\ j = y /\ n = c - 1)
         /\ place \in {"col", "alltoallv"} =>
              (ProgressAt(place, c, x, y, i, j, n) <=> i = x /\ j = x /\ n = c - 1)
<1>1. place \in Outside => place \notin Deciding /\ place \notin Deciding \cup {"row"}
  BY DEF Outside, Deciding
<1>2. place \in Deciding => place \notin Outside /\ place \in Deciding \cup {"row"}
  BY DEF Outside, Deciding
<1>3. place = "row" => place \notin Outside /\ place \notin Deciding /\ place \in Deciding \cup {"row"}
  BY DEF Outside, Deciding
<1>4. place \in {"col", "alltoallv"} =>
        place \notin Outside /\ place \notin Deciding /\ place \notin Deciding \cup {"row"}
  BY DEF Outside, Deciding
<1> QED BY <1>1, <1>2, <1>3, <1>4 DEF ProgressAt

(* The same from right to left, place by place: outside of the calls,         *)
LEMMA ProgressOutside ==
  ASSUME NEW place \in Outside, NEW c, NEW x, NEW y, NEW i, NEW j, NEW n, i = x /\ j = x /\ n = c
  PROVE  ProgressAt(place, c, x, y, i, j, n)
BY ProgressIs

(* before the exchange,                                                       *)
LEMMA ProgressDeciding ==
  ASSUME NEW place \in Deciding, NEW c, NEW x, NEW y, NEW i, NEW j, NEW n, i = y /\ j = y /\ n = c - 1
  PROVE  ProgressAt(place, c, x, y, i, j, n)
BY ProgressIs

--------------------------------------------------------------------------------
(* Steps up to the row exchange                                               *)

(* The column of a rank has a member.                                       *)
LEMMA ColumnNotEmpty ==
  ASSUME p \in Nat \ {0}, NEW r \in Rank
  PROVE  ColComm(p, r) # <<>>
<1>1. Orders(ColComm(p, r), ColumnOf(r)) /\ r \in ColumnOf(r)
  BY ColCommIs
<1>2. DOMAIN ColComm(p, r) # {}
  BY <1>1 DEF Orders
<1>3. DOMAIN <<>> = {}
  OBVIOUS
<1> QED BY <1>2, <1>3

(* Who has only moved on has sent and returned what it had.                   *)
LEMMA ProgressKept ==
  ASSUME UNCHANGED <<p, pattern, threshold, calls, rowSent, colSent, result>>, NEW r
  PROVE  Progress(r)' <=>
           ProgressAt(pc'[r], calls[r], Exchanges(calls[r]), Exchanges(calls[r] - 1),
                      Len(rowSent[r]), Len(colSent[r]), Len(result[r]))
<1>1. \A k : Exchanges(k)' = Exchanges(k)
  BY Stable
<1>2. Exchanges(calls[r])' = Exchanges(calls[r]) /\ Exchanges(calls[r] - 1)' = Exchanges(calls[r] - 1)
  BY <1>1
<1> QED BY <1>2 DEF Progress

(* Steps of a rank: the explicit initialize(),                                *)
LEMMA UserInitializeData ==
  ASSUME DataInv, NEW r \in Rank, UserInitialize(r)
  PROVE  DataInv'
<1>1. /\ pc[r] = "idle" /\ col[r] = <<>> /\ pc' = [pc EXCEPT ![r] = "user row"]
      /\ UNCHANGED <<p, pattern, threshold, row, col, calls, rowSent, colSent, result>>
  BY DEF UserInitialize, Enter, Initialized, grid, program
<1>2. /\ pc \in [Rank -> Label] /\ Whereabouts(r) /\ Progress(r)
      /\ calls \in [Rank -> 0 .. MaxCalls(p)] /\ DOMAIN row = Rank /\ DOMAIN col = Rank
  BY RankFacts
<1>3. pc'[r] = "user row"
  BY <1>1, <1>2
<1>4. Whereabouts(r)'
  BY <1>1, <1>3 DEF Whereabouts, Outside
<1>5. \A k : Exchanges(k)' = Exchanges(k)
  BY <1>1, Stable
<1>6. Progress(r)'
  <2>1. pc[r] \in Outside /\ pc'[r] \in Outside
    BY <1>1, <1>3 DEF Outside
  <2>2. /\ Len(rowSent[r]) = Exchanges(calls[r]) /\ Len(colSent[r]) = Exchanges(calls[r])
        /\ Len(result[r]) = calls[r]
    BY <1>2, <2>1, ProgressIs DEF Progress
  <2>8. Progress(r)' <=> ProgressAt(pc'[r], calls[r], Exchanges(calls[r]), Exchanges(calls[r] - 1),
                    Len(rowSent[r]), Len(colSent[r]), Len(result[r]))
    BY <1>1, <2>1, <2>2, ProgressKept
  <2>9. ProgressAt(pc'[r], calls[r], Exchanges(calls[r]), Exchanges(calls[r] - 1),
                    Len(rowSent[r]), Len(colSent[r]), Len(result[r]))
    BY <1>1, <2>1, <2>2, ProgressOutside, ProgressDeciding
  <2> QED BY <2>8, <2>9
<1>7. "user row" \in Label
  BY DEF Label
<1> QED BY <1>1, <1>2, <1>4, <1>6, <1>7, MoveInv

(* the begin of a call,                                                       *)
LEMMA CallData ==
  ASSUME DataInv, NEW r \in Rank, Call(r)
  PROVE  DataInv'
<1>1. /\ pc[r] = "idle" /\ calls[r] < MaxCalls(p) /\ pc' = [pc EXCEPT ![r] = "allreduce"]
      /\ calls' = [calls EXCEPT ![r] = @ + 1]
      /\ UNCHANGED <<p, pattern, threshold, row, col, rowSent, colSent, result>>
  BY DEF Call, Enter, grid, program
<1>2. /\ pc \in [Rank -> Label] /\ Whereabouts(r) /\ Progress(r) /\ MaxCalls(p) \in Nat
      /\ calls \in [Rank -> 0 .. MaxCalls(p)] /\ calls[r] \in Nat /\ DOMAIN row = Rank /\ DOMAIN col = Rank
  BY RankFacts
<1>3. pc'[r] = "allreduce" /\ calls'[r] = calls[r] + 1 /\ \A s \in Rank : s # r => calls'[s] = calls[s]
  BY <1>1, <1>2
<1>31. calls'[r] # 0 /\ calls'[r] - 1 = calls[r]
  BY <1>2, <1>3
<1>32. calls' \in [Rank -> 0 .. MaxCalls(p)]
  <2>1. calls[r] + 1 \in 0 .. MaxCalls(p)
    BY <1>1, <1>2
  <2> QED BY <1>1, <1>2, <2>1
<1>4. Whereabouts(r)'
  BY <1>1, <1>2, <1>3, <1>31 DEF Whereabouts, Outside
<1>5. \A k : Exchanges(k)' = Exchanges(k)
  BY <1>1, Stable
<1>6. Progress(r)'
  <2>1. pc[r] \in Outside /\ pc'[r] \in Deciding
    BY <1>1, <1>3 DEF Outside, Deciding
  <2>2. /\ Len(rowSent[r]) = Exchanges(calls[r]) /\ Len(colSent[r]) = Exchanges(calls[r])
        /\ Len(result[r]) = calls[r]
    BY <1>2, <2>1, ProgressIs DEF Progress
  <2>3. Exchanges(calls[r] - 1)' = Exchanges(calls[r])
    BY <1>5, <1>31
  <2> QED BY <1>1, <1>31, <2>1, <2>2, <2>3, ProgressIs DEF Progress
<1>7. "allreduce" \in Label
  BY DEF Label, Collective
<1> QED BY <1>1, <1>2, <1>3, <1>32, <1>4, <1>6, <1>7, MoveInv

(* the first split,                                                           *)
LEMMA EndSplitRowData ==
  ASSUME DataInv, NEW r \in Rank, EndSplitRow(r)
  PROVE  DataInv'
<1> DEFINE to == IF pc[r] = "split row" THEN "split column" ELSE "user column"
<1>1. /\ pc[r] \in {"split row", "user row"} /\ pc' = [pc EXCEPT ![r] = to]
      /\ row' = [row EXCEPT ![r] = RowComm(p, r)]
      /\ UNCHANGED <<p, pattern, threshold, col, calls, rowSent, colSent, result>>
  BY DEF EndSplitRow, Enter, program
<1>2. /\ pc \in [Rank -> Label] /\ Whereabouts(r) /\ Progress(r)
      /\ calls \in [Rank -> 0 .. MaxCalls(p)] /\ DOMAIN row = Rank /\ DOMAIN col = Rank
  BY RankFacts
<1>3. /\ pc'[r] = to /\ row'[r] = RowComm(p, r)
      /\ DOMAIN row' = Rank /\ \A s \in Rank : s # r => row'[s] = row[s]
  BY <1>1, <1>2
<1>31. \A k : (UseGrid(0, k)' <=> UseGrid(0, k)) /\ Exchanges(k)' = Exchanges(k)
  BY <1>1, Stable
<1>4. Whereabouts(r)'
  BY <1>1, <1>2, <1>3, <1>31 DEF Whereabouts, Outside
<1>6. Progress(r)'
  <2>1. CASE pc[r] = "split row"
    <3>1. pc[r] \in Deciding /\ pc'[r] \in Deciding
      BY <1>3, <2>1 DEF Deciding
    <3>2. /\ Len(rowSent[r]) = Exchanges(calls[r] - 1) /\ Len(colSent[r]) = Exchanges(calls[r] - 1)
          /\ Len(result[r]) = calls[r] - 1
      BY <1>2, <3>1, ProgressIs DEF Progress
    <3>8. Progress(r)' <=> ProgressAt(pc'[r], calls[r], Exchanges(calls[r]), Exchanges(calls[r] - 1),
                      Len(rowSent[r]), Len(colSent[r]), Len(result[r]))
      BY <1>1, <3>1, <3>2, ProgressKept
    <3>9. ProgressAt(pc'[r], calls[r], Exchanges(calls[r]), Exchanges(calls[r] - 1),
                      Len(rowSent[r]), Len(colSent[r]), Len(result[r]))
      BY <1>1, <3>1, <3>2, ProgressOutside, ProgressDeciding
    <3> QED BY <3>8, <3>9
  <2>2. CASE pc[r] = "user row"
    <3>1. pc[r] \in Outside /\ pc'[r] \in Outside
      BY <1>3, <2>2 DEF Outside
    <3>2. /\ Len(rowSent[r]) = Exchanges(calls[r]) /\ Len(colSent[r]) = Exchanges(calls[r])
          /\ Len(result[r]) = calls[r]
      BY <1>2, <3>1, ProgressIs DEF Progress
    <3>8. Progress(r)' <=> ProgressAt(pc'[r], calls[r], Exchanges(calls[r]), Exchanges(calls[r] - 1),
                      Len(rowSent[r]), Len(colSent[r]), Len(result[r]))
      BY <1>1, <3>1, <3>2, ProgressKept
    <3>9. ProgressAt(pc'[r], calls[r], Exchanges(calls[r]), Exchanges(calls[r] - 1),
                      Len(rowSent[r]), Len(colSent[r]), Len(result[r]))
      BY <1>1, <3>1, <3>2, ProgressOutside, ProgressDeciding
    <3> QED BY <3>8, <3>9
  <2> QED BY <1>1, <2>1, <2>2
<1>7. to \in Label
  BY DEF Label, Collective
<1> HIDE DEF to
<1> QED BY <1>1, <1>2, <1>3, <1>4, <1>6, <1>7, MoveInv

(* The row exchange of a call is entered with the elements of that call.    *)
LEMMA RowwiseData ==
  ASSUME DataInv, NEW r \in Rank, Rowwise(r), UseGrid(0, calls[r]), pc[r] \in Deciding,
         row[r] = RowComm(p, r), col'[r] = ColComm(p, r), DOMAIN col' = Rank,
         \A s \in Rank : s # r => col'[s] = col[s],
         UNCHANGED <<p, pattern, threshold, row, calls, colSent, result>>
  PROVE  DataInv'
<1> DEFINE c == calls[r]
           v == RowSendBuf(c, r)
<1>1. pc' = [pc EXCEPT ![r] = "row"] /\ rowSent' = [rowSent EXCEPT ![r] = Append(@, v)]
  BY DEF Rowwise
<1>2. /\ p \in Nat \ {0} /\ MaxCalls(p) \in Nat /\ pc \in [Rank -> Label] /\ Whereabouts(r) /\ Progress(r)
      /\ c \in Nat /\ (c # 0 => c \in 1 .. MaxCalls(p) /\ Counted(c))
      /\ rowSent[r] \in Seq(RowSends) /\ result[r] \in Seq(Return)
  BY RankFacts
<1>3. c # 0
  <2>1. pc[r] \notin Outside
    BY DEF Outside, Deciding
  <2> QED BY <1>2, <2>1 DEF Whereabouts
<1>4. v \in RowSends /\ RowSentFor(v, c, r)
  BY <1>2, <1>3, RowSendIs
<1>5. /\ Len(rowSent[r]) = Exchanges(c - 1) /\ Len(colSent[r]) = Exchanges(c - 1)
      /\ Len(result[r]) = c - 1
  BY <1>2, ProgressIs DEF Progress
<1>6. Exchanges(c) = Exchanges(c - 1) + 1
  BY <1>2, <1>3, ExchangesStep
<1>7. DataTypes /\ RankInv(r)
  BY DEF DataInv
<1> HIDE DEF v
<1>8. Sends(Append(rowSent[r], v), r)
  <2>1. Sends(rowSent[r], r) /\ Exchanges(c) = Len(rowSent[r]) + 1 /\ c \in 1 .. MaxCalls(p)
    BY <1>2, <1>3, <1>5, <1>6, <1>7 DEF RankInv
  <2> HIDE DEF c
  <2> QED BY <1>2, <1>4, <2>1, SendsMore DEF c
<1>9. Append(rowSent[r], v) \in Seq(RowSends) /\ Len(Append(rowSent[r], v)) = Len(rowSent[r]) + 1
  BY <1>2, <1>4, AppendProperties
<1>10. /\ pc'[r] = "row" /\ rowSent'[r] = Append(rowSent[r], v) /\ pc' \in [Rank -> Label]
       /\ \A s \in Rank : s # r => pc'[s] = pc[s] /\ rowSent'[s] = rowSent[s]
       /\ rowSent' \in [Rank -> Seq(RowSends)]
  <2>1. "row" \in Label
    BY DEF Label
  <2>2. rowSent \in [Rank -> Seq(RowSends)]
    BY <1>7 DEF DataTypes
  <2> QED BY <1>1, <1>2, <1>9, <2>1, <2>2
<1>11. /\ Rank' = Rank /\ Return' = Return /\ p' = p /\ pattern' = pattern
       /\ \A k : (UseGrid(0, k)' <=> UseGrid(0, k)) /\ Exchanges(k)' = Exchanges(k)
       /\ \A w, s : Sends(w, s)' <=> Sends(w, s)
       /\ \A w, s : Forwards(w, s)' <=> Forwards(w, s)
       /\ \A w, s : Returns(w, s)' <=> Returns(w, s)
  BY Stable
<1>12. DataTypes'
  BY <1>7, <1>10, <1>11 DEF DataTypes
<1>13. Whereabouts(r)'
  <2>1. col'[r] # <<>>
    BY <1>2, ColumnNotEmpty
  <2> QED BY <1>3, <1>10, <1>11, <2>1 DEF Whereabouts, Outside
<1>14. Progress(r)'
  <2>1. Len(rowSent'[r]) = Exchanges(c)
    BY <1>5, <1>6, <1>9, <1>10
  <2> HIDE DEF c
  <2>2. c' = c
    BY DEF c
  <2> QED BY <1>5, <1>10, <1>11, <2>1, <2>2, ProgressIs DEF Progress, c
<1>15. Sends(rowSent[r], r)' /\ Forwards(colSent[r], r)' /\ Returns(result[r], r)'
  BY <1>7, <1>8, <1>10, <1>11 DEF RankInv
<1>16. RankInv(r)'
  BY <1>13, <1>14, <1>15 DEF RankInv
<1> QED BY <1>10, <1>12, <1>16, RankFrame

(* the decision,                                                              *)
LEMMA EndAllreduceData ==
  ASSUME DataInv, NEW r \in Rank, EndAllreduce(r)
  PROVE  DataInv'
<1> DEFINE c == calls[r]
<1>1. /\ pc[r] = "allreduce"
      /\ UNCHANGED <<p, pattern, threshold, row, col, calls, colSent, result>>
  BY DEF EndAllreduce, grid, program
<1>2. /\ p \in Nat \ {0} /\ MaxCalls(p) \in Nat /\ pc \in [Rank -> Label] /\ Whereabouts(r) /\ Progress(r)
      /\ c \in Nat /\ calls \in [Rank -> 0 .. MaxCalls(p)] /\ DOMAIN row = Rank /\ DOMAIN col = Rank
  BY RankFacts
<1>3. UseGrid(r, c) <=> UseGrid(0, c)
  BY DecisionShared
<1>4. pc[r] \in Deciding /\ pc[r] \notin Outside /\ c # 0
  <2>1. pc[r] \in Deciding /\ pc[r] \notin Outside
    BY <1>1 DEF Deciding, Outside
  <2> QED BY <1>2, <2>1 DEF Whereabouts
<1>5. \A k : (UseGrid(0, k)' <=> UseGrid(0, k)) /\ Exchanges(k)' = Exchanges(k)
  BY <1>1, Stable
<1>6. /\ Len(rowSent[r]) = Exchanges(c - 1) /\ Len(colSent[r]) = Exchanges(c - 1)
      /\ Len(result[r]) = c - 1
  BY <1>2, <1>4, ProgressIs DEF Progress
<1>7. CASE UseGrid(r, c) /\ Initialized(r) /\ Rowwise(r)
  <2>1. col[r] = ColComm(p, r) /\ row[r] = RowComm(p, r)
    BY <1>2, <1>7 DEF Whereabouts, Initialized
  <2> QED BY <1>1, <1>2, <1>3, <1>4, <1>7, <2>1, RowwiseData
<1>8. CASE UseGrid(r, c) /\ ~Initialized(r) /\ Enter(r, "split row") /\ UNCHANGED rowSent
  <2>1. pc' = [pc EXCEPT ![r] = "split row"] /\ col[r] = <<>> /\ UNCHANGED rowSent
    BY <1>8 DEF Enter, Initialized
  <2>2. pc'[r] = "split row" /\ "split row" \in Label
    BY <1>2, <2>1 DEF Label, Collective
  <2>3. Whereabouts(r)'
    BY <1>1, <1>2, <1>3, <1>4, <1>5, <1>8, <2>1, <2>2 DEF Whereabouts
  <2>4. Progress(r)'
    <3>1. pc'[r] \in Deciding
      BY <2>2 DEF Deciding
    <3>8. Progress(r)' <=> ProgressAt(pc'[r], calls[r], Exchanges(calls[r]), Exchanges(calls[r] - 1),
                      Len(rowSent[r]), Len(colSent[r]), Len(result[r]))
      BY <1>1, <1>6, <2>1, <3>1, ProgressKept
    <3>9. ProgressAt(pc'[r], calls[r], Exchanges(calls[r]), Exchanges(calls[r] - 1),
                      Len(rowSent[r]), Len(colSent[r]), Len(result[r]))
      BY <1>1, <1>6, <2>1, <3>1, ProgressOutside, ProgressDeciding
    <3> QED BY <3>8, <3>9
  <2> QED BY <1>1, <1>2, <2>1, <2>2, <2>3, <2>4, MoveInv
<1>9. CASE ~UseGrid(r, c) /\ Enter(r, "alltoallv") /\ UNCHANGED rowSent
  <2>1. pc' = [pc EXCEPT ![r] = "alltoallv"] /\ UNCHANGED rowSent
    BY <1>9 DEF Enter
  <2>2. pc'[r] = "alltoallv" /\ "alltoallv" \in Label
    BY <1>2, <2>1 DEF Label, Collective
  <2>3. Whereabouts(r)'
    BY <1>1, <1>2, <1>3, <1>4, <1>5, <1>9, <2>1, <2>2 DEF Whereabouts
  <2>4. Progress(r)'
    <3>1. Exchanges(c) = Exchanges(c - 1)
      <4>1. c - 1 \in Nat
        BY <1>2, <1>4
      <4>2. Exchanges(c - 1) \in Nat /\ Exchanges(c) = Exchanges(c - 1) + (IF UseGrid(0, c) THEN 1 ELSE 0)
        BY <1>2, <1>4, <4>1, ExchangesStep
      <4> QED BY <1>3, <1>9, <4>2
    <3>2. pc'[r] \in {"col", "alltoallv"}
      BY <2>2
    <3>3. Exchanges(calls[r])' = Exchanges(c) /\ calls'[r] = c
      BY <1>1, <1>5
    <3> HIDE DEF c
    <3> QED BY <1>1, <1>6, <2>1, <3>1, <3>2, <3>3, ProgressIs DEF Progress
  <2> QED BY <1>1, <1>2, <2>1, <2>2, <2>3, <2>4, MoveInv
<1> QED BY <1>7, <1>8, <1>9 DEF EndAllreduce

(* the second split,                                                          *)
LEMMA EndSplitColumnData ==
  ASSUME DataInv, NEW r \in Rank, EndSplitColumn(r)
  PROVE  DataInv'
<1>1. /\ pc[r] \in {"split column", "user column"} /\ col' = [col EXCEPT ![r] = ColComm(p, r)]
      /\ UNCHANGED <<p, pattern, threshold, row, calls, colSent, result>>
  BY DEF EndSplitColumn, program
<1>2. /\ p \in Nat \ {0} /\ pc \in [Rank -> Label] /\ Whereabouts(r) /\ Progress(r)
      /\ calls \in [Rank -> 0 .. MaxCalls(p)] /\ DOMAIN row = Rank /\ DOMAIN col = Rank
  BY RankFacts
<1>3. /\ col'[r] = ColComm(p, r) /\ DOMAIN col' = Rank /\ \A s \in Rank : s # r => col'[s] = col[s]
      /\ row[r] = RowComm(p, r)
  BY <1>1, <1>2 DEF Whereabouts
<1>4. CASE pc[r] = "split column" /\ Rowwise(r)
  <2>1. pc[r] \in Deciding /\ UseGrid(0, calls[r])
    BY <1>2, <1>4 DEF Deciding, Whereabouts
  <2> QED BY <1>1, <1>3, <1>4, <2>1, RowwiseData
<1>5. CASE pc[r] = "user column" /\ pc' = [pc EXCEPT ![r] = "idle"] /\ UNCHANGED rowSent
  <2>1. pc'[r] = "idle" /\ "idle" \in Label
    BY <1>2, <1>5 DEF Label
  <2>2. \A k : Exchanges(k)' = Exchanges(k)
    BY <1>1, Stable
  <2>3. Whereabouts(r)'
    BY <1>1, <1>3, <2>1 DEF Whereabouts, Outside
  <2>4. Progress(r)'
    <3>1. pc[r] \in Outside /\ pc'[r] \in Outside
      BY <1>5, <2>1 DEF Outside
    <3>2. /\ Len(rowSent[r]) = Exchanges(calls[r]) /\ Len(colSent[r]) = Exchanges(calls[r])
          /\ Len(result[r]) = calls[r]
      BY <1>2, <3>1, ProgressIs DEF Progress
    <3>8. Progress(r)' <=> ProgressAt(pc'[r], calls[r], Exchanges(calls[r]), Exchanges(calls[r] - 1),
                      Len(rowSent[r]), Len(colSent[r]), Len(result[r]))
      BY <1>1, <1>5, <3>1, <3>2, ProgressKept
    <3>9. ProgressAt(pc'[r], calls[r], Exchanges(calls[r]), Exchanges(calls[r] - 1),
                      Len(rowSent[r]), Len(colSent[r]), Len(result[r]))
      BY <1>1, <1>5, <3>1, <3>2, ProgressOutside, ProgressDeciding
    <3> QED BY <3>8, <3>9
  <2> QED BY <1>1, <1>2, <1>3, <1>5, <2>1, <2>3, <2>4, MoveInv
<1> QED BY <1>4, <1>5 DEF EndSplitColumn

--------------------------------------------------------------------------------
(* Exchanges and results                                                      *)

(* and in the last collective of a call.                                      *)
LEMMA ProgressColumn ==
  ASSUME NEW place \in {"col", "alltoallv"}, NEW c, NEW x, NEW y, NEW i, NEW j, NEW n, i = x /\ j = x /\ n = c - 1
  PROVE  ProgressAt(place, c, x, y, i, j, n)
BY ProgressIs

(* All that is sent along the row is there, and goes along the column.      *)
LEMMA EndRowwiseData ==
  ASSUME DataInv, NEW r \in Rank, EndRowwise(r), UNCHANGED threshold
  PROVE  DataInv'
<1> DEFINE c == calls[r]
           v == ColSendBuf(r, Received(rowSent, row[r], Len(rowSent[r]), r))
<1>1. /\ pc[r] = "row" /\ RowComplete(r) /\ pc' = [pc EXCEPT ![r] = "col"]
      /\ colSent' = [colSent EXCEPT ![r] = Append(@, v)]
      /\ UNCHANGED <<p, pattern, threshold, row, col, calls, rowSent, result>>
  BY DEF EndRowwise, grid
<1>2. /\ p \in Nat \ {0} /\ MaxCalls(p) \in Nat /\ pc \in [Rank -> Label] /\ Whereabouts(r) /\ Progress(r)
      /\ c \in Nat /\ (c # 0 => c \in 1 .. MaxCalls(p) /\ Counted(c))
      /\ colSent[r] \in Seq(ColSends) /\ result[r] \in Seq(Return)
  BY RankFacts
<1>3. /\ c # 0 /\ UseGrid(0, c) /\ col[r] # <<>> /\ col[r] = ColComm(p, r) /\ row[r] = RowComm(p, r)
  BY <1>1, <1>2 DEF Whereabouts, Outside
<1>5. /\ Len(rowSent[r]) = Exchanges(c) /\ Len(colSent[r]) = Exchanges(c - 1)
      /\ Len(result[r]) = c - 1
  BY <1>1, <1>2, ProgressIs DEF Progress
<1>4. v \in ColSends /\ ColSentFor(v, c, r)
  <2>1. ASSUME NEW s \in RowOf(r)
        PROVE  Sends(rowSent[s], s) /\ Len(rowSent[s]) >= Exchanges(c)
    <3>1. s \in Rank
      BY DEF RowOf
    <3>2. s \in Range(row[r])
      <4>1. \E i \in DOMAIN row[r] : row[r][i] = s
        BY <1>2, <1>3, RowCommIs DEF Orders
      <4> QED BY <4>1 DEF Range
    <3>3. Len(rowSent[s]) >= Len(rowSent[r])
      BY <1>1, <3>2 DEF RowComplete
    <3> QED BY <1>5, <3>1, <3>3 DEF DataInv, RankInv
  <2>2. v = ColSendBuf(r, Received(rowSent, RowComm(p, r), Exchanges(c), r))
    BY <1>3, <1>5
  <2>3. c \in 1 .. MaxCalls(p)
    BY <1>2, <1>3
  <2> HIDE DEF v, c
  <2> QED BY <1>2, <1>3, <2>1, <2>2, <2>3, ColumnSendIs
<1>6. Exchanges(c) = Exchanges(c - 1) + 1
  BY <1>2, <1>3, ExchangesStep
<1>7. DataTypes /\ RankInv(r)
  BY DEF DataInv
<1> HIDE DEF v
<1>8. Forwards(Append(colSent[r], v), r)
  <2>1. Forwards(colSent[r], r) /\ Exchanges(c) = Len(colSent[r]) + 1 /\ c \in 1 .. MaxCalls(p)
    BY <1>2, <1>3, <1>5, <1>6, <1>7 DEF RankInv
  <2> HIDE DEF c
  <2> QED BY <1>2, <1>3, <1>4, <2>1, ForwardsMore
<1>9. Append(colSent[r], v) \in Seq(ColSends) /\ Len(Append(colSent[r], v)) = Len(colSent[r]) + 1
  BY <1>2, <1>4, AppendProperties
<1>10. /\ pc'[r] = "col" /\ colSent'[r] = Append(colSent[r], v) /\ pc' \in [Rank -> Label]
       /\ \A s \in Rank : s # r => pc'[s] = pc[s] /\ colSent'[s] = colSent[s]
       /\ colSent' \in [Rank -> Seq(ColSends)]
  <2>1. "col" \in Label
    BY DEF Label
  <2>2. colSent \in [Rank -> Seq(ColSends)]
    BY <1>7 DEF DataTypes
  <2> QED BY <1>1, <1>2, <1>9, <2>1, <2>2
<1>11. /\ Rank' = Rank /\ Return' = Return /\ p' = p /\ pattern' = pattern
       /\ \A k : (UseGrid(0, k)' <=> UseGrid(0, k)) /\ Exchanges(k)' = Exchanges(k)
       /\ \A w, s : Sends(w, s)' <=> Sends(w, s)
       /\ \A w, s : Forwards(w, s)' <=> Forwards(w, s)
       /\ \A w, s : Returns(w, s)' <=> Returns(w, s)
  BY <1>1, Stable
<1>12. DataTypes'
  BY <1>1, <1>7, <1>10, <1>11 DEF DataTypes
<1>13. Whereabouts(r)'
  BY <1>1, <1>3, <1>10, <1>11 DEF Whereabouts, Outside
<1>14. Progress(r)'
  <2>1. Len(colSent'[r]) = Exchanges(c)
    BY <1>5, <1>6, <1>9, <1>10
  <2>2. calls'[r] = c /\ rowSent' = rowSent /\ result' = result
    BY <1>1
  <2>3. Exchanges(calls[r])' = Exchanges(c) /\ Exchanges(calls[r] - 1)' = Exchanges(c - 1)
    BY <1>11, <2>2
  <2>4. ProgressAt(pc'[r], c, Exchanges(c), Exchanges(c - 1), Len(rowSent[r]), Len(colSent'[r]), Len(result[r]))
    BY <1>5, <1>10, <2>1, ProgressColumn
  <2> HIDE DEF c
  <2> QED BY <2>2, <2>3, <2>4 DEF Progress
<1>15. Sends(rowSent[r], r)' /\ Forwards(colSent[r], r)' /\ Returns(result[r], r)'
  BY <1>1, <1>7, <1>8, <1>10, <1>11 DEF RankInv
<1>16. RankInv(r)'
  BY <1>13, <1>14, <1>15 DEF RankInv
<1> QED BY <1>1, <1>10, <1>12, <1>16, RankFrame

(* A call returns.                                                          *)
LEMMA ReturnData ==
  ASSUME DataInv, NEW r \in Rank, pc[r] \in {"col", "alltoallv"}, pc' = [pc EXCEPT ![r] = "idle"],
         NEW v, v = Promised(calls[r], r), result' = [result EXCEPT ![r] = Append(@, v)],
         UNCHANGED <<p, pattern, threshold, row, col, calls, rowSent, colSent>>
  PROVE  DataInv'
<1> DEFINE c == calls[r]
<1>2. /\ p \in Nat \ {0} /\ pc \in [Rank -> Label] /\ Whereabouts(r) /\ Progress(r)
      /\ c \in Nat /\ (c # 0 => c \in 1 .. MaxCalls(p) /\ Counted(c)) /\ result[r] \in Seq(Return)
  BY RankFacts
<1>3. c # 0
  BY <1>2 DEF Whereabouts, Outside
<1>4. v \in Return
  BY <1>2, <1>3, PromiseType
<1>5. /\ Len(rowSent[r]) = Exchanges(c) /\ Len(colSent[r]) = Exchanges(c)
      /\ Len(result[r]) = c - 1
  BY <1>2, ProgressIs DEF Progress
<1>6. c = Len(result[r]) + 1
  BY <1>2, <1>5
<1>7. DataTypes /\ RankInv(r)
  BY DEF DataInv
<1>8. Returns(Append(result[r], v), r)
  <2>1. Returns(result[r], r) /\ v = Promised(c, r)
    BY <1>7 DEF RankInv
  <2> HIDE DEF c
  <2> QED BY <1>2, <1>4, <1>6, <2>1, ReturnsMore
<1>9. Append(result[r], v) \in Seq(Return) /\ Len(Append(result[r], v)) = Len(result[r]) + 1
  BY <1>2, <1>4, AppendProperties
<1>10. /\ pc'[r] = "idle" /\ result'[r] = Append(result[r], v) /\ pc' \in [Rank -> Label]
       /\ \A s \in Rank : s # r => pc'[s] = pc[s] /\ result'[s] = result[s]
       /\ result' \in [Rank -> Seq(Return)]
  <2>1. "idle" \in Label
    BY DEF Label
  <2>2. result \in [Rank -> Seq(Return)]
    BY <1>7 DEF DataTypes
  <2> QED BY <1>2, <1>9, <2>1, <2>2
<1>11. /\ Rank' = Rank /\ Return' = Return /\ p' = p /\ pattern' = pattern
       /\ \A k : (UseGrid(0, k)' <=> UseGrid(0, k)) /\ Exchanges(k)' = Exchanges(k)
       /\ \A w, s : Sends(w, s)' <=> Sends(w, s)
       /\ \A w, s : Forwards(w, s)' <=> Forwards(w, s)
       /\ \A w, s : Returns(w, s)' <=> Returns(w, s)
  BY Stable
<1>12. DataTypes'
  BY <1>7, <1>10, <1>11 DEF DataTypes
<1>13. Whereabouts(r)'
  BY <1>2, <1>10, <1>11 DEF Whereabouts, Outside
<1>14. Progress(r)'
  <2>1. Len(result'[r]) = c
    BY <1>6, <1>9, <1>10
  <2>2. calls'[r] = c /\ rowSent' = rowSent /\ colSent' = colSent
    OBVIOUS
  <2>3. Exchanges(calls[r])' = Exchanges(c) /\ Exchanges(calls[r] - 1)' = Exchanges(c - 1)
    BY <1>11, <2>2
  <2>4. pc'[r] \in Outside
    BY <1>10 DEF Outside
  <2>5. ProgressAt(pc'[r], c, Exchanges(c), Exchanges(c - 1), Len(rowSent[r]), Len(colSent[r]), Len(result'[r]))
    BY <1>5, <2>1, <2>4, ProgressOutside
  <2> HIDE DEF c
  <2> QED BY <2>2, <2>3, <2>5 DEF Progress
<1>15. Sends(rowSent[r], r)' /\ Forwards(colSent[r], r)' /\ Returns(result[r], r)'
  BY <1>7, <1>8, <1>10, <1>11 DEF RankInv
<1>16. RankInv(r)'
  BY <1>13, <1>14, <1>15 DEF RankInv
<1> QED BY <1>10, <1>12, <1>16, RankFrame

(* What has come along the column is what the call promises.                *)
LEMMA EndColumnwiseData ==
  ASSUME DataInv, NEW r \in Rank, EndColumnwise(r), UNCHANGED threshold
  PROVE  DataInv'
<1> DEFINE c == calls[r]
           env == Received(colSent, col[r], Len(colSent[r]), r)
           v == [buf |-> RecvBuf(env, RecvCounts(env), ExclusiveScan(RecvCounts(env))), counts |-> RecvCounts(env),
                 displs |-> ExclusiveScan(RecvCounts(env))]
<1>1. /\ pc[r] = "col" /\ ColComplete(r) /\ pc' = [pc EXCEPT ![r] = "idle"]
      /\ result' = [result EXCEPT ![r] = Append(@, v)]
      /\ UNCHANGED <<p, pattern, threshold, row, col, calls, rowSent, colSent>>
  BY DEF EndColumnwise, grid
<1>2. /\ p \in Nat \ {0} /\ MaxCalls(p) \in Nat /\ Whereabouts(r) /\ Progress(r)
      /\ c \in Nat /\ (c # 0 => c \in 1 .. MaxCalls(p) /\ Counted(c))
  BY RankFacts
<1>3. /\ c # 0 /\ UseGrid(0, c) /\ col[r] = ColComm(p, r)
  BY <1>1, <1>2 DEF Whereabouts, Outside
<1>4. Len(colSent[r]) = Exchanges(c)
  BY <1>1, <1>2, ProgressIs DEF Progress
<1>5. v = Promised(c, r)
  <2>1. ASSUME NEW s \in ColumnOf(r)
        PROVE  Forwards(colSent[s], s) /\ Len(colSent[s]) >= Exchanges(c)
    <3>1. s \in Rank
      BY DEF ColumnOf
    <3>2. s \in Range(col[r])
      <4>1. \E i \in DOMAIN col[r] : col[r][i] = s
        BY <1>2, <1>3, ColCommIs DEF Orders
      <4> QED BY <4>1 DEF Range
    <3>3. Len(colSent[s]) >= Len(colSent[r])
      BY <1>1, <3>2 DEF ColComplete
    <3> QED BY <1>4, <3>1, <3>3 DEF DataInv, RankInv
  <2>2. env = Received(colSent, ColComm(p, r), Exchanges(c), r)
    BY <1>3, <1>4
  <2>3. c \in 1 .. MaxCalls(p) /\ Counted(c)
    BY <1>2, <1>3
  <2> HIDE DEF c, env
  <2> QED BY <1>2, <1>3, <2>1, <2>2, <2>3, ColumnReturnIs
<1> HIDE DEF v
<1> QED BY <1>1, <1>5, ReturnData

(* MPI_Alltoallv returns what the call promises.                              *)
LEMMA EndAlltoallvData ==
  ASSUME DataInv, NEW r \in Rank, EndAlltoallv(r)
  PROVE  DataInv'
<1> DEFINE v == Promised(calls[r], r)
<1>1. /\ pc[r] = "alltoallv" /\ pc' = [pc EXCEPT ![r] = "idle"]
      /\ result' = [result EXCEPT ![r] = Append(@, v)]
      /\ UNCHANGED <<p, pattern, threshold, row, col, calls, rowSent, colSent>>
  BY DEF EndAlltoallv, grid, program, Promised
<1> HIDE DEF v
<1>2. v = Promised(calls[r], r)
  BY DEF v
<1> QED BY <1>1, <1>2, ReturnData

(* Every step keeps the invariant.                                            *)
LEMMA NextDataInv == DataInv /\ [Next]_vars => DataInv'
<1> SUFFICES ASSUME DataInv, [Next]_vars
             PROVE  DataInv'
  OBVIOUS
<1>1. CASE UNCHANGED vars
  <2>1. /\ UNCHANGED <<p, pattern, threshold>> /\ UNCHANGED <<row, col, pc, calls>>
        /\ UNCHANGED <<rowSent, colSent, result>>
    BY <1>1 DEF vars, grid, program
  <2>2. /\ Rank' = Rank /\ Return' = Return
        /\ \A k : (UseGrid(0, k)' <=> UseGrid(0, k)) /\ Exchanges(k)' = Exchanges(k)
        /\ \A w, s : Sends(w, s)' <=> Sends(w, s)
        /\ \A w, s : Forwards(w, s)' <=> Forwards(w, s)
        /\ \A w, s : Returns(w, s)' <=> Returns(w, s)
    BY <2>1, Stable
  <2>3. DataTypes'
    BY <2>1, <2>2 DEF DataInv, DataTypes
  <2>4. ASSUME NEW r \in Rank
        PROVE  RankInv(r)'
    <3>1. RankInv(r)
      BY DEF DataInv
    <3>2. Whereabouts(r)'
      BY <2>1, <2>2, <3>1 DEF RankInv, Whereabouts, Outside
    <3>3. Progress(r)'
      BY <2>1, <2>2, <3>1 DEF RankInv, Progress
    <3>4. Sends(rowSent[r], r)' /\ Forwards(colSent[r], r)' /\ Returns(result[r], r)'
      BY <2>1, <2>2, <3>1 DEF RankInv
    <3> QED BY <3>2, <3>3, <3>4 DEF RankInv
  <2> QED BY <2>2, <2>3, <2>4 DEF DataInv
<1>2. CASE Next
  <2>1. PICK r \in Rank : RankStep(r)
    BY <1>2 DEF Next
  <2>2. CASE UserInitialize(r)
    BY <2>2, UserInitializeData
  <2>3. CASE Call(r)
    BY <2>3, CallData
  <2>4. CASE EndAllreduce(r)
    BY <2>4, EndAllreduceData
  <2>5. CASE EndSplitRow(r)
    BY <2>5, EndSplitRowData
  <2>6. CASE EndSplitColumn(r)
    BY <2>6, EndSplitColumnData
  <2>7. CASE EndAlltoallv(r)
    BY <2>7, EndAlltoallvData
  <2>8. CASE Exchange(r)
    <3>1. UNCHANGED threshold
      BY <2>8 DEF Exchange, program
    <3> QED BY <2>8, <3>1, EndRowwiseData, EndColumnwiseData DEF Exchange
  <2> QED BY <2>1, <2>2, <2>3, <2>4, <2>5, <2>6, <2>7, <2>8 DEF RankStep
<1> QED BY <1>1, <1>2

(* It holds in every reachable state.                                         *)
LEMMA DataInvHolds == Spec => []DataInv
<1>1. Init => DataInv
  BY InitDataInv
<1>2. DataInv /\ [Next]_vars => DataInv'
  BY NextDataInv
<1> QED BY <1>1, <1>2, PTL DEF Spec

(* The routing in two hops is an alltoallv, for every number of ranks.      *)
THEOREM DispatchIsAlltoallv == Spec => []IsAlltoallv
<1>1. DataInv => IsAlltoallv
  BY IsPromise DEF DataInv, RankInv
<1> QED BY <1>1, DataInvHolds, PTL
================================================================================

--------------------------- MODULE Collectives_proofs ---------------------------
(***************************************************************************)
(* The collectives of the data-moving wrappers match, for any number of    *)
(* ranks and any arguments. The k-th collective of a rank follows from k   *)
(* and from whether the wrapper has to find the receive counts; that, and  *)
(* the root, are compared before anything depends on them. Hence also that *)
(* a misuse the assertions look for keeps every rank from returning.       *)
(***************************************************************************)
EXTENDS Collectives, TLAPS, SequenceTheorems, WellFoundedInduction, FiniteSetTheorems

--------------------------------------------------------------------------------
(* The chain of collectives of each wrapper                                 *)

WrapperOps == Inplace \cup Rooted \cup Exchanges \cup {"allgather", "allgatherv"}

Compare == "is_same_on_all_ranks"

(* The kinds of the collectives a rank enters, if the wrapper has to find   *)
(* the counts (c) or not.                                                   *)
Kinds(c) ==
  IF light
  THEN CASE op = "gather"  -> <<Compare, "MPI_Gather">>
         [] op = "gatherv" ->
              IF c THEN <<Compare, Compare, Compare, "MPI_Gather", "MPI_Gatherv">>
              ELSE <<Compare, Compare, "MPI_Gatherv">>
         [] op \in {"allgather", "allgather_inplace"} -> <<Compare, "MPI_Allgather">>
         [] op = "allgatherv" ->
              IF c THEN <<Compare, Compare, "MPI_Allgather", Compare, "MPI_Allgatherv">>
              ELSE <<Compare, Compare, "MPI_Allgatherv">>
         [] op \in {"scatter", "scatter_single"} ->
              IF c THEN <<Compare, Compare, "MPI_Bcast", Compare, Compare, "MPI_Bcast", "MPI_Scatter">>
              ELSE <<Compare, Compare, "MPI_Scatter">>
         [] op = "scatterv" ->
              IF c THEN <<Compare, Compare, Compare, Compare, "MPI_Scatter", "MPI_Scatterv">>
              ELSE <<Compare, Compare, "MPI_Scatterv">>
         [] op \in {"alltoall", "alltoall_inplace"} -> <<"MPI_Alltoall">>
         [] op = "alltoallv" ->
              IF c THEN <<Compare, "MPI_Alltoall", Compare, Compare, "MPI_Alltoallv">>
              ELSE <<Compare, Compare, Compare, "MPI_Alltoallv">>
         [] op = "bcast" ->
              IF c THEN <<Compare, Compare, "MPI_Bcast", "MPI_Bcast">>
              ELSE <<Compare, Compare, "MPI_Bcast">>
         [] OTHER -> <<"MPI_Bcast", Compare, Compare, "MPI_Bcast">>
  ELSE CASE op = "gather"  -> <<"MPI_Gather">>
         [] op = "gatherv" -> IF c THEN <<"MPI_Gather", "MPI_Gatherv">> ELSE <<"MPI_Gatherv">>
         [] op \in {"allgather", "allgather_inplace"} -> <<"MPI_Allgather">>
         [] op = "allgatherv" ->
              IF c THEN <<"MPI_Allgather", "MPI_Allgatherv">> ELSE <<"MPI_Allgatherv">>
         [] op \in {"scatter", "scatter_single"} ->
              IF c THEN <<"MPI_Bcast", "MPI_Scatter">> ELSE <<"MPI_Scatter">>
         [] op = "scatterv" -> IF c THEN <<"MPI_Scatter", "MPI_Scatterv">> ELSE <<"MPI_Scatterv">>
         [] op \in {"alltoall", "alltoall_inplace"} -> <<"MPI_Alltoall">>
         [] op = "alltoallv" ->
              IF c THEN <<"MPI_Alltoall", "MPI_Alltoallv">> ELSE <<"MPI_Alltoallv">>
         [] op = "bcast" -> IF c THEN <<"MPI_Bcast", "MPI_Bcast">> ELSE <<"MPI_Bcast">>
         [] OTHER -> <<"MPI_Bcast">>

(* How many of them it has entered when it is at a location.                *)
Unit == IF light THEN 1 ELSE 0

Position(c, l) ==
  IF l = "call" THEN 0
  ELSE IF l \in {"return", "returned"} THEN Len(Kinds(c))
  ELSE CASE op = "gatherv" ->
              (CASE l = "computes" -> Unit
                 [] l = "counts"   -> 2 * Unit
                 [] l = "exchange" -> 3 * Unit
                 [] OTHER          -> IF c THEN 3 * Unit + 1 ELSE 2 * Unit)
         [] op = "allgatherv" ->
              (CASE l = "counts"   -> Unit
                 [] l = "exchange" -> 2 * Unit
                 [] l = "displs"   -> IF c THEN 2 * Unit + 1 ELSE Unit
                 [] OTHER          -> IF c THEN 3 * Unit + 1 ELSE 2 * Unit)
         [] op \in {"scatter", "scatter_single"} ->
              (CASE l = "buffer"      -> Unit
                 [] l = "flag"        -> 2 * Unit
                 [] l = "bcast"       -> 3 * Unit
                 [] l = "bcast count" -> 4 * Unit
                 [] l = "value"       -> 5 * Unit
                 [] OTHER             -> IF c THEN 5 * Unit + 1 ELSE 2 * Unit)
         [] op = "scatterv" ->
              (CASE l = "buffer"       -> Unit
                 [] l = "counts"       -> 2 * Unit
                 [] l = "counts given" -> 3 * Unit
                 [] l = "exchange"     -> 4 * Unit
                 [] OTHER              -> IF c THEN 4 * Unit + 1 ELSE 2 * Unit)
         [] op = "alltoallv" ->
              (CASE l = "exchange"    -> Unit
                 [] l = "send displs" -> IF c THEN Unit + 1 ELSE Unit
                 [] l = "recv displs" -> IF c THEN 2 * Unit + 1 ELSE 2 * Unit
                 [] OTHER             -> IF c THEN 3 * Unit + 1 ELSE 3 * Unit)
         [] op = "bcast" ->
              (CASE l = "computes" -> Unit
                 [] l = "data"     -> 2 * Unit + 1
                 [] OTHER          -> 2 * Unit)
         [] op = "bcast_single" ->
              (CASE l = "root"     -> Unit
                 [] l = "computes" -> 2 * Unit
                 [] OTHER          -> 3 * Unit)
         [] OTHER -> Unit

(* What its k-th collective compares, if it is a comparison.                *)
Value(r, k) ==
  CASE op = "gather"   -> Root(r)
    [] op = "gatherv"    -> IF k = 2 THEN Computes(r) ELSE Root(r)
    [] op = "allgather"  -> Len(Msg(r, r))
    [] op = "allgather_inplace" -> Len(InitialBuf(r))
    [] op = "allgatherv" ->
         IF k = 1 THEN Computes(r)
         ELSE IF k = 2 /\ Computes(r) THEN 1 ELSE args[r].recv_displs = "omitted"
    [] op \in {"scatter", "scatter_single"} ->
         IF k = 2 THEN Computes(r) ELSE IF k = 5 THEN FALSE ELSE Root(r)
    [] op = "scatterv" ->
         IF k = 2 THEN Computes(r) ELSE IF k = 4 THEN FALSE ELSE Root(r)
    [] op = "alltoallv" ->
         IF k = 1 THEN Computes(r)
         ELSE IF k = (IF Computes(r) THEN 3 ELSE 2) THEN args[r].send_displs = "omitted"
         ELSE args[r].recv_displs = "omitted"
    [] op = "bcast" -> IF k = 1 THEN Root(r) ELSE Computes(r)
    [] OTHER        -> IF k = 2 THEN Root(r) ELSE Computes(r)

Known(r, k) == \A s \in Rank : Value(s, k) = Value(r, k)

Failed == {"aborted", "rejected"}

Locations == {"call", "computes", "counts", "counts given", "exchange", "displs", "data", "buffer",
              "flag", "bcast", "bcast count", "value", "send displs", "recv displs", "root",
              "count", "given", "return"}

(* The locations of the nested wrapper that finds the counts.               *)
Finding == {"counts", "counts given", "exchange", "flag", "bcast", "bcast count", "value", "count"}

Fits(r, l) == (l \in Finding => Computes(r)) /\ (l = "given" => ~Computes(r))

(* What the ranks were given: they may disagree only where it is compared.  *)
ArgsInv ==
  /\ op \in WrapperOps /\ light \in BOOLEAN
  /\ DOMAIN args = Rank
  /\ \A r \in Rank : Root(r) \in Rank /\ (op \notin Rooted => Root(r) = 0)
  /\ \A r \in Rank : op \in {"gather", "allgather", "alltoall", "scatter_single", "bcast_single"} => ~Computes(r)
  /\ ~light \/ op \notin Comparing =>
       \A r, s \in Rank : Root(r) = Root(s) /\ (Computes(r) <=> Computes(s))
  /\ \A r \in Rank : args[r].buffer \in BOOLEAN /\ (~args[r].buffer => light)
  /\ \A r \in Rank : {args[r].recv_displs, args[r].send_displs} \subseteq {"given", "omitted"}
  /\ op = "allgather" => \A r \in Rank : amount[r][r] \in Nat /\ amount[r] = [t \in Rank |-> amount[r][r]]
  /\ ~light => \A r, s \in Rank :
                 /\ args[r].recv_displs = args[s].recv_displs
                 /\ args[r].send_displs = args[s].send_displs
                 /\ op = "allgather" => amount[r] = amount[s]

IsSequence(s) == Len(s) \in Nat /\ s = [k \in 1 .. Len(s) |-> s[k]]

EntryOK(r, k, e) ==
  /\ e.kind = Kinds(Computes(r))[k]
  /\ e.root = (IF e.kind = Compare THEN 0 ELSE Root(r))
  /\ e.kind = Compare => e.out = ToAll(<<Value(r, k)>>)

TraceInv(r) ==
  /\ IsSequence(calls[r])
  /\ Len(calls[r]) <= Len(Kinds(Computes(r)))
  /\ \A k \in 1 .. Len(calls[r]) : EntryOK(r, k, calls[r][k])
  /\ at[r] \in Locations \cup Failed \cup {"returned"}
  /\ at[r] \notin Failed => Len(calls[r]) = Position(Computes(r), at[r])
  /\ Fits(r, at[r])
  /\ at[r] = "call" => buf[r] = InitialBuf(r)

(* Who has left a comparison knows that all gave the same.                  *)
KnownInv(r) ==
  \A k \in 1 .. Len(calls[r]) - 1 : Kinds(Computes(r))[k] = Compare => Known(r, k)

ControlInv ==
  /\ ArgsInv
  /\ DOMAIN at = Rank /\ DOMAIN calls = Rank /\ DOMAIN buf = Rank
  /\ \A r \in Rank : TraceInv(r) /\ KnownInv(r)

--------------------------------------------------------------------------------
(* Histories                                                                *)

LEMMA AppendSequence ==
  ASSUME NEW s, IsSequence(s), NEW e
  PROVE  /\ IsSequence(Append(s, e))
         /\ Len(Append(s, e)) = Len(s) + 1 /\ Len(s) \in Nat
         /\ \A k \in 1 .. Len(s) : Append(s, e)[k] = s[k]
         /\ Append(s, e)[Len(s) + 1] = e
<1> DEFINE n == Len(s)
           S == {s[k] : k \in 1 .. n} \cup {e}
<1>1. n \in Nat /\ s = [k \in 1 .. n |-> s[k]]
  BY DEF IsSequence
<1>2. s \in Seq(S) /\ e \in S
  BY <1>1
<1>3. Append(s, e) \in Seq(S) /\ Len(Append(s, e)) = n + 1
  BY <1>2
<1>4. Append(s, e) = [k \in 1 .. n + 1 |-> Append(s, e)[k]]
  <2>1. \A T : \A t \in Seq(T) : t = [k \in 1 .. Len(t) |-> t[k]]
    OBVIOUS
  <2>2. Append(s, e) = [k \in 1 .. Len(Append(s, e)) |-> Append(s, e)[k]]
    BY <1>3, <2>1
  <2> QED BY <1>3, <2>2
<1>5. \A k \in 1 .. n : Append(s, e)[k] = s[k]
  BY <1>1, <1>2
<1>6. Append(s, e)[n + 1] = e
  BY <1>1, <1>2
<1> QED BY <1>1, <1>3, <1>4, <1>5, <1>6 DEF IsSequence

(* The arguments of a call do not change.                                   *)
LEMMA ArgumentsStay ==
  ASSUME UNCHANGED <<op, light, amount, args>>
  PROVE  /\ \A c : Kinds(c)' = Kinds(c)
         /\ \A c, l : Position(c, l)' = Position(c, l)
         /\ \A r, k : Value(r, k)' = Value(r, k)
         /\ \A r, k : Known(r, k)' = Known(r, k)
         /\ \A r : Root(r)' = Root(r) /\ Computes(r)' = Computes(r)
         /\ \A r : InitialBuf(r)' = InitialBuf(r)
         /\ \A r, l : Fits(r, l)' <=> Fits(r, l)
         /\ ArgsInv' = ArgsInv
<1>1. op' = op /\ light' = light /\ amount' = amount /\ args' = args
  OBVIOUS
<1>2. \A r : Root(r)' = Root(r) /\ Computes(r)' = Computes(r)
  BY <1>1 DEF Root, Computes
<1>3. \A c : Kinds(c)' = Kinds(c)
  BY <1>1 DEF Kinds
<1>4. \A c, l : Position(c, l)' = Position(c, l)
  <2> SUFFICES ASSUME NEW c, NEW l
               PROVE  Position(c, l)' = Position(c, l)
    OBVIOUS
  <2>1. Len(Kinds(c)') = Len(Kinds(c)) /\ Unit' = Unit
    BY <1>1, <1>3 DEF Unit
  <2> QED BY <1>1, <2>1 DEF Position
<1>5. \A r : Msg(r, r)' = Msg(r, r) /\ InitialBuf(r)' = InitialBuf(r)
  BY <1>1 DEF Msg, InitialBuf, IsRoot, Root
<1>6. \A r, k : Value(r, k)' = Value(r, k)
  <2> SUFFICES ASSUME NEW r, NEW k
               PROVE  Value(r, k)' = Value(r, k)
    OBVIOUS
  <2>1. /\ Root(r)' = Root(r) /\ Computes(r)' = Computes(r)
        /\ Len(Msg(r, r)') = Len(Msg(r, r)) /\ Len(InitialBuf(r)') = Len(InitialBuf(r))
    BY <1>2, <1>5
  <2> QED BY <1>1, <2>1 DEF Value
<1>7. \A r, k : Known(r, k)' = Known(r, k)
  BY <1>6 DEF Known
<1>8. ArgsInv' = ArgsInv
  BY <1>1, <1>2 DEF ArgsInv
<1>9. \A r, l : Fits(r, l)' <=> Fits(r, l)
  BY <1>2 DEF Fits
<1> QED BY <1>2, <1>3, <1>4, <1>5, <1>6, <1>7, <1>8, <1>9

(* Whether counts are computed, and the root, are the same for all once a   *)
(* rank is past their comparison.                                           *)
LEMMA SharedAfter ==
  ASSUME ArgsInv, light, NEW r \in Rank
  PROVE  /\ op \in {"gather", "gatherv", "scatter", "scatter_single", "scatterv", "bcast"} /\ Known(r, 1) =>
              \A s \in Rank : Root(s) = Root(r)
         /\ op \in {"gatherv", "scatter", "scatter_single", "scatterv", "bcast"} /\ Known(r, 2) =>
              \A s \in Rank : Computes(s) = Computes(r)
         /\ op \in {"allgatherv", "alltoallv"} /\ Known(r, 1) =>
              \A s \in Rank : Computes(s) = Computes(r)
<1>1. op \in {"gather", "gatherv", "scatter", "scatter_single", "scatterv", "bcast"} =>
        \A s : Value(s, 1) = Root(s)
  BY DEF Value
<1>2. op \in {"gatherv", "scatter", "scatter_single", "scatterv", "bcast"} =>
        \A s : Value(s, 2) = Computes(s)
  BY DEF Value
<1>3. op \in {"allgatherv", "alltoallv"} => \A s : Value(s, 1) = Computes(s)
  BY DEF Value
<1> QED BY <1>1, <1>2, <1>3 DEF Known

(* The chains of two ranks do not differ as far as both have come.          *)
LEMMA KindsMatch ==
  ASSUME ControlInv, NEW r \in Rank, NEW s \in Rank,
         NEW k \in 1 .. Len(calls[r]), k <= Len(calls[s])
  PROVE  /\ Kinds(Computes(r))[k] = Kinds(Computes(s))[k]
         /\ Kinds(Computes(r))[k] # Compare => Root(r) = Root(s)
<1> DEFINE goal == /\ Kinds(Computes(r))[k] = Kinds(Computes(s))[k]
                   /\ Kinds(Computes(r))[k] # Compare => Root(r) = Root(s)
           alike == Root(r) = Root(s) /\ Computes(r) = Computes(s)
<1>1. ArgsInv /\ op \in WrapperOps
  BY DEF ControlInv, ArgsInv
<1>2. /\ Len(calls[r]) \in Nat /\ k \in Nat /\ k >= 1 /\ k <= Len(calls[r])
      /\ Len(calls[r]) <= Len(Kinds(Computes(r))) /\ Len(calls[s]) <= Len(Kinds(Computes(s)))
      /\ Len(calls[s]) \in Nat
  BY DEF ControlInv, TraceInv, IsSequence
<1>3. \A i \in 1 .. Len(calls[r]) - 1 : Kinds(Computes(r))[i] = Compare => Known(r, i)
  BY DEF ControlInv, KnownInv
<1>4. alike => goal
  OBVIOUS
<1>5. ASSUME ~light \/ op \notin Comparing
      PROVE  goal
  <2>1. Root(r) = Root(s) /\ (Computes(r) <=> Computes(s))
    BY <1>5, <1>1 DEF ArgsInv
  <2>2. Computes(r) \in BOOLEAN /\ Computes(s) \in BOOLEAN
    BY DEF Computes
  <2> QED BY <1>4, <2>1, <2>2
<1>6. ASSUME light, op \in Comparing
      PROVE  goal
  <2>1. op \notin Rooted => Root(r) = Root(s)
    BY <1>1 DEF ArgsInv
  <2>2. CASE op = "gather"
    <3>1. \A c : Kinds(c) = <<Compare, "MPI_Gather">>
      BY <1>6, <2>2 DEF Kinds
    <3>2. k > 1 => Known(r, 1)
      BY <1>2, <1>3, <3>1
    <3>3. k > 1 => Root(s) = Root(r)
      BY <1>1, <1>6, <2>2, <3>2, SharedAfter
    <3>4. k = 1 \/ k > 1
      BY <1>2
    <3> QED BY <3>1, <3>3, <3>4
  <2>3. CASE op = "allgather"
    BY <1>6, <2>1, <2>3 DEF Kinds, Rooted, Gathers, Scatters, Bcasts
  <2>4. CASE op \in {"gatherv", "scatter", "scatterv", "bcast"}
    <3>1. \A c : Kinds(c)[1] = Compare /\ Kinds(c)[2] = Compare
      BY <1>6, <2>4 DEF Kinds
    <3>2. k > 2 => Known(r, 1) /\ Known(r, 2)
      BY <1>2, <1>3, <3>1
    <3>3. k > 2 => Root(s) = Root(r) /\ Computes(s) = Computes(r)
      BY <1>1, <1>6, <2>4, <3>2, SharedAfter
    <3>4. k = 1 \/ k = 2 \/ k > 2
      BY <1>2
    <3> QED BY <3>1, <3>3, <3>4
  <2>5. CASE op \in {"allgatherv", "alltoallv"}
    <3>1. \A c : Kinds(c)[1] = Compare
      BY <1>6, <2>5 DEF Kinds
    <3>2. k > 1 => Known(r, 1)
      BY <1>2, <1>3, <3>1
    <3>3. k > 1 => Computes(s) = Computes(r)
      BY <1>1, <1>6, <2>5, <3>2, SharedAfter
    <3>4. k = 1 \/ k > 1
      BY <1>2
    <3>5. Root(r) = Root(s)
      BY <2>1, <2>5 DEF Rooted, Gathers, Scatters, Bcasts
    <3> QED BY <3>1, <3>3, <3>4, <3>5
  <2> QED BY <1>6, <2>2, <2>3, <2>4, <2>5 DEF Comparing
<1> QED BY <1>5, <1>6

(* A rank that runs on after a comparison has learnt that all agree.        *)
LEMMA Met ==
  ASSUME ControlInv, NEW r \in Rank, CanLeave(r), Agreed(r)
  PROVE  \A k \in 1 .. Len(calls[r]) : Kinds(Computes(r))[k] = Compare => Known(r, k)
<1> DEFINE n == Len(calls[r])
<1>1. n \in Nat /\ IsSequence(calls[r])
  BY DEF ControlInv, TraceInv, IsSequence
<1>2. \A k \in 1 .. n - 1 : Kinds(Computes(r))[k] = Compare => Known(r, k)
  BY DEF ControlInv, KnownInv
<1>3. ASSUME n # 0, Kinds(Computes(r))[n] = Compare
      PROVE  Known(r, n)
  <2>1. n \in 1 .. n
    BY <1>1, <1>3
  <2>2. calls[r] # <<>> /\ Last(calls[r]) = calls[r][n]
    BY <1>3 DEF Last
  <2>3. calls[r][n].kind = Compare /\ calls[r][n].out = ToAll(<<Value(r, n)>>)
    BY <1>3, <2>1 DEF ControlInv, TraceInv, EntryOK
  <2>4. SendersOf(r) = Rank
    BY <2>2, <2>3 DEF SendersOf, Senders, Compare
  <2>5. \A s \in Rank : Delivered(r)[s] = Delivered(r)[r]
    BY <2>2, <2>3 DEF Agreed, Compare
  <2> SUFFICES ASSUME NEW s \in Rank
               PROVE  Value(s, n) = Value(r, n)
    BY DEF Known
  <2>6. n <= Len(calls[s]) /\ Len(calls[s]) \in Nat
    BY <2>4 DEF CanLeave, ControlInv, TraceInv, IsSequence
  <2>7. Kinds(Computes(s))[n] = Compare
    BY <1>3, <2>1, <2>6, KindsMatch
  <2>8. n \in 1 .. Len(calls[s])
    BY <1>1, <2>1, <2>6
  <2>9. calls[s][n].out = ToAll(<<Value(s, n)>>)
    BY <2>7, <2>8 DEF ControlInv, TraceInv, EntryOK
  <2>10. Delivered(r)[s] = <<Value(s, n)>> /\ Delivered(r)[r] = <<Value(r, n)>>
    BY <2>3, <2>4, <2>9 DEF Delivered, ToAll
  <2>11. <<Value(s, n)>> = <<Value(r, n)>>
    BY <2>5, <2>10
  <2> QED BY <2>11
<1> QED BY <1>1, <1>2, <1>3

--------------------------------------------------------------------------------
(* Steps                                                                    *)

Pos(r, l) == Position(Computes(r), l)

(* What a step of a rank leaves alone.                                      *)
BufsStay(r) == DOMAIN buf' = Rank /\ \A s \in Rank \ {r} : buf'[s] = buf[s]

OthersStay(r) ==
  /\ UNCHANGED <<op, light, amount, args>> /\ BufsStay(r)
  /\ DOMAIN at' = Rank /\ DOMAIN calls' = Rank
  /\ \A s \in Rank \ {r} : at'[s] = at[s] /\ calls'[s] = calls[s]

LEMMA OtherRanks ==
  ASSUME ControlInv, NEW r \in Rank, OthersStay(r)
  PROVE  /\ ArgsInv' /\ DOMAIN buf' = Rank /\ DOMAIN at' = Rank /\ DOMAIN calls' = Rank
         /\ \A s \in Rank \ {r} : TraceInv(s)' /\ KnownInv(s)'
<1>1. UNCHANGED <<op, light, amount, args>>
  BY DEF OthersStay
<1>2. ArgsInv'
  BY <1>1, ArgumentsStay DEF ControlInv
<1>3. ASSUME NEW s \in Rank \ {r}
      PROVE  TraceInv(s)' /\ KnownInv(s)'
  <2>1. TraceInv(s) /\ KnownInv(s)
    BY DEF ControlInv
  <2>2. at'[s] = at[s] /\ calls'[s] = calls[s] /\ buf'[s] = buf[s]
    BY DEF OthersStay, BufsStay
  <2>3. \A k : EntryOK(s, k, calls[s][k])' <=> EntryOK(s, k, calls[s][k])
    BY <1>1, <2>2, ArgumentsStay DEF EntryOK
  <2>4. Fits(s, at[s])' <=> Fits(s, at[s])
    BY <1>1, <2>2, ArgumentsStay DEF Fits
  <2>5. TraceInv(s)'
    BY <1>1, <2>1, <2>2, <2>3, <2>4, ArgumentsStay DEF TraceInv, IsSequence
  <2>6. KnownInv(s)'
    BY <1>1, <2>1, <2>2, ArgumentsStay DEF KnownInv
  <2> QED BY <2>5, <2>6
<1> QED BY <1>2, <1>3 DEF OthersStay, BufsStay

(* A location a rank may get to.                                            *)
Reachable(r, next) == next \in Locations \ {"call"} /\ Fits(r, next)

(* A rank that enters a collective of its chain keeps to the chain.         *)
LEMMA EnterInv ==
  ASSUME ControlInv, NEW r \in Rank, NEW l, Runs(r, l), l \in Locations,
         NEW e, NEW next, Reachable(r, next),
         EntryOK(r, Pos(r, l) + 1, e),
         Pos(r, l) + 1 <= Len(Kinds(Computes(r))), Pos(r, next) = Pos(r, l) + 1,
         Enter(r, e, next), UNCHANGED <<op, light, amount, args>>, BufsStay(r)
  PROVE  ControlInv'
<1> DEFINE n == Len(calls[r])
           c == Computes(r)
<1>1. /\ IsSequence(calls[r]) /\ n \in Nat /\ at[r] = l /\ n = Pos(r, l)
      /\ \A k \in 1 .. n : EntryOK(r, k, calls[r][k])
  <2>1. l \notin Failed
    BY DEF Locations, Failed
  <2> QED BY <2>1 DEF ControlInv, TraceInv, Runs, IsSequence, Pos
<1>2. OthersStay(r) /\ calls'[r] = Append(calls[r], e) /\ at'[r] = next
  BY DEF ControlInv, OthersStay, Enter, Go
<1>3. /\ IsSequence(calls'[r]) /\ Len(calls'[r]) = n + 1
      /\ \A k \in 1 .. n : calls'[r][k] = calls[r][k]
      /\ calls'[r][n + 1] = e
  BY <1>1, <1>2, AppendSequence
<1>4. \A k, x : EntryOK(r, k, x)' <=> EntryOK(r, k, x)
  BY ArgumentsStay DEF EntryOK
<1>5. \A k \in 1 .. n + 1 : EntryOK(r, k, calls'[r][k])
  <2> SUFFICES ASSUME NEW k \in 1 .. n + 1
               PROVE  EntryOK(r, k, calls'[r][k])
    OBVIOUS
  <2>1. CASE k = n + 1
    BY <1>1, <1>3, <2>1
  <2>2. CASE k # n + 1
    <3>1. k \in 1 .. n
      BY <1>1, <2>2
    <3> QED BY <1>1, <1>3, <3>1
  <2> QED BY <2>1, <2>2
<1>6. TraceInv(r)'
  <2>1. \A k \in 1 .. Len(calls'[r]) : EntryOK(r, k, calls[r][k])'
    BY <1>3, <1>5, ArgumentsStay DEF EntryOK
  <2>2. Len(calls'[r]) <= Len(Kinds(c)')
    BY <1>1, <1>3, ArgumentsStay
  <2>3. Len(calls'[r]) = Position(c, next)'
    BY <1>1, <1>3, ArgumentsStay DEF Pos
  <2>4. Computes(r)' = Computes(r)
    BY ArgumentsStay
  <2>5. Fits(r, at[r])'
    BY <1>2, <2>4 DEF Reachable, Fits
  <2>6. at'[r] \in Locations /\ at'[r] # "call"
    BY <1>2 DEF Reachable
  <2> QED BY <1>2, <1>3, <2>1, <2>2, <2>3, <2>4, <2>5, <2>6 DEF TraceInv
<1>7. KnownInv(r)'
  <2>1. \A k \in 1 .. n : Kinds(c)[k] = Compare => Known(r, k)
    BY Met DEF Runs
  <2>2. Len(calls'[r]) - 1 = n
    BY <1>1, <1>3
  <2> QED BY <2>1, <2>2, ArgumentsStay DEF KnownInv
<1> QED BY <1>2, <1>6, <1>7, OtherRanks DEF ControlInv

(* So does one that goes on, or fails, without entering one.                *)
LEMMA GoInv ==
  ASSUME ControlInv, NEW r \in Rank, NEW l, at[r] = l, l \in Locations,
         NEW next,
         \/ next \in Failed
         \/ (Reachable(r, next) \/ next = "returned") /\ Pos(r, next) = Pos(r, l),
         Go(r, next), UNCHANGED <<calls, op, light, amount, args>>, BufsStay(r)
  PROVE  ControlInv'
<1>1. TraceInv(r) /\ KnownInv(r) /\ Len(calls[r]) = Pos(r, l)
  <2>1. l \notin Failed
    BY DEF Locations, Failed
  <2> QED BY <2>1 DEF ControlInv, TraceInv, Pos
<1>2. OthersStay(r) /\ calls' = calls /\ at'[r] = next
  BY DEF ControlInv, OthersStay, Go
<1>3. UNCHANGED <<op, light, amount, args>>
  OBVIOUS
<1>4. TraceInv(r)'
  <2>1. \A k : EntryOK(r, k, calls[r][k])' <=> EntryOK(r, k, calls[r][k])
    BY <1>2, <1>3, ArgumentsStay DEF EntryOK
  <2> DEFINE c == Computes(r)
  <2>2. next \notin Failed => Len(calls[r]) = Position(c, next)
    BY <1>1 DEF Pos
  <2>3. Position(c, next)' = Position(c, next) /\ Len(Kinds(c)') = Len(Kinds(c)) /\ c' = c
    BY <1>3, ArgumentsStay
  <2>4. Len(calls[r]) <= Len(Kinds(c))
    BY <1>1 DEF TraceInv
  <2>5. next \in Locations \cup Failed \cup {"returned"} /\ next # "call" /\ Fits(r, next)
    BY DEF Reachable, Failed, Fits, Finding
  <2>6. Fits(r, at[r])'
    BY <1>2, <2>3, <2>5 DEF Fits
  <2>7. IsSequence(calls[r])'
    BY <1>1, <1>2 DEF TraceInv, IsSequence
  <2>8. \A k \in 1 .. Len(calls'[r]) : EntryOK(r, k, calls[r][k])'
    BY <1>1, <1>2, <2>1 DEF TraceInv
  <2> QED BY <1>1, <1>2, <2>2, <2>3, <2>4, <2>5, <2>6, <2>7, <2>8 DEF TraceInv
<1>5. KnownInv(r)'
  BY <1>1, <1>2, <1>3, ArgumentsStay DEF KnownInv
<1> QED BY <1>2, <1>4, <1>5, OtherRanks DEF ControlInv

(* The chain goes on, at a location, with the comparison of a value.        *)
Comparison(r, l, v, next) ==
  /\ l \in Locations /\ Reachable(r, next) /\ Pos(r, next) = Pos(r, l) + Unit
  /\ light => LET c == Computes(r)
                  k == Pos(r, l) + 1
              IN  k <= Len(Kinds(c)) /\ Kinds(c)[k] = Compare /\ v = Value(r, k)

(* It goes on with a collective that moves data.                            *)
Moves(r, l, kind, next) ==
  LET c == Computes(r)
      k == Pos(r, l) + 1
  IN  /\ l \in Locations /\ Reachable(r, next) /\ Pos(r, next) = k
      /\ k <= Len(Kinds(c)) /\ Kinds(c)[k] = kind

(* It goes on with a broadcast that only the assertions make.               *)
Flags(r, l, next) ==
  /\ light => Moves(r, l, "MPI_Bcast", next)
  /\ ~light => l \in Locations /\ Reachable(r, next) /\ Pos(r, next) = Pos(r, l)

(* A comparison is entered only with the assertions that communicate.       *)
LEMMA AssertSameInv ==
  ASSUME ControlInv, NEW r \in Rank, NEW l, Runs(r, l),
         NEW v, NEW next, AssertSame(r, v, next), Comparison(r, l, v, next),
         UNCHANGED <<op, light, amount, args>>, BufsStay(r)
  PROVE  ControlInv'
<1> DEFINE c == Computes(r)
           k == Pos(r, l) + 1
<1>1. CASE light
  <2>1. Enter(r, Same(v), next)
    BY <1>1 DEF AssertSame
  <2>2. k <= Len(Kinds(c)) /\ Kinds(c)[k] = Compare /\ v = Value(r, k)
    BY <1>1 DEF Comparison
  <2>3. EntryOK(r, k, Same(v))
    BY <2>2 DEF EntryOK, Same, Collective, Compare
  <2>4. Pos(r, next) = Pos(r, l) + 1 /\ l \in Locations /\ Reachable(r, next)
    BY <1>1 DEF Unit, Comparison
  <2> QED BY <2>1, <2>2, <2>3, <2>4, EnterInv
<1>2. CASE ~light
  <2>1. Go(r, next) /\ UNCHANGED calls
    BY <1>2 DEF AssertSame
  <2>2. Pos(r, next) = Pos(r, l) /\ l \in Locations /\ Reachable(r, next)
    <3>1. l \in Locations /\ Reachable(r, next) /\ Pos(r, next) = Pos(r, l) + Unit
      BY DEF Comparison
    <3>2. Pos(r, l) \in Nat
      <4>1. l \notin Failed
        BY <3>1 DEF Locations, Failed
      <4> QED BY <4>1 DEF ControlInv, TraceInv, Runs, Pos, IsSequence
    <3> QED BY <1>2, <3>1, <3>2 DEF Unit
  <2> QED BY <2>1, <2>2, GoInv DEF Runs
<1> QED BY <1>1, <1>2

(* So is the collective that moves the data.                                *)
LEMMA MoveInv ==
  ASSUME ControlInv, NEW r \in Rank, NEW l, Runs(r, l),
         NEW kind, kind # Compare, NEW out, NEW want, NEW next, Moves(r, l, kind, next),
         Enter(r, Collective(kind, Root(r), out, want), next),
         UNCHANGED <<op, light, amount, args>>, BufsStay(r)
  PROVE  ControlInv'
<1> DEFINE e == Collective(kind, Root(r), out, want)
           c == Computes(r)
           k == Pos(r, l) + 1
<1>1. e.kind = kind /\ e.root = Root(r)
  BY DEF Collective
<1>2. /\ l \in Locations /\ Reachable(r, next) /\ Pos(r, next) = k
      /\ k <= Len(Kinds(c)) /\ Kinds(c)[k] = kind
  BY DEF Moves
<1>3. EntryOK(r, k, e)
  BY <1>1, <1>2 DEF EntryOK
<1> QED BY <1>2, <1>3, EnterInv

(* A buffer that is too small stops the rank, before the collective.        *)
LEMMA ReceiveInv ==
  ASSUME ControlInv, NEW r \in Rank, NEW l, Runs(r, l),
         NEW kind, kind # Compare, Moves(r, l, kind, "return"), NEW out, NEW want, NEW cs, NEW ds, NEW need,
         Receive(r, cs, ds, need, Collective(kind, Root(r), out, want)),
         UNCHANGED <<op, light, amount, args>>
  PROVE  ControlInv'
<1>1. DOMAIN buf = Rank
  BY DEF ControlInv
<1>2. \/ Go(r, "aborted") /\ calls' = calls /\ buf' = buf
      \/ Enter(r, Collective(kind, Root(r), out, want), "return")
  BY DEF Receive, Abort, local
<1>3. BufsStay(r)
  BY <1>1 DEF Receive, Abort, local, BufsStay
<1>4. CASE Go(r, "aborted") /\ calls' = calls /\ buf' = buf
  <2>1. "aborted" \in Failed /\ l \in Locations
    BY DEF Failed, Moves
  <2> QED BY <1>3, <1>4, <2>1, GoInv DEF Runs
<1>5. CASE Enter(r, Collective(kind, Root(r), out, want), "return")
  BY <1>3, <1>5, MoveInv
<1> QED BY <1>2, <1>4, <1>5

(* Assertions that fail stop the rank.                                      *)
LEMMA FailInv ==
  ASSUME ControlInv, NEW r \in Rank, NEW l \in Locations, at[r] = l,
         Abort(r) \/ Reject(r), UNCHANGED <<op, light, amount, args>>, BufsStay(r)
  PROVE  ControlInv'
<1>1. PICK next \in Failed : Go(r, next) /\ UNCHANGED calls
  BY DEF Abort, Reject, Failed
<1> QED BY <1>1, GoInv

(* A rank that only sends.                                                  *)
LEMMA SendOnlyInv ==
  ASSUME ControlInv, NEW r \in Rank, NEW l, Runs(r, l),
         NEW kind, kind # Compare, Moves(r, l, kind, "return"), NEW out, SendOnly(r, kind, out),
         UNCHANGED <<op, light, amount, args>>
  PROVE  ControlInv'
<1>1. BufsStay(r)
  BY DEF SendOnly, local, ControlInv, BufsStay
<1> QED BY <1>1, MoveInv DEF SendOnly

(* A rank that receives blocks of one length.                               *)
LEMMA ReceiveEqualInv ==
  ASSUME ControlInv, NEW r \in Rank, NEW l, Runs(r, l),
         NEW kind, kind # Compare, Moves(r, l, kind, "return"), NEW out, NEW n, ReceiveEqual(r, kind, out, n),
         UNCHANGED <<op, light, amount, args>>
  PROVE  ControlInv'
<1>1. PICK cs, ds, need : Receive(r, cs, ds, need, Collective(kind, Root(r), out, cs))
  BY DEF ReceiveEqual
<1> QED BY <1>1, ReceiveInv

(* One that receives blocks of several lengths.                             *)
LEMMA ReceiveVectorInv ==
  ASSUME ControlInv, NEW r \in Rank, NEW l, Runs(r, l),
         NEW kind, kind # Compare, Moves(r, l, kind, "return"), NEW out, NEW cs, ReceiveVector(r, kind, out, cs),
         UNCHANGED <<op, light, amount, args>>
  PROVE  ControlInv'
<1>1. PICK ds, need : Receive(r, cs, ds, need, Collective(kind, Root(r), out, cs))
  BY DEF ReceiveVector
<1> QED BY <1>1, ReceiveInv

(* One that receives its block from the root.                               *)
LEMMA ReceiveFromRootInv ==
  ASSUME ControlInv, NEW r \in Rank, NEW l, Runs(r, l),
         NEW kind, kind # Compare, Moves(r, l, kind, "return"), NEW out, NEW n, ReceiveFromRoot(r, kind, out, n),
         UNCHANGED <<op, light, amount, args>>
  PROVE  ControlInv'
<1>1. PICK cs, ds : Receive(r, cs, ds, n, Collective(kind, Root(r), out, cs))
  BY DEF ReceiveFromRoot
<1> QED BY <1>1, ReceiveInv

(* A step that changes no buffer.                                           *)
LEMMA LocalStays ==
  ASSUME ControlInv, NEW r, buf' = buf
  PROVE  BufsStay(r)
BY DEF ControlInv, BufsStay

--------------------------------------------------------------------------------
(* Wrappers                                                                 *)

(* Sums of positions: without the assertions the comparisons are not there. *)
LEMMA UnitSums ==
  /\ Unit + Unit = 2 * Unit /\ 2 * Unit + Unit = 3 * Unit /\ 3 * Unit + Unit = 4 * Unit
  /\ 4 * Unit + Unit = 5 * Unit /\ 0 + Unit = Unit
  /\ (Unit + 1) + Unit = 2 * Unit + 1 /\ (2 * Unit + 1) + Unit = 3 * Unit + 1
  /\ (Unit + 1) + 1 = Unit + 2 /\ (2 * Unit + 1) + 1 = 2 * Unit + 2 /\ (3 * Unit + 1) + 1 = 3 * Unit + 2
  /\ (4 * Unit + 1) + 1 = 4 * Unit + 2 /\ (5 * Unit + 1) + 1 = 5 * Unit + 2
  /\ light => /\ 0 + 1 = 1 /\ Unit + 1 = 2 /\ 2 * Unit + 1 = 3 /\ 3 * Unit + 1 = 4 /\ 4 * Unit + 1 = 5
              /\ (Unit + 1) + 1 = 3 /\ (2 * Unit + 1) + 1 = 4
              /\ 0 + 1 = Unit /\ 2 * Unit + 1 = 3 * Unit
  /\ ~light => Unit = 0 /\ 3 * Unit = 2 * Unit
BY DEF Unit

(* gather: the roots are compared, then the data is sent.                   *)
LEMMA GatherChain ==
  ASSUME op = "gather", NEW r
  PROVE  /\ Comparison(r, "call", Root(r), "data")
         /\ Moves(r, "data", "MPI_Gather", "return")
<1> DEFINE c == Computes(r)
<1>1. /\ "call" \in Locations /\ "data" \in Locations
      /\ Reachable(r, "data")
      /\ Reachable(r, "return")
  BY DEF Reachable, Locations, Fits, Finding
<1>2. /\ Pos(r, "call") = 0 /\ Pos(r, "data") = Unit
      /\ Pos(r, "return") = Len(Kinds(c))
  BY DEF Pos, Position, Unit
<1>3. /\ Len(Kinds(c)) = Unit + 1 /\ Kinds(c)[Unit + 1] = "MPI_Gather" /\ Unit + 1 <= Len(Kinds(c))
      /\ light => Kinds(c)[1] = Compare /\ 1 <= Len(Kinds(c))
  <2>1. CASE light
    <3>1. Kinds(c) = <<Compare, "MPI_Gather">>
      BY <2>1 DEF Kinds
    <3>2. Unit = 1
      BY <2>1 DEF Unit
    <3> QED BY <2>1, <3>1, <3>2
  <2>2. CASE ~light
    <3>1. Kinds(c) = <<"MPI_Gather">>
      BY <2>2 DEF Kinds
    <3>2. Unit = 0
      BY <2>2 DEF Unit
    <3> QED BY <2>2, <3>1, <3>2
  <2> QED BY <2>1, <2>2
<1>4. Value(r, 1) = Root(r)
  BY DEF Value
<1>5. Comparison(r, "call", Root(r), "data")
  BY <1>1, <1>2, <1>3, <1>4, UnitSums DEF Comparison
<1>6. Moves(r, "data", "MPI_Gather", "return")
  BY <1>1, <1>2, <1>3, UnitSums DEF Moves
<1> QED BY <1>5, <1>6

(* gatherv: counts nobody gave are gathered first.                           *)
LEMMA GathervChain ==
  ASSUME op = "gatherv", NEW r
  PROVE  /\ Comparison(r, "call", Root(r), "computes")
         /\ Moves(r, "data", "MPI_Gatherv", "return")
         /\ Computes(r) =>
              /\ Comparison(r, "computes", Computes(r), "counts")
              /\ Comparison(r, "counts", Root(r), "exchange")
              /\ Moves(r, "exchange", "MPI_Gather", "data")
         /\ ~Computes(r) =>
              /\ Comparison(r, "computes", Computes(r), "data")
<1> DEFINE c == Computes(r)
<1>1. /\ "call" \in Locations /\ "computes" \in Locations /\ "counts" \in Locations
      /\ "exchange" \in Locations /\ "data" \in Locations
      /\ Reachable(r, "computes")
      /\ (c => Reachable(r, "counts"))
      /\ (c => Reachable(r, "exchange"))
      /\ Reachable(r, "data")
      /\ Reachable(r, "return")
  BY DEF Reachable, Locations, Fits, Finding
<1>2. /\ Pos(r, "call") = 0 /\ Pos(r, "computes") = Unit
      /\ (c => Pos(r, "counts") = 2 * Unit) /\ (c => Pos(r, "exchange") = 3 * Unit)
      /\ (c => Pos(r, "data") = 3 * Unit + 1) /\ (~c => Pos(r, "data") = 2 * Unit)
      /\ Pos(r, "return") = Len(Kinds(c))
  BY DEF Pos, Position, Unit
<1>3. ASSUME c
      PROVE  /\ Len(Kinds(c)) = 3 * Unit + 2
             /\ Kinds(c)[3 * Unit + 1] = "MPI_Gather"
             /\ 3 * Unit + 1 <= Len(Kinds(c))
             /\ Kinds(c)[3 * Unit + 2] = "MPI_Gatherv" /\ 3 * Unit + 2 <= Len(Kinds(c))
             /\ light =>
                  /\ Kinds(c)[1] = Compare /\ Kinds(c)[2] = Compare /\ Kinds(c)[3] = Compare
                  /\ 1 <= Len(Kinds(c)) /\ 2 <= Len(Kinds(c)) /\ 3 <= Len(Kinds(c))
  <2>1. CASE light
    <3>1. Kinds(c) = <<Compare, Compare, Compare, "MPI_Gather", "MPI_Gatherv">>
      BY <1>3, <2>1 DEF Kinds
    <3>2. Unit = 1
      BY <2>1 DEF Unit
    <3> QED BY <2>1, <3>1, <3>2
  <2>2. CASE ~light
    <3>1. Kinds(c) = <<"MPI_Gather", "MPI_Gatherv">>
      BY <1>3, <2>2 DEF Kinds
    <3>2. Unit = 0
      BY <2>2 DEF Unit
    <3> QED BY <2>2, <3>1, <3>2
  <2> QED BY <2>1, <2>2
<1>4. ASSUME ~c
      PROVE  /\ Len(Kinds(c)) = 2 * Unit + 1
             /\ Kinds(c)[2 * Unit + 1] = "MPI_Gatherv"
             /\ 2 * Unit + 1 <= Len(Kinds(c))
             /\ light =>
                  /\ Kinds(c)[1] = Compare /\ Kinds(c)[2] = Compare /\ 1 <= Len(Kinds(c))
                  /\ 2 <= Len(Kinds(c))
  <2>1. CASE light
    <3>1. Kinds(c) = <<Compare, Compare, "MPI_Gatherv">>
      BY <1>4, <2>1 DEF Kinds
    <3>2. Unit = 1
      BY <2>1 DEF Unit
    <3> QED BY <2>1, <3>1, <3>2
  <2>2. CASE ~light
    <3>1. Kinds(c) = <<"MPI_Gatherv">>
      BY <1>4, <2>2 DEF Kinds
    <3>2. Unit = 0
      BY <2>2 DEF Unit
    <3> QED BY <2>2, <3>1, <3>2
  <2> QED BY <2>1, <2>2
<1>5. Value(r, 1) = Root(r)
  BY DEF Value
<1>6. Value(r, 2) = Computes(r)
  BY DEF Value
<1>7. c => Value(r, 3) = Root(r)
  BY DEF Value
<1>8. Comparison(r, "call", Root(r), "computes")
  BY <1>1, <1>2, <1>3, <1>4, <1>5, UnitSums DEF Comparison
<1>9. c => Comparison(r, "computes", Computes(r), "counts")
  BY <1>1, <1>2, <1>3, <1>6, UnitSums DEF Comparison
<1>10. c => Comparison(r, "counts", Root(r), "exchange")
  BY ZenonT(60), <1>1, <1>2, <1>3, <1>7, UnitSums DEF Comparison
<1>11. c => Moves(r, "exchange", "MPI_Gather", "data")
  BY <1>1, <1>2, <1>3, UnitSums DEF Moves
<1>12. Moves(r, "data", "MPI_Gatherv", "return")
  BY <1>1, <1>2, <1>3, <1>4, UnitSums DEF Moves
<1>13. ~c => Comparison(r, "computes", Computes(r), "data")
  BY <1>1, <1>2, <1>4, <1>6, UnitSums DEF Comparison
<1> QED BY <1>8, <1>9, <1>10, <1>11, <1>12, <1>13

(* allgather compares the lengths of the messages.                          *)
LEMMA AllgatherChain ==
  ASSUME op = "allgather", NEW r
  PROVE  /\ Comparison(r, "call", Len(Msg(r, r)), "data")
         /\ Moves(r, "data", "MPI_Allgather", "return")
<1> DEFINE c == Computes(r)
<1>1. /\ "call" \in Locations /\ "data" \in Locations
      /\ Reachable(r, "data")
      /\ Reachable(r, "return")
  BY DEF Reachable, Locations, Fits, Finding
<1>2. /\ Pos(r, "call") = 0 /\ Pos(r, "data") = Unit
      /\ Pos(r, "return") = Len(Kinds(c))
  BY DEF Pos, Position, Unit
<1>3. /\ Len(Kinds(c)) = Unit + 1 /\ Kinds(c)[Unit + 1] = "MPI_Allgather" /\ Unit + 1 <= Len(Kinds(c))
      /\ light => Kinds(c)[1] = Compare /\ 1 <= Len(Kinds(c))
  <2>1. CASE light
    <3>1. Kinds(c) = <<Compare, "MPI_Allgather">>
      BY <2>1 DEF Kinds
    <3>2. Unit = 1
      BY <2>1 DEF Unit
    <3> QED BY <2>1, <3>1, <3>2
  <2>2. CASE ~light
    <3>1. Kinds(c) = <<"MPI_Allgather">>
      BY <2>2 DEF Kinds
    <3>2. Unit = 0
      BY <2>2 DEF Unit
    <3> QED BY <2>2, <3>1, <3>2
  <2> QED BY <2>1, <2>2
<1>4. Value(r, 1) = Len(Msg(r, r))
  BY DEF Value
<1>5. Comparison(r, "call", Len(Msg(r, r)), "data")
  BY <1>1, <1>2, <1>3, <1>4, UnitSums DEF Comparison
<1>6. Moves(r, "data", "MPI_Allgather", "return")
  BY <1>1, <1>2, <1>3, UnitSums DEF Moves
<1> QED BY <1>5, <1>6

(* allgather_inplace, the lengths of the buffers.                           *)
LEMMA AllgatherInplaceChain ==
  ASSUME op = "allgather_inplace", NEW r
  PROVE  /\ Comparison(r, "call", Len(InitialBuf(r)), "data")
         /\ Moves(r, "data", "MPI_Allgather", "return")
<1> DEFINE c == Computes(r)
<1>1. /\ "call" \in Locations /\ "data" \in Locations
      /\ Reachable(r, "data")
      /\ Reachable(r, "return")
  BY DEF Reachable, Locations, Fits, Finding
<1>2. /\ Pos(r, "call") = 0 /\ Pos(r, "data") = Unit
      /\ Pos(r, "return") = Len(Kinds(c))
  BY DEF Pos, Position, Unit
<1>3. /\ Len(Kinds(c)) = Unit + 1 /\ Kinds(c)[Unit + 1] = "MPI_Allgather" /\ Unit + 1 <= Len(Kinds(c))
      /\ light => Kinds(c)[1] = Compare /\ 1 <= Len(Kinds(c))
  <2>1. CASE light
    <3>1. Kinds(c) = <<Compare, "MPI_Allgather">>
      BY <2>1 DEF Kinds
    <3>2. Unit = 1
      BY <2>1 DEF Unit
    <3> QED BY <2>1, <3>1, <3>2
  <2>2. CASE ~light
    <3>1. Kinds(c) = <<"MPI_Allgather">>
      BY <2>2 DEF Kinds
    <3>2. Unit = 0
      BY <2>2 DEF Unit
    <3> QED BY <2>2, <3>1, <3>2
  <2> QED BY <2>1, <2>2
<1>4. Value(r, 1) = Len(InitialBuf(r))
  BY DEF Value
<1>5. Comparison(r, "call", Len(InitialBuf(r)), "data")
  BY <1>1, <1>2, <1>3, <1>4, UnitSums DEF Comparison
<1>6. Moves(r, "data", "MPI_Allgather", "return")
  BY <1>1, <1>2, <1>3, UnitSums DEF Moves
<1> QED BY <1>5, <1>6

(* allgatherv: counts nobody gave are gathered first.                        *)
LEMMA AllgathervChain ==
  ASSUME op = "allgatherv", NEW r
  PROVE  /\ Comparison(r, "displs", args[r].recv_displs = "omitted", "data")
         /\ Moves(r, "data", "MPI_Allgatherv", "return")
         /\ Computes(r) =>
              /\ Comparison(r, "call", Computes(r), "counts")
              /\ Comparison(r, "counts", 1, "exchange")
              /\ Moves(r, "exchange", "MPI_Allgather", "displs")
         /\ ~Computes(r) =>
              /\ Comparison(r, "call", Computes(r), "displs")
<1> DEFINE c == Computes(r)
<1>1. /\ "call" \in Locations /\ "counts" \in Locations /\ "exchange" \in Locations
      /\ "displs" \in Locations /\ "data" \in Locations
      /\ (c => Reachable(r, "counts"))
      /\ (c => Reachable(r, "exchange"))
      /\ Reachable(r, "displs")
      /\ Reachable(r, "data")
      /\ Reachable(r, "return")
  BY DEF Reachable, Locations, Fits, Finding
<1>2. /\ Pos(r, "call") = 0 /\ (c => Pos(r, "counts") = Unit)
      /\ (c => Pos(r, "exchange") = 2 * Unit) /\ (c => Pos(r, "displs") = 2 * Unit + 1)
      /\ (~c => Pos(r, "displs") = Unit) /\ (c => Pos(r, "data") = 3 * Unit + 1)
      /\ (~c => Pos(r, "data") = 2 * Unit) /\ Pos(r, "return") = Len(Kinds(c))
  BY DEF Pos, Position, Unit
<1>3. ASSUME c
      PROVE  /\ Len(Kinds(c)) = 3 * Unit + 2
             /\ Kinds(c)[2 * Unit + 1] = "MPI_Allgather"
             /\ 2 * Unit + 1 <= Len(Kinds(c))
             /\ Kinds(c)[3 * Unit + 2] = "MPI_Allgatherv" /\ 3 * Unit + 2 <= Len(Kinds(c))
             /\ light =>
                  /\ Kinds(c)[1] = Compare /\ Kinds(c)[2] = Compare /\ Kinds(c)[4] = Compare
                  /\ 1 <= Len(Kinds(c)) /\ 2 <= Len(Kinds(c)) /\ 4 <= Len(Kinds(c))
  <2>1. CASE light
    <3>1. Kinds(c) = <<Compare, Compare, "MPI_Allgather", Compare, "MPI_Allgatherv">>
      BY <1>3, <2>1 DEF Kinds
    <3>2. Unit = 1
      BY <2>1 DEF Unit
    <3> QED BY <2>1, <3>1, <3>2
  <2>2. CASE ~light
    <3>1. Kinds(c) = <<"MPI_Allgather", "MPI_Allgatherv">>
      BY <1>3, <2>2 DEF Kinds
    <3>2. Unit = 0
      BY <2>2 DEF Unit
    <3> QED BY <2>2, <3>1, <3>2
  <2> QED BY <2>1, <2>2
<1>4. ASSUME ~c
      PROVE  /\ Len(Kinds(c)) = 2 * Unit + 1
             /\ Kinds(c)[2 * Unit + 1] = "MPI_Allgatherv"
             /\ 2 * Unit + 1 <= Len(Kinds(c))
             /\ light =>
                  /\ Kinds(c)[1] = Compare /\ Kinds(c)[2] = Compare /\ 1 <= Len(Kinds(c))
                  /\ 2 <= Len(Kinds(c))
  <2>1. CASE light
    <3>1. Kinds(c) = <<Compare, Compare, "MPI_Allgatherv">>
      BY <1>4, <2>1 DEF Kinds
    <3>2. Unit = 1
      BY <2>1 DEF Unit
    <3> QED BY <2>1, <3>1, <3>2
  <2>2. CASE ~light
    <3>1. Kinds(c) = <<"MPI_Allgatherv">>
      BY <1>4, <2>2 DEF Kinds
    <3>2. Unit = 0
      BY <2>2 DEF Unit
    <3> QED BY <2>2, <3>1, <3>2
  <2> QED BY <2>1, <2>2
<1>5. Value(r, 1) = Computes(r)
  BY DEF Value
<1>6. c => Value(r, 2) = 1
  BY DEF Value
<1>7. c => Value(r, 4) = (args[r].recv_displs = "omitted")
  BY DEF Value
<1>8. ~c => Value(r, 2) = (args[r].recv_displs = "omitted")
  BY DEF Value
<1>9. c => Comparison(r, "call", Computes(r), "counts")
  BY <1>1, <1>2, <1>3, <1>5, UnitSums DEF Comparison
<1>10. c => Comparison(r, "counts", 1, "exchange")
  BY ZenonT(60), <1>1, <1>2, <1>3, <1>6, UnitSums DEF Comparison
<1>11. c => Moves(r, "exchange", "MPI_Allgather", "displs")
  BY <1>1, <1>2, <1>3, UnitSums DEF Moves
<1>12. Comparison(r, "displs", args[r].recv_displs = "omitted", "data")
  BY <1>1, <1>2, <1>3, <1>4, <1>7, <1>8, UnitSums DEF Comparison
<1>13. Moves(r, "data", "MPI_Allgatherv", "return")
  BY <1>1, <1>2, <1>3, <1>4, UnitSums DEF Moves
<1>14. ~c => Comparison(r, "call", Computes(r), "displs")
  BY <1>1, <1>2, <1>4, <1>5, UnitSums DEF Comparison
<1> QED BY <1>9, <1>10, <1>11, <1>12, <1>13, <1>14

(* scatter: a count nobody gave is broadcast first, by bcast_single.         *)
LEMMA ScatterChain ==
  ASSUME op \in {"scatter", "scatter_single"}, NEW r
  PROVE  /\ Comparison(r, "call", Root(r), "buffer")
         /\ Moves(r, "data", "MPI_Scatter", "return")
         /\ Computes(r) =>
              /\ Comparison(r, "buffer", Computes(r), "flag")
              /\ Flags(r, "flag", "bcast")
              /\ Comparison(r, "bcast", Root(r), "bcast count")
              /\ Comparison(r, "bcast count", FALSE, "value")
              /\ Moves(r, "value", "MPI_Bcast", "data")
         /\ ~Computes(r) =>
              /\ Comparison(r, "buffer", Computes(r), "data")
<1> DEFINE c == Computes(r)
<1>1. /\ "call" \in Locations /\ "buffer" \in Locations /\ "flag" \in Locations
      /\ "bcast" \in Locations /\ "bcast count" \in Locations /\ "value" \in Locations
      /\ "data" \in Locations
      /\ Reachable(r, "buffer")
      /\ (c => Reachable(r, "flag"))
      /\ (c => Reachable(r, "bcast"))
      /\ (c => Reachable(r, "bcast count"))
      /\ (c => Reachable(r, "value"))
      /\ Reachable(r, "data")
      /\ Reachable(r, "return")
  BY DEF Reachable, Locations, Fits, Finding
<1>2. /\ Pos(r, "call") = 0 /\ Pos(r, "buffer") = Unit
      /\ (c => Pos(r, "flag") = 2 * Unit) /\ (c => Pos(r, "bcast") = 3 * Unit)
      /\ (c => Pos(r, "bcast count") = 4 * Unit) /\ (c => Pos(r, "value") = 5 * Unit)
      /\ (c => Pos(r, "data") = 5 * Unit + 1) /\ (~c => Pos(r, "data") = 2 * Unit)
      /\ Pos(r, "return") = Len(Kinds(c))
  BY DEF Pos, Position, Unit
<1>3. ASSUME c
      PROVE  /\ Len(Kinds(c)) = 5 * Unit + 2
             /\ Kinds(c)[5 * Unit + 1] = "MPI_Bcast"
             /\ 5 * Unit + 1 <= Len(Kinds(c))
             /\ Kinds(c)[5 * Unit + 2] = "MPI_Scatter" /\ 5 * Unit + 2 <= Len(Kinds(c))
             /\ light =>
                  /\ Kinds(c)[1] = Compare /\ Kinds(c)[2] = Compare /\ Kinds(c)[3] = "MPI_Bcast"
                  /\ Kinds(c)[4] = Compare /\ Kinds(c)[5] = Compare /\ 1 <= Len(Kinds(c))
                  /\ 2 <= Len(Kinds(c)) /\ 3 <= Len(Kinds(c)) /\ 4 <= Len(Kinds(c))
                  /\ 5 <= Len(Kinds(c))
  <2>1. CASE light
    <3>1. Kinds(c) = <<Compare, Compare, "MPI_Bcast", Compare, Compare, "MPI_Bcast", "MPI_Scatter">>
      BY <1>3, <2>1 DEF Kinds
    <3>2. Unit = 1
      BY <2>1 DEF Unit
    <3> QED BY <2>1, <3>1, <3>2
  <2>2. CASE ~light
    <3>1. Kinds(c) = <<"MPI_Bcast", "MPI_Scatter">>
      BY <1>3, <2>2 DEF Kinds
    <3>2. Unit = 0
      BY <2>2 DEF Unit
    <3> QED BY <2>2, <3>1, <3>2
  <2> QED BY <2>1, <2>2
<1>4. ASSUME ~c
      PROVE  /\ Len(Kinds(c)) = 2 * Unit + 1
             /\ Kinds(c)[2 * Unit + 1] = "MPI_Scatter"
             /\ 2 * Unit + 1 <= Len(Kinds(c))
             /\ light =>
                  /\ Kinds(c)[1] = Compare /\ Kinds(c)[2] = Compare /\ 1 <= Len(Kinds(c))
                  /\ 2 <= Len(Kinds(c))
  <2>1. CASE light
    <3>1. Kinds(c) = <<Compare, Compare, "MPI_Scatter">>
      BY <1>4, <2>1 DEF Kinds
    <3>2. Unit = 1
      BY <2>1 DEF Unit
    <3> QED BY <2>1, <3>1, <3>2
  <2>2. CASE ~light
    <3>1. Kinds(c) = <<"MPI_Scatter">>
      BY <1>4, <2>2 DEF Kinds
    <3>2. Unit = 0
      BY <2>2 DEF Unit
    <3> QED BY <2>2, <3>1, <3>2
  <2> QED BY <2>1, <2>2
<1>5. \A k : (k # 2 /\ k = 5 => Value(r, k) = FALSE) /\ (k # 2 /\ k # 5 => Value(r, k) = Root(r))
  BY Zenon DEF Value
<1>6. Value(r, 1) = Root(r)
  BY <1>5
<1>7. Value(r, 2) = Computes(r)
  BY DEF Value
<1>8. c => Value(r, 4) = Root(r)
  BY <1>5
<1>9. c => Value(r, 5) = FALSE
  BY <1>5
<1>10. Comparison(r, "call", Root(r), "buffer")
  BY <1>1, <1>2, <1>3, <1>4, <1>6, UnitSums DEF Comparison
<1>11. c => Comparison(r, "buffer", Computes(r), "flag")
  BY <1>1, <1>2, <1>3, <1>7, UnitSums DEF Comparison
<1>12. c => Flags(r, "flag", "bcast")
  BY ZenonT(60), <1>1, <1>2, <1>3, UnitSums DEF Flags, Moves
<1>13. c => Comparison(r, "bcast", Root(r), "bcast count")
  BY ZenonT(60), <1>1, <1>2, <1>3, <1>8, UnitSums DEF Comparison
<1>14. c => Comparison(r, "bcast count", FALSE, "value")
  BY ZenonT(60), <1>1, <1>2, <1>3, <1>9, UnitSums DEF Comparison
<1>15. c => Moves(r, "value", "MPI_Bcast", "data")
  BY <1>1, <1>2, <1>3, UnitSums DEF Moves
<1>16. Moves(r, "data", "MPI_Scatter", "return")
  BY ZenonT(60), <1>1, <1>2, <1>3, <1>4, UnitSums DEF Moves
<1>17. ~c => Comparison(r, "buffer", Computes(r), "data")
  BY <1>1, <1>2, <1>4, <1>7, UnitSums DEF Comparison
<1> QED BY <1>10, <1>11, <1>12, <1>13, <1>14, <1>15, <1>16, <1>17

(* scatterv: counts nobody gave are scattered first.                         *)
LEMMA ScattervChain ==
  ASSUME op = "scatterv", NEW r
  PROVE  /\ Comparison(r, "call", Root(r), "buffer")
         /\ Moves(r, "data", "MPI_Scatterv", "return")
         /\ Computes(r) =>
              /\ Comparison(r, "buffer", Computes(r), "counts")
              /\ Comparison(r, "counts", Root(r), "counts given")
              /\ Comparison(r, "counts given", FALSE, "exchange")
              /\ Moves(r, "exchange", "MPI_Scatter", "data")
         /\ ~Computes(r) =>
              /\ Comparison(r, "buffer", Computes(r), "data")
<1> DEFINE c == Computes(r)
<1>1. /\ "call" \in Locations /\ "buffer" \in Locations /\ "counts" \in Locations
      /\ "counts given" \in Locations /\ "exchange" \in Locations /\ "data" \in Locations
      /\ Reachable(r, "buffer")
      /\ (c => Reachable(r, "counts"))
      /\ (c => Reachable(r, "counts given"))
      /\ (c => Reachable(r, "exchange"))
      /\ Reachable(r, "data")
      /\ Reachable(r, "return")
  BY DEF Reachable, Locations, Fits, Finding
<1>2. /\ Pos(r, "call") = 0 /\ Pos(r, "buffer") = Unit
      /\ (c => Pos(r, "counts") = 2 * Unit) /\ (c => Pos(r, "counts given") = 3 * Unit)
      /\ (c => Pos(r, "exchange") = 4 * Unit) /\ (c => Pos(r, "data") = 4 * Unit + 1)
      /\ (~c => Pos(r, "data") = 2 * Unit) /\ Pos(r, "return") = Len(Kinds(c))
  BY DEF Pos, Position, Unit
<1>3. ASSUME c
      PROVE  /\ Len(Kinds(c)) = 4 * Unit + 2
             /\ Kinds(c)[4 * Unit + 1] = "MPI_Scatter"
             /\ 4 * Unit + 1 <= Len(Kinds(c))
             /\ Kinds(c)[4 * Unit + 2] = "MPI_Scatterv" /\ 4 * Unit + 2 <= Len(Kinds(c))
             /\ light =>
                  /\ Kinds(c)[1] = Compare /\ Kinds(c)[2] = Compare /\ Kinds(c)[3] = Compare
                  /\ Kinds(c)[4] = Compare /\ 1 <= Len(Kinds(c)) /\ 2 <= Len(Kinds(c))
                  /\ 3 <= Len(Kinds(c)) /\ 4 <= Len(Kinds(c))
  <2>1. CASE light
    <3>1. Kinds(c) = <<Compare, Compare, Compare, Compare, "MPI_Scatter", "MPI_Scatterv">>
      BY <1>3, <2>1 DEF Kinds
    <3>2. Unit = 1
      BY <2>1 DEF Unit
    <3> QED BY <2>1, <3>1, <3>2
  <2>2. CASE ~light
    <3>1. Kinds(c) = <<"MPI_Scatter", "MPI_Scatterv">>
      BY <1>3, <2>2 DEF Kinds
    <3>2. Unit = 0
      BY <2>2 DEF Unit
    <3> QED BY <2>2, <3>1, <3>2
  <2> QED BY <2>1, <2>2
<1>4. ASSUME ~c
      PROVE  /\ Len(Kinds(c)) = 2 * Unit + 1
             /\ Kinds(c)[2 * Unit + 1] = "MPI_Scatterv"
             /\ 2 * Unit + 1 <= Len(Kinds(c))
             /\ light =>
                  /\ Kinds(c)[1] = Compare /\ Kinds(c)[2] = Compare /\ 1 <= Len(Kinds(c))
                  /\ 2 <= Len(Kinds(c))
  <2>1. CASE light
    <3>1. Kinds(c) = <<Compare, Compare, "MPI_Scatterv">>
      BY <1>4, <2>1 DEF Kinds
    <3>2. Unit = 1
      BY <2>1 DEF Unit
    <3> QED BY <2>1, <3>1, <3>2
  <2>2. CASE ~light
    <3>1. Kinds(c) = <<"MPI_Scatterv">>
      BY <1>4, <2>2 DEF Kinds
    <3>2. Unit = 0
      BY <2>2 DEF Unit
    <3> QED BY <2>2, <3>1, <3>2
  <2> QED BY <2>1, <2>2
<1>5. \A k : (k # 2 /\ k = 4 => Value(r, k) = FALSE) /\ (k # 2 /\ k # 4 => Value(r, k) = Root(r))
  BY Zenon DEF Value
<1>6. Value(r, 1) = Root(r)
  BY <1>5
<1>7. Value(r, 2) = Computes(r)
  BY DEF Value
<1>8. c => Value(r, 3) = Root(r)
  BY <1>5
<1>9. c => Value(r, 4) = FALSE
  BY <1>5
<1>10. Comparison(r, "call", Root(r), "buffer")
  BY <1>1, <1>2, <1>3, <1>4, <1>6, UnitSums DEF Comparison
<1>11. c => Comparison(r, "buffer", Computes(r), "counts")
  BY <1>1, <1>2, <1>3, <1>7, UnitSums DEF Comparison
<1>12. c => Comparison(r, "counts", Root(r), "counts given")
  BY ZenonT(60), <1>1, <1>2, <1>3, <1>8, UnitSums DEF Comparison
<1>13. c => Comparison(r, "counts given", FALSE, "exchange")
  BY ZenonT(60), <1>1, <1>2, <1>3, <1>9, UnitSums DEF Comparison
<1>14. c => Moves(r, "exchange", "MPI_Scatter", "data")
  BY <1>1, <1>2, <1>3, UnitSums DEF Moves
<1>15. Moves(r, "data", "MPI_Scatterv", "return")
  BY ZenonT(60), <1>1, <1>2, <1>3, <1>4, UnitSums DEF Moves
<1>16. ~c => Comparison(r, "buffer", Computes(r), "data")
  BY <1>1, <1>2, <1>4, <1>7, UnitSums DEF Comparison
<1> QED BY <1>10, <1>11, <1>12, <1>13, <1>14, <1>15, <1>16

(* alltoall is one collective.                                              *)
LEMMA AlltoallChain ==
  ASSUME op \in {"alltoall", "alltoall_inplace"}, NEW r
  PROVE  /\ Moves(r, "call", "MPI_Alltoall", "return")
<1> DEFINE c == Computes(r)
<1>1. /\ "call" \in Locations
      /\ Reachable(r, "return")
  BY DEF Reachable, Locations, Fits, Finding
<1>2. /\ Pos(r, "call") = 0 /\ Pos(r, "return") = Len(Kinds(c))
  BY DEF Pos, Position, Unit
<1>3. /\ Len(Kinds(c)) = 1 /\ Kinds(c)[1] = "MPI_Alltoall" /\ 1 <= Len(Kinds(c))
  <2>1. Kinds(c) = <<"MPI_Alltoall">>
    BY DEF Kinds
  <2> QED BY <2>1
<1>4. Moves(r, "call", "MPI_Alltoall", "return")
  BY <1>1, <1>2, <1>3, UnitSums DEF Moves
<1> QED BY <1>4

(* alltoallv: counts nobody gave are exchanged first.                        *)
LEMMA AlltoallvChain ==
  ASSUME op = "alltoallv", NEW r
  PROVE  /\ Comparison(r, "send displs", args[r].send_displs = "omitted", "recv displs")
         /\ Comparison(r, "recv displs", args[r].recv_displs = "omitted", "data")
         /\ Moves(r, "data", "MPI_Alltoallv", "return")
         /\ Computes(r) =>
              /\ Comparison(r, "call", Computes(r), "exchange")
              /\ Moves(r, "exchange", "MPI_Alltoall", "send displs")
         /\ ~Computes(r) =>
              /\ Comparison(r, "call", Computes(r), "send displs")
<1> DEFINE c == Computes(r)
<1>1. /\ "call" \in Locations /\ "exchange" \in Locations /\ "send displs" \in Locations
      /\ "recv displs" \in Locations /\ "data" \in Locations
      /\ (c => Reachable(r, "exchange"))
      /\ Reachable(r, "send displs")
      /\ Reachable(r, "recv displs")
      /\ Reachable(r, "data")
      /\ Reachable(r, "return")
  BY DEF Reachable, Locations, Fits, Finding
<1>2. /\ Pos(r, "call") = 0 /\ (c => Pos(r, "exchange") = Unit)
      /\ (c => Pos(r, "send displs") = Unit + 1) /\ (~c => Pos(r, "send displs") = Unit)
      /\ (c => Pos(r, "recv displs") = 2 * Unit + 1) /\ (~c => Pos(r, "recv displs") = 2 * Unit)
      /\ (c => Pos(r, "data") = 3 * Unit + 1) /\ (~c => Pos(r, "data") = 3 * Unit)
      /\ Pos(r, "return") = Len(Kinds(c))
  BY DEF Pos, Position, Unit
<1>3. ASSUME c
      PROVE  /\ Len(Kinds(c)) = 3 * Unit + 2
             /\ Kinds(c)[Unit + 1] = "MPI_Alltoall"
             /\ Unit + 1 <= Len(Kinds(c))
             /\ Kinds(c)[3 * Unit + 2] = "MPI_Alltoallv" /\ 3 * Unit + 2 <= Len(Kinds(c))
             /\ light =>
                  /\ Kinds(c)[1] = Compare /\ Kinds(c)[3] = Compare /\ Kinds(c)[4] = Compare
                  /\ 1 <= Len(Kinds(c)) /\ 3 <= Len(Kinds(c)) /\ 4 <= Len(Kinds(c))
  <2>1. CASE light
    <3>1. Kinds(c) = <<Compare, "MPI_Alltoall", Compare, Compare, "MPI_Alltoallv">>
      BY <1>3, <2>1 DEF Kinds
    <3>2. Unit = 1
      BY <2>1 DEF Unit
    <3> QED BY <2>1, <3>1, <3>2
  <2>2. CASE ~light
    <3>1. Kinds(c) = <<"MPI_Alltoall", "MPI_Alltoallv">>
      BY <1>3, <2>2 DEF Kinds
    <3>2. Unit = 0
      BY <2>2 DEF Unit
    <3> QED BY <2>2, <3>1, <3>2
  <2> QED BY <2>1, <2>2
<1>4. ASSUME ~c
      PROVE  /\ Len(Kinds(c)) = 3 * Unit + 1
             /\ Kinds(c)[3 * Unit + 1] = "MPI_Alltoallv"
             /\ 3 * Unit + 1 <= Len(Kinds(c))
             /\ light =>
                  /\ Kinds(c)[1] = Compare /\ Kinds(c)[2] = Compare /\ Kinds(c)[3] = Compare
                  /\ 1 <= Len(Kinds(c)) /\ 2 <= Len(Kinds(c)) /\ 3 <= Len(Kinds(c))
  <2>1. CASE light
    <3>1. Kinds(c) = <<Compare, Compare, Compare, "MPI_Alltoallv">>
      BY <1>4, <2>1 DEF Kinds
    <3>2. Unit = 1
      BY <2>1 DEF Unit
    <3> QED BY <2>1, <3>1, <3>2
  <2>2. CASE ~light
    <3>1. Kinds(c) = <<"MPI_Alltoallv">>
      BY <1>4, <2>2 DEF Kinds
    <3>2. Unit = 0
      BY <2>2 DEF Unit
    <3> QED BY <2>2, <3>1, <3>2
  <2> QED BY <2>1, <2>2
<1>5. Value(r, 1) = Computes(r)
  BY DEF Value
<1>6. c => Value(r, 3) = (args[r].send_displs = "omitted")
  BY DEF Value
<1>7. c => Value(r, 4) = (args[r].recv_displs = "omitted")
  BY DEF Value
<1>8. ~c => Value(r, 2) = (args[r].send_displs = "omitted")
  BY DEF Value
<1>9. ~c => Value(r, 3) = (args[r].recv_displs = "omitted")
  BY DEF Value
<1>10. c => Comparison(r, "call", Computes(r), "exchange")
  BY <1>1, <1>2, <1>3, <1>5, UnitSums DEF Comparison
<1>11. c => Moves(r, "exchange", "MPI_Alltoall", "send displs")
  BY <1>1, <1>2, <1>3, UnitSums DEF Moves
<1>12. Comparison(r, "send displs", args[r].send_displs = "omitted", "recv displs")
  BY ZenonT(60), <1>1, <1>2, <1>3, <1>4, <1>6, <1>8, UnitSums DEF Comparison
<1>13. Comparison(r, "recv displs", args[r].recv_displs = "omitted", "data")
  BY ZenonT(60), <1>1, <1>2, <1>3, <1>4, <1>7, <1>9, UnitSums DEF Comparison
<1>14. Moves(r, "data", "MPI_Alltoallv", "return")
  BY <1>1, <1>2, <1>3, <1>4, UnitSums DEF Moves
<1>15. ~c => Comparison(r, "call", Computes(r), "send displs")
  BY <1>1, <1>2, <1>4, <1>5, UnitSums DEF Comparison
<1> QED BY <1>10, <1>11, <1>12, <1>13, <1>14, <1>15

(* bcast: a count nobody gave is broadcast first.                           *)
LEMMA BcastChain ==
  ASSUME op = "bcast", NEW r
  PROVE  /\ Comparison(r, "call", Root(r), "computes")
         /\ Computes(r) =>
              /\ Comparison(r, "computes", Computes(r), "count")
              /\ Moves(r, "count", "MPI_Bcast", "data")
              /\ Moves(r, "data", "MPI_Bcast", "return")
         /\ ~Computes(r) =>
              /\ Comparison(r, "computes", Computes(r), "given")
              /\ Moves(r, "given", "MPI_Bcast", "return")
<1> DEFINE c == Computes(r)
<1>1. /\ "call" \in Locations /\ "computes" \in Locations /\ "count" \in Locations
      /\ "data" \in Locations /\ "given" \in Locations
      /\ Reachable(r, "computes")
      /\ (c => Reachable(r, "count"))
      /\ (c => Reachable(r, "data"))
      /\ (~c => Reachable(r, "given"))
      /\ Reachable(r, "return")
  BY DEF Reachable, Locations, Fits, Finding
<1>2. /\ Pos(r, "call") = 0 /\ Pos(r, "computes") = Unit
      /\ (c => Pos(r, "count") = 2 * Unit) /\ (c => Pos(r, "data") = 2 * Unit + 1)
      /\ (~c => Pos(r, "given") = 2 * Unit) /\ Pos(r, "return") = Len(Kinds(c))
  BY DEF Pos, Position, Unit
<1>3. ASSUME c
      PROVE  /\ Len(Kinds(c)) = 2 * Unit + 2
             /\ Kinds(c)[2 * Unit + 1] = "MPI_Bcast"
             /\ 2 * Unit + 1 <= Len(Kinds(c))
             /\ Kinds(c)[2 * Unit + 2] = "MPI_Bcast" /\ 2 * Unit + 2 <= Len(Kinds(c))
             /\ light =>
                  /\ Kinds(c)[1] = Compare /\ Kinds(c)[2] = Compare /\ 1 <= Len(Kinds(c))
                  /\ 2 <= Len(Kinds(c))
  <2>1. CASE light
    <3>1. Kinds(c) = <<Compare, Compare, "MPI_Bcast", "MPI_Bcast">>
      BY <1>3, <2>1 DEF Kinds
    <3>2. Unit = 1
      BY <2>1 DEF Unit
    <3> QED BY <2>1, <3>1, <3>2
  <2>2. CASE ~light
    <3>1. Kinds(c) = <<"MPI_Bcast", "MPI_Bcast">>
      BY <1>3, <2>2 DEF Kinds
    <3>2. Unit = 0
      BY <2>2 DEF Unit
    <3> QED BY <2>2, <3>1, <3>2
  <2> QED BY <2>1, <2>2
<1>4. ASSUME ~c
      PROVE  /\ Len(Kinds(c)) = 2 * Unit + 1
             /\ Kinds(c)[2 * Unit + 1] = "MPI_Bcast"
             /\ 2 * Unit + 1 <= Len(Kinds(c))
             /\ light =>
                  /\ Kinds(c)[1] = Compare /\ Kinds(c)[2] = Compare /\ 1 <= Len(Kinds(c))
                  /\ 2 <= Len(Kinds(c))
  <2>1. CASE light
    <3>1. Kinds(c) = <<Compare, Compare, "MPI_Bcast">>
      BY <1>4, <2>1 DEF Kinds
    <3>2. Unit = 1
      BY <2>1 DEF Unit
    <3> QED BY <2>1, <3>1, <3>2
  <2>2. CASE ~light
    <3>1. Kinds(c) = <<"MPI_Bcast">>
      BY <1>4, <2>2 DEF Kinds
    <3>2. Unit = 0
      BY <2>2 DEF Unit
    <3> QED BY <2>2, <3>1, <3>2
  <2> QED BY <2>1, <2>2
<1>5. Value(r, 1) = Root(r)
  BY DEF Value
<1>6. Value(r, 2) = Computes(r)
  BY DEF Value
<1>7. Comparison(r, "call", Root(r), "computes")
  BY <1>1, <1>2, <1>3, <1>4, <1>5, UnitSums DEF Comparison
<1>8. c => Comparison(r, "computes", Computes(r), "count")
  BY <1>1, <1>2, <1>3, <1>6, UnitSums DEF Comparison
<1>9. c => Moves(r, "count", "MPI_Bcast", "data")
  BY <1>1, <1>2, <1>3, UnitSums DEF Moves
<1>10. c => Moves(r, "data", "MPI_Bcast", "return")
  BY <1>1, <1>2, <1>3, UnitSums DEF Moves
<1>11. ~c => Comparison(r, "computes", Computes(r), "given")
  BY <1>1, <1>2, <1>4, <1>6, UnitSums DEF Comparison
<1>12. ~c => Moves(r, "given", "MPI_Bcast", "return")
  BY <1>1, <1>2, <1>4, UnitSums DEF Moves
<1> QED BY <1>7, <1>8, <1>9, <1>10, <1>11, <1>12

(* bcast_single: the assertions tell whether the root has a buffer.         *)
LEMMA BcastSingleChain ==
  ASSUME op = "bcast_single", NEW r, ~Computes(r)
  PROVE  /\ Flags(r, "call", "root")
         /\ Comparison(r, "root", Root(r), "computes")
         /\ Comparison(r, "computes", Computes(r), "given")
         /\ Moves(r, "given", "MPI_Bcast", "return")
<1> DEFINE c == Computes(r)
<1>1. /\ "call" \in Locations /\ "root" \in Locations /\ "computes" \in Locations
      /\ "given" \in Locations
      /\ Reachable(r, "root")
      /\ Reachable(r, "computes")
      /\ Reachable(r, "given")
      /\ Reachable(r, "return")
  BY DEF Reachable, Locations, Fits, Finding
<1>2. /\ Pos(r, "call") = 0 /\ Pos(r, "root") = Unit
      /\ Pos(r, "computes") = 2 * Unit /\ Pos(r, "given") = 3 * Unit
      /\ Pos(r, "return") = Len(Kinds(c))
  BY DEF Pos, Position, Unit
<1>3. /\ Len(Kinds(c)) = 3 * Unit + 1 /\ Kinds(c)[3 * Unit + 1] = "MPI_Bcast" /\ 3 * Unit + 1 <= Len(Kinds(c))
      /\ light =>
           /\ Kinds(c)[1] = "MPI_Bcast" /\ Kinds(c)[2] = Compare /\ Kinds(c)[3] = Compare
           /\ 1 <= Len(Kinds(c)) /\ 2 <= Len(Kinds(c)) /\ 3 <= Len(Kinds(c))
  <2>1. CASE light
    <3>1. Kinds(c) = <<"MPI_Bcast", Compare, Compare, "MPI_Bcast">>
      BY <2>1 DEF Kinds
    <3>2. Unit = 1
      BY <2>1 DEF Unit
    <3> QED BY <2>1, <3>1, <3>2
  <2>2. CASE ~light
    <3>1. Kinds(c) = <<"MPI_Bcast">>
      BY <2>2 DEF Kinds
    <3>2. Unit = 0
      BY <2>2 DEF Unit
    <3> QED BY <2>2, <3>1, <3>2
  <2> QED BY <2>1, <2>2
<1>4. Value(r, 2) = Root(r)
  BY DEF Value
<1>5. Value(r, 3) = Computes(r)
  BY DEF Value
<1>6. Flags(r, "call", "root")
  BY <1>1, <1>2, <1>3, UnitSums DEF Flags, Moves
<1>7. Comparison(r, "root", Root(r), "computes")
  BY <1>1, <1>2, <1>3, <1>4, UnitSums DEF Comparison
<1>8. Comparison(r, "computes", Computes(r), "given")
  BY <1>1, <1>2, <1>3, <1>5, UnitSums DEF Comparison
<1>9. Moves(r, "given", "MPI_Bcast", "return")
  BY <1>1, <1>2, <1>3, UnitSums DEF Moves
<1> QED BY <1>6, <1>7, <1>8, <1>9

--------------------------------------------------------------------------------
(* Each wrapper goes along its chain                                        *)

(* The broadcast that only the assertions make.                             *)
LEMMA FlagInv ==
  ASSUME ControlInv, NEW r \in Rank, NEW l, Runs(r, l), NEW next, Flags(r, l, next),
         NEW out, NEW want,
         IF light THEN Enter(r, Collective("MPI_Bcast", Root(r), out, want), next)
         ELSE Go(r, next) /\ UNCHANGED calls,
         UNCHANGED <<op, light, amount, args>>, BufsStay(r)
  PROVE  ControlInv'
<1>1. "MPI_Bcast" # Compare
  BY DEF Compare
<1>2. CASE light
  BY <1>1, <1>2, MoveInv DEF Flags
<1>3. CASE ~light
  BY <1>3, GoInv DEF Flags, Runs
<1> QED BY <1>2, <1>3

(* The nested wrappers run where the counts have to be found.               *)
LEMMA FindingComputes ==
  ASSUME ControlInv, NEW r \in Rank
  PROVE  /\ \A l \in Finding : Runs(r, l) => Computes(r)
         /\ Runs(r, "given") => ~Computes(r)
BY DEF ControlInv, TraceInv, Fits, Runs

(* The steps of gather.                                                     *)
LEMMA GatherInv ==
  ASSUME ControlInv, NEW r \in Rank, Gather(r), UNCHANGED <<op, light, amount, args>>
  PROVE  ControlInv'
<1>1. op = "gather"
  BY DEF Gather
<1>2. "MPI_Gather" # Compare
  BY DEF Compare
<1>3. CASE Runs(r, "call") /\ AssertSame(r, Root(r), "data") /\ UNCHANGED local
  BY <1>1, <1>3, GatherChain, AssertSameInv, LocalStays DEF local
<1>4. CASE Runs(r, "data") /\ ReceiveEqual(r, "MPI_Gather", ToAll(Msg(r, r)), Len(Msg(r, r)))
  BY <1>1, <1>2, <1>4, GatherChain, ReceiveEqualInv
<1>5. CASE Runs(r, "data") /\ SendOnly(r, "MPI_Gather", ToAll(Msg(r, r)))
  BY <1>1, <1>2, <1>5, GatherChain, SendOnlyInv
<1> QED BY <1>3, <1>4, <1>5 DEF Gather

(* The steps of gatherv, and of the gather in it.                           *)
LEMMA GathervInv ==
  ASSUME ControlInv, NEW r \in Rank, Gatherv(r), UNCHANGED <<op, light, amount, args>>
  PROVE  ControlInv'
<1>1. op = "gatherv"
  BY DEF Gatherv
<1>2. "MPI_Gather" # Compare /\ "MPI_Gatherv" # Compare
  BY DEF Compare
<1>3. CASE Runs(r, "call") /\ Abort(r) /\ UNCHANGED local
  BY <1>3, FailInv, LocalStays DEF local, Runs, Locations
<1>4. CASE Runs(r, "call") /\ AssertSame(r, Root(r), "computes") /\ UNCHANGED local
  BY <1>1, <1>4, GathervChain, AssertSameInv, LocalStays DEF local
<1>5. CASE /\ Runs(r, "computes")
           /\ AssertSame(r, Computes(r), IF Computes(r) THEN "counts" ELSE "data")
           /\ UNCHANGED local
  BY <1>1, <1>5, GathervChain, AssertSameInv, LocalStays DEF local
<1>6. CASE Runs(r, "counts") /\ AssertSame(r, Root(r), "exchange") /\ UNCHANGED local
  <2>1. Computes(r)
    BY <1>6, FindingComputes DEF Finding
  <2> QED BY <1>1, <1>6, <2>1, GathervChain, AssertSameInv, LocalStays DEF local
<1>7. ASSUME NEW want, Runs(r, "exchange"), UNCHANGED local,
             Enter(r, Collective("MPI_Gather", Root(r), ToAll(<<Len(Msg(r, r))>>), want), "data")
      PROVE  ControlInv'
  <2>1. Computes(r)
    BY <1>7, FindingComputes DEF Finding
  <2> QED BY <1>1, <1>2, <1>7, <2>1, GathervChain, MoveInv, LocalStays DEF local
<1>8. ASSUME NEW cs, Runs(r, "data"), ReceiveVector(r, "MPI_Gatherv", ToAll(Msg(r, r)), cs)
      PROVE  ControlInv'
  BY <1>1, <1>2, <1>8, GathervChain, ReceiveVectorInv
<1>9. CASE Runs(r, "data") /\ SendOnly(r, "MPI_Gatherv", ToAll(Msg(r, r)))
  BY <1>1, <1>2, <1>9, GathervChain, SendOnlyInv
<1> QED BY <1>3, <1>4, <1>5, <1>6, <1>7, <1>8, <1>9 DEF Gatherv

(* The steps of allgather.                                                  *)
LEMMA AllgatherInv ==
  ASSUME ControlInv, NEW r \in Rank, Allgather(r), UNCHANGED <<op, light, amount, args>>
  PROVE  ControlInv'
<1>1. op = "allgather"
  BY DEF Allgather
<1>2. "MPI_Allgather" # Compare
  BY DEF Compare
<1>3. CASE Runs(r, "call") /\ AssertSame(r, Len(Msg(r, r)), "data") /\ UNCHANGED local
  BY <1>1, <1>3, AllgatherChain, AssertSameInv, LocalStays DEF local
<1>4. CASE Runs(r, "data") /\ ReceiveEqual(r, "MPI_Allgather", ToAll(Msg(r, r)), Len(Msg(r, r)))
  BY <1>1, <1>2, <1>4, AllgatherChain, ReceiveEqualInv
<1> QED BY <1>3, <1>4 DEF Allgather

(* The steps of allgather_inplace.                                          *)
LEMMA AllgatherInplaceInv ==
  ASSUME ControlInv, NEW r \in Rank, AllgatherInplace(r), UNCHANGED <<op, light, amount, args>>
  PROVE  ControlInv'
<1>1. op = "allgather_inplace"
  BY DEF AllgatherInplace
<1>2. "MPI_Allgather" # Compare
  BY DEF Compare
<1>3. CASE Runs(r, "call") /\ AssertSame(r, Len(buf[r]), "data") /\ UNCHANGED local
  <2>1. buf[r] = InitialBuf(r)
    BY <1>3 DEF ControlInv, TraceInv, Runs
  <2> QED BY <1>1, <1>3, <2>1, AllgatherInplaceChain, AssertSameInv, LocalStays DEF local
<1>4. CASE Runs(r, "data") /\ Abort(r) /\ UNCHANGED local
  BY <1>4, FailInv, LocalStays DEF local, Runs, Locations
<1>5. ASSUME NEW out, NEW n, Runs(r, "data"), ReceiveEqual(r, "MPI_Allgather", out, n)
      PROVE  ControlInv'
  BY <1>1, <1>2, <1>5, AllgatherInplaceChain, ReceiveEqualInv
<1> QED BY <1>3, <1>4, <1>5 DEF AllgatherInplace

(* The nested allgather has no root, which is rank 0 here.                  *)
LEMMA AllgathervInv ==
  ASSUME ControlInv, NEW r \in Rank, Allgatherv(r), UNCHANGED <<op, light, amount, args>>
  PROVE  ControlInv'
<1>1. op = "allgatherv"
  BY DEF Allgatherv
<1>2. "MPI_Allgather" # Compare /\ "MPI_Allgatherv" # Compare
  BY DEF Compare
<1>3. CASE /\ Runs(r, "call")
           /\ AssertSame(r, Computes(r), IF Computes(r) THEN "counts" ELSE "displs")
           /\ UNCHANGED local
  BY <1>1, <1>3, AllgathervChain, AssertSameInv, LocalStays DEF local
<1>4. CASE Runs(r, "counts") /\ AssertSame(r, 1, "exchange") /\ UNCHANGED local
  <2>1. Computes(r)
    BY <1>4, FindingComputes DEF Finding
  <2> QED BY <1>1, <1>4, <2>1, AllgathervChain, AssertSameInv, LocalStays DEF local
<1>5. ASSUME NEW want, Runs(r, "exchange"), UNCHANGED local,
             Enter(r, Collective("MPI_Allgather", 0, ToAll(<<Len(Msg(r, r))>>), want), "displs")
      PROVE  ControlInv'
  <2>1. Computes(r)
    BY <1>5, FindingComputes DEF Finding
  <2>2. Root(r) = 0
    BY <1>1 DEF ControlInv, ArgsInv, Rooted, Gathers, Scatters, Bcasts
  <2>3. Enter(r, Collective("MPI_Allgather", Root(r), ToAll(<<Len(Msg(r, r))>>), want), "displs")
    BY <1>5, <2>2
  <2> QED BY <1>1, <1>2, <1>5, <2>1, <2>3, AllgathervChain, MoveInv, LocalStays DEF local
<1>6. CASE Runs(r, "displs") /\ AssertSame(r, args[r].recv_displs = "omitted", "data") /\ UNCHANGED buf
  BY <1>1, <1>6, AllgathervChain, AssertSameInv, LocalStays
<1>7. CASE Runs(r, "data") /\ ReceiveVector(r, "MPI_Allgatherv", ToAll(Msg(r, r)), counts[r])
  BY <1>1, <1>2, <1>7, AllgathervChain, ReceiveVectorInv
<1> QED BY <1>3, <1>4, <1>5, <1>6, <1>7 DEF Allgatherv

(* The steps of the bcast_single that the scatters call.                    *)
LEMMA BroadcastNumberInv ==
  ASSUME ControlInv, NEW r \in Rank, op \in {"scatter", "scatter_single"}, NEW n,
         BroadcastNumber(r, n, "data"), UNCHANGED <<op, light, amount, args>>
  PROVE  ControlInv'
<1> DEFINE ones == [s \in {Root(r)} |-> 1]
<1>1. "MPI_Bcast" # Compare
  BY DEF Compare
<1>2. BufsStay(r)
  BY LocalStays DEF BroadcastNumber, local
<1>3. \A l \in {"flag", "bcast", "bcast count", "value"} : Runs(r, l) => Computes(r)
  BY FindingComputes DEF Finding
<1>4. CASE /\ Runs(r, "flag")
           /\ IF light THEN Enter(r, Collective("MPI_Bcast", Root(r), ToAll(<<TRUE>>), ones), "bcast")
              ELSE Go(r, "bcast") /\ UNCHANGED calls
  <2>1. Flags(r, "flag", "bcast")
    BY <1>3, <1>4, ScatterChain
  <2> QED BY <1>2, <1>4, <2>1, FlagInv
<1>5. CASE Runs(r, "bcast") /\ AssertSame(r, Root(r), "bcast count")
  BY <1>2, <1>3, <1>5, ScatterChain, AssertSameInv
<1>6. CASE Runs(r, "bcast count") /\ AssertSame(r, FALSE, "value")
  BY <1>2, <1>3, <1>6, ScatterChain, AssertSameInv
<1>7. CASE Runs(r, "value") /\ Enter(r, Collective("MPI_Bcast", Root(r), ToAll(<<n>>), ones), "data")
  BY <1>1, <1>2, <1>3, <1>7, ScatterChain, MoveInv
<1> QED BY <1>4, <1>5, <1>6, <1>7 DEF BroadcastNumber

(* The steps of scatter, and of scatter_single.                             *)
LEMMA ScatterInv ==
  ASSUME ControlInv, NEW r \in Rank, Scatter(r), UNCHANGED <<op, light, amount, args>>
  PROVE  ControlInv'
<1>1. op \in {"scatter", "scatter_single"}
  BY DEF Scatter
<1>2. "MPI_Scatter" # Compare
  BY DEF Compare
<1>3. ASSUME NEW l \in {"call", "buffer"}, Runs(r, l), Abort(r), UNCHANGED local
      PROVE  ControlInv'
  BY <1>3, FailInv, LocalStays DEF local, Runs, Locations
<1>4. CASE Runs(r, "call") /\ AssertSame(r, Root(r), "buffer") /\ UNCHANGED local
  BY <1>1, <1>4, ScatterChain, AssertSameInv, LocalStays DEF local
<1>5. CASE /\ Runs(r, "buffer")
           /\ AssertSame(r, Computes(r), IF Computes(r) THEN "flag" ELSE "data")
           /\ UNCHANGED local
  BY <1>1, <1>5, ScatterChain, AssertSameInv, LocalStays DEF local
<1>6. CASE BroadcastNumber(r, Len(SendBuf(r)) \div P, "data")
  BY <1>1, <1>6, BroadcastNumberInv
<1>7. ASSUME NEW n, Runs(r, "data"), ReceiveFromRoot(r, "MPI_Scatter", EqualBlocks(r), n)
      PROVE  ControlInv'
  BY <1>1, <1>2, <1>7, ScatterChain, ReceiveFromRootInv
<1> QED BY <1>3, <1>4, <1>5, <1>6, <1>7 DEF Scatter

(* The steps of scatterv, and of the scatter in it.                         *)
LEMMA ScattervInv ==
  ASSUME ControlInv, NEW r \in Rank, Scatterv(r), UNCHANGED <<op, light, amount, args>>
  PROVE  ControlInv'
<1>1. op = "scatterv"
  BY DEF Scatterv
<1>2. "MPI_Scatter" # Compare /\ "MPI_Scatterv" # Compare
  BY DEF Compare
<1>3. ASSUME NEW l \in {"buffer", "counts given"}, Runs(r, l), Abort(r), UNCHANGED local
      PROVE  ControlInv'
  BY <1>3, FailInv, LocalStays DEF local, Runs, Locations
<1>4. CASE Runs(r, "call") /\ AssertSame(r, Root(r), "buffer") /\ UNCHANGED local
  BY <1>1, <1>4, ScattervChain, AssertSameInv, LocalStays DEF local
<1>5. CASE /\ Runs(r, "buffer")
           /\ AssertSame(r, Computes(r), IF Computes(r) THEN "counts" ELSE "data")
           /\ UNCHANGED local
  BY <1>1, <1>5, ScattervChain, AssertSameInv, LocalStays DEF local
<1>6. \A l \in {"counts", "counts given", "exchange"} : Runs(r, l) => Computes(r)
  BY FindingComputes DEF Finding
<1>7. CASE Runs(r, "counts") /\ AssertSame(r, Root(r), "counts given") /\ UNCHANGED local
  BY <1>1, <1>6, <1>7, ScattervChain, AssertSameInv, LocalStays DEF local
<1>8. CASE Runs(r, "counts given") /\ AssertSame(r, FALSE, "exchange") /\ UNCHANGED local
  BY <1>1, <1>6, <1>8, ScattervChain, AssertSameInv, LocalStays DEF local
<1>9. ASSUME NEW want, Runs(r, "exchange"), UNCHANGED local,
             Enter(r, Collective("MPI_Scatter", Root(r), OneEach(r), want), "data")
      PROVE  ControlInv'
  BY <1>1, <1>2, <1>6, <1>9, ScattervChain, MoveInv, LocalStays DEF local
<1>10. ASSUME NEW n, NEW out, Runs(r, "data"), ReceiveFromRoot(r, "MPI_Scatterv", out, n)
       PROVE  ControlInv'
  BY <1>1, <1>2, <1>10, ScattervChain, ReceiveFromRootInv
<1> QED BY <1>3, <1>4, <1>5, <1>7, <1>8, <1>9, <1>10 DEF Scatterv

(* The steps of alltoall and alltoall_inplace.                              *)
LEMMA AlltoallInv ==
  ASSUME ControlInv, NEW r \in Rank, Alltoall(r) \/ AlltoallInplace(r),
         UNCHANGED <<op, light, amount, args>>
  PROVE  ControlInv'
<1>1. op \in {"alltoall", "alltoall_inplace"}
  BY DEF Alltoall, AlltoallInplace
<1>2. "MPI_Alltoall" # Compare
  BY DEF Compare
<1>3. CASE Runs(r, "call") /\ Abort(r) /\ UNCHANGED local
  BY <1>3, FailInv, LocalStays DEF local, Runs, Locations
<1>4. ASSUME NEW out, NEW n, Runs(r, "call"), ReceiveEqual(r, "MPI_Alltoall", out, n)
      PROVE  ControlInv'
  BY <1>1, <1>2, <1>4, AlltoallChain, ReceiveEqualInv
<1> QED BY <1>3, <1>4 DEF Alltoall, AlltoallInplace

(* The nested alltoall has no root either.                                  *)
LEMMA AlltoallvInv ==
  ASSUME ControlInv, NEW r \in Rank, Alltoallv(r), UNCHANGED <<op, light, amount, args>>
  PROVE  ControlInv'
<1>1. op = "alltoallv"
  BY DEF Alltoallv
<1>2. "MPI_Alltoall" # Compare /\ "MPI_Alltoallv" # Compare
  BY DEF Compare
<1>3. ASSUME NEW l \in {"exchange", "recv displs"}, Runs(r, l), Abort(r), UNCHANGED local
      PROVE  ControlInv'
  BY <1>3, FailInv, LocalStays DEF local, Runs, Locations
<1>4. CASE /\ Runs(r, "call")
           /\ AssertSame(r, Computes(r), IF Computes(r) THEN "exchange" ELSE "send displs")
           /\ UNCHANGED local
  BY <1>1, <1>4, AlltoallvChain, AssertSameInv, LocalStays DEF local
<1>5. ASSUME NEW want, Runs(r, "exchange"), UNCHANGED local,
             Enter(r, Collective("MPI_Alltoall", 0, OneEach(r), want), "send displs")
      PROVE  ControlInv'
  <2>1. Computes(r)
    BY <1>5, FindingComputes DEF Finding
  <2>2. Root(r) = 0
    BY <1>1 DEF ControlInv, ArgsInv, Rooted, Gathers, Scatters, Bcasts
  <2>3. Enter(r, Collective("MPI_Alltoall", Root(r), OneEach(r), want), "send displs")
    BY <1>5, <2>2
  <2> QED BY <1>1, <1>2, <1>5, <2>1, <2>3, AlltoallvChain, MoveInv, LocalStays DEF local
<1>6. CASE Runs(r, "send displs") /\ AssertSame(r, args[r].send_displs = "omitted", "recv displs") /\ UNCHANGED buf
  BY <1>1, <1>6, AlltoallvChain, AssertSameInv, LocalStays
<1>7. CASE Runs(r, "recv displs") /\ AssertSame(r, args[r].recv_displs = "omitted", "data") /\ UNCHANGED local
  BY <1>1, <1>7, AlltoallvChain, AssertSameInv, LocalStays DEF local
<1>8. ASSUME NEW out, Runs(r, "data"), ReceiveVector(r, "MPI_Alltoallv", out, counts[r])
      PROVE  ControlInv'
  BY <1>1, <1>2, <1>8, AlltoallvChain, ReceiveVectorInv
<1> QED BY <1>3, <1>4, <1>5, <1>6, <1>7, <1>8 DEF Alltoallv

(* The two broadcasts, from the comparison of the roots on.                 *)
LEMMA BcastChains ==
  ASSUME ControlInv, NEW r \in Rank, op \in {"bcast", "bcast_single"}
  PROVE  /\ Comparison(r, IF op = "bcast" THEN "call" ELSE "root", Root(r), "computes")
         /\ Comparison(r, "computes", Computes(r), IF Computes(r) THEN "count" ELSE "given")
         /\ Computes(r) => Moves(r, "count", "MPI_Bcast", "data")
         /\ Moves(r, IF Computes(r) THEN "data" ELSE "given", "MPI_Bcast", "return")
<1>1. CASE op = "bcast"
  BY <1>1, BcastChain
<1>2. CASE op = "bcast_single"
  <2>1. ~Computes(r)
    BY <1>2 DEF ControlInv, ArgsInv
  <2> QED BY <1>2, <2>1, BcastSingleChain
<1> QED BY <1>1, <1>2

(* The steps of the broadcasts.                                             *)
LEMMA BcastInv ==
  ASSUME ControlInv, NEW r \in Rank, Bcast(r), UNCHANGED <<op, light, amount, args>>
  PROVE  ControlInv'
<1> DEFINE first == IF op = "bcast" THEN "call" ELSE "root"
           last  == IF Computes(r) THEN "data" ELSE "given"
<1>1. op \in {"bcast", "bcast_single"}
  BY DEF Bcast
<1>2. "MPI_Bcast" # Compare
  BY DEF Compare
<1>3. {first, last} \subseteq Locations
  BY DEF Locations
<1>4. ASSUME NEW l \in {first, last}, Runs(r, l), Abort(r) \/ Reject(r), UNCHANGED local
      PROVE  ControlInv'
  BY <1>3, <1>4, FailInv, LocalStays DEF local, Runs
<1>5. ASSUME NEW out, NEW want, op = "bcast_single", Runs(r, "call"), UNCHANGED local,
             IF light THEN Enter(r, Collective("MPI_Bcast", Root(r), out, want), "root")
             ELSE Go(r, "root") /\ UNCHANGED calls
      PROVE  ControlInv'
  <2>1. ~Computes(r)
    BY <1>5 DEF ControlInv, ArgsInv
  <2>2. Flags(r, "call", "root")
    BY <1>5, <2>1, BcastSingleChain
  <2>3. BufsStay(r)
    BY <1>5, LocalStays DEF local
  <2> QED BY <1>5, <2>2, <2>3, FlagInv
<1>6. CASE Runs(r, first) /\ AssertSame(r, Root(r), "computes") /\ UNCHANGED local
  BY <1>1, <1>6, BcastChains, AssertSameInv, LocalStays DEF local
<1>7. CASE /\ Runs(r, "computes")
           /\ AssertSame(r, Computes(r), IF Computes(r) THEN "count" ELSE "given")
           /\ UNCHANGED local
  BY <1>1, <1>7, BcastChains, AssertSameInv, LocalStays DEF local
<1>8. ASSUME NEW out, NEW want, Runs(r, "count"), UNCHANGED local,
             Enter(r, Collective("MPI_Bcast", Root(r), out, want), "data")
      PROVE  ControlInv'
  <2>1. Computes(r)
    BY <1>8, FindingComputes DEF Finding
  <2> QED BY <1>1, <1>2, <1>8, <2>1, BcastChains, MoveInv, LocalStays DEF local
<1>9. ASSUME NEW out, NEW want, Runs(r, last), IsRoot(r), UNCHANGED buf,
             Enter(r, Collective("MPI_Bcast", r, out, want), "return")
      PROVE  ControlInv'
  <2>1. Enter(r, Collective("MPI_Bcast", Root(r), out, want), "return")
    BY <1>9 DEF IsRoot
  <2> QED BY <1>1, <1>2, <1>9, <2>1, BcastChains, MoveInv, LocalStays
<1>10. ASSUME NEW out, NEW n, Runs(r, last), ReceiveFromRoot(r, "MPI_Bcast", out, n)
       PROVE  ControlInv'
  BY <1>1, <1>2, <1>10, BcastChains, ReceiveFromRootInv
<1>11. \/ \E out, want : /\ op = "bcast_single" /\ Runs(r, "call") /\ UNCHANGED local
                         /\ IF light THEN Enter(r, Collective("MPI_Bcast", Root(r), out, want), "root")
                            ELSE Go(r, "root") /\ UNCHANGED calls
       \/ /\ Runs(r, first) /\ UNCHANGED local
          /\ Reject(r) \/ AssertSame(r, Root(r), "computes")
       \/ /\ Runs(r, "computes") /\ UNCHANGED local
          /\ AssertSame(r, Computes(r), IF Computes(r) THEN "count" ELSE "given")
       \/ \E out, want : /\ Runs(r, "count") /\ UNCHANGED local
                         /\ Enter(r, Collective("MPI_Bcast", Root(r), out, want), "data")
       \/ /\ Runs(r, last)
          /\ \/ (Reject(r) \/ Abort(r)) /\ UNCHANGED local
             \/ \E out, want : IsRoot(r) /\ UNCHANGED buf /\ Enter(r, Collective("MPI_Bcast", r, out, want), "return")
             \/ \E out, n : ReceiveFromRoot(r, "MPI_Bcast", out, n)
  BY DEF Bcast
<1> QED BY <1>4, <1>5, <1>6, <1>7, <1>8, <1>9, <1>10, <1>11

(* The data is written to the buffer of the rank alone.                     *)
LEMMA ReturnInv ==
  ASSUME ControlInv, NEW r \in Rank, Return(r), UNCHANGED <<op, light, amount, args>>
  PROVE  ControlInv'
<1>1. Pos(r, "returned") = Pos(r, "return")
  BY DEF Pos, Position
<1>2. BufsStay(r)
  BY DEF Return, BufsStay, ControlInv
<1>3. "return" \in Locations
  BY DEF Locations
<1> QED BY <1>1, <1>2, <1>3, GoInv DEF Return, Runs

(* A comparison that fails stops the rank.                                  *)
LEMMA DisagreeInv ==
  ASSUME ControlInv, NEW r \in Rank, Disagree(r), UNCHANGED <<op, light, amount, args>>
  PROVE  ControlInv'
<1>1. at[r] \in Locations
  BY DEF ControlInv, TraceInv, Disagree, Failed, Ended
<1>2. BufsStay(r)
  BY LocalStays DEF Disagree, local
<1> QED BY <1>1, <1>2, FailInv DEF Disagree

--------------------------------------------------------------------------------
(* Executions                                                               *)

(* Every step of every rank keeps the invariant.                            *)
LEMMA NextInv ==
  ASSUME ControlInv, [Next]_vars
  PROVE  ControlInv'
<1>1. ASSUME NEW r \in Rank, Call(r)
      PROVE  ControlInv'
  <2>1. UNCHANGED <<op, light, amount, args>>
    BY <1>1 DEF Call
  <2> QED BY <1>1, <2>1, GatherInv, GathervInv, AllgatherInv, AllgatherInplaceInv, AllgathervInv,
             ScatterInv, ScattervInv, AlltoallInv, AlltoallvInv, BcastInv, ReturnInv, DisagreeInv DEF Call
<1>2. CASE UNCHANGED vars
  <2>1. UNCHANGED <<op, light, amount, args>> /\ UNCHANGED <<at, calls, buf>>
    BY <1>2 DEF vars
  <2>2. \A r, k : EntryOK(r, k, calls[r][k])' <=> EntryOK(r, k, calls[r][k])
    BY <2>1, ArgumentsStay DEF EntryOK
  <2>3. \A r : TraceInv(r)' <=> TraceInv(r)
    BY <2>1, <2>2, ArgumentsStay DEF TraceInv, IsSequence, Fits
  <2>4. \A r : KnownInv(r)' <=> KnownInv(r)
    BY <2>1, ArgumentsStay DEF KnownInv
  <2> QED BY <2>1, <2>3, <2>4, ArgumentsStay DEF ControlInv
<1> QED BY <1>1, <1>2 DEF Next, Terminated

(* Ranks agree on an argument that is not misused.                          *)
LEMMA PerRankValues ==
  ASSUME NEW misuse, NEW argument, NEW S, NEW f \in PerRank(misuse, argument, S)
  PROVE  /\ \A r \in Rank : f[r] \in S
         /\ argument \notin misuse => \A r, s \in Rank : f[r] = f[s]
BY DEF PerRank

(* Every chain is finite.                                                   *)
LEMMA KindsLength == \A c : Len(Kinds(c)) \in Nat
BY DEF Kinds

(* The messages of an allgather have one length per rank, or one for all.   *)
LEMMA AllgatherAmounts ==
  ASSUME NEW misuse, amount \in AmountsOf(misuse), op = "allgather"
  PROVE  /\ \A r \in Rank : amount[r][r] \in Nat /\ amount[r] = [t \in Rank |-> amount[r][r]]
         /\ "amount" \notin misuse => \A r, s \in Rank : amount[r] = amount[s]
<1>1. CASE "amount" \in misuse
  <2>1. PICK a \in [Rank -> Amounts] : amount = [s \in Rank |-> [t \in Rank |-> a[s]]]
    BY <1>1 DEF AmountsOf
  <2>2. \A r \in Rank : a[r] \in Nat
    BY ArgumentsAssumption
  <2> QED BY <1>1, <2>1, <2>2
<1>2. CASE "amount" \notin misuse
  <2>1. PICK n \in Amounts : amount = [s \in Rank |-> [t \in Rank |-> n]]
    BY <1>2 DEF AmountsOf
  <2>2. n \in Nat
    BY ArgumentsAssumption
  <2> QED BY <2>1, <2>2
<1> QED BY <1>1, <1>2

(* The arguments a call starts with.                                        *)
InitArgs(misuse, root, counted, ignored, sent, placed, has) ==
  /\ root \in PerRank(misuse, "root", IF op \in Rooted THEN Roots ELSE {0})
  /\ counted \in PerRank(misuse, "counts", CountArguments)
  /\ sent \in PerRank(misuse, "send_displs", IF op \in {"alltoallv", "scatterv"} THEN SendDispls ELSE {"omitted"})
  /\ placed \in PerRank(misuse, "recv_displs",
                        IF op \in {"gatherv", "allgatherv", "alltoallv"} THEN {"given", "omitted"} ELSE {"omitted"})
  /\ has \in PerRank(misuse, "buffer", IF "buffer" \in misuse /\ op \in Bcasts THEN BOOLEAN ELSE {TRUE})
  /\ DOMAIN args = Rank
  /\ \A r \in Rank :
       /\ args[r].root = root[r] /\ args[r].send_displs = sent[r] /\ args[r].recv_displs = placed[r]
       /\ args[r].counts = IF ignored /\ counted[r] = "omitted" /\ r # root[r] THEN "ignored" ELSE counted[r]
       /\ args[r].buffer = has[r]

(* Every initial state has such arguments.                                  *)
LEMMA InitHasArgs ==
  ASSUME NEW misuse, InitWith(misuse)
  PROVE  \E root, counted, ignored, sent, placed, has :
           InitArgs(misuse, root, counted, ignored, sent, placed, has)
<1>1. PICK root \in PerRank(misuse, "root", IF op \in Rooted THEN Roots ELSE {0}),
           counted \in PerRank(misuse, "counts", CountArguments),
           ignored \in IF op = "gatherv" THEN BOOLEAN ELSE {FALSE},
           sent \in PerRank(misuse, "send_displs", IF op \in {"alltoallv", "scatterv"} THEN SendDispls ELSE {"omitted"}),
           placed \in PerRank(misuse, "recv_displs",
                              IF op \in {"gatherv", "allgatherv", "alltoallv"} THEN {"given", "omitted"} ELSE {"omitted"}),
           has \in PerRank(misuse, "buffer", IF "buffer" \in misuse /\ op \in Bcasts
                                     THEN BOOLEAN ELSE {TRUE}),
           room \in [Rank -> CASE op \in Inplace -> {<<"no_resize", 0>>}
                             [] misuse # {} -> {<<"resize_to_fit", 0>>}
                             [] OTHER -> RecvBuffers],
           slack \in IF op \in {"alltoallv", "scatterv"} THEN Slack ELSE {0} :
        args = [r \in Rank |->
                 [root |-> root[r], send_displs |-> sent[r], recv_displs |-> placed[r],
                  counts |-> IF ignored /\ counted[r] = "omitted" /\ r # root[r] THEN "ignored" ELSE counted[r],
                  buffer |-> has[r], slack |-> slack, policy |-> room[r][1], room |-> room[r][2]]]
  BY Zenon DEF InitWith
<1>2. InitArgs(misuse, root, counted, ignored, sent, placed, has)
  BY <1>1 DEF InitArgs
<1> QED BY <1>2

(* They are as the invariant says.                                          *)
LEMMA InitArgsInv ==
  ASSUME NEW misuse, InitWith(misuse)
  PROVE  ArgsInv
<1> DEFINE roots == IF op \in Rooted THEN Roots ELSE {0}
<1>1. op \in Ops /\ (misuse # {} => op \in Asserting(misuse) /\ light)
  BY DEF InitWith
<1>2. op \in WrapperOps
  BY <1>1, ArgumentsAssumption DEF WrapperOps
<1>3. light \in BOOLEAN
  BY LightAssumption DEF InitWith
<1>4. roots \subseteq Rank
  BY ArgumentsAssumption, PAssumption DEF Rank
<1>5. PICK root, counted, ignored, sent, placed, has :
        InitArgs(misuse, root, counted, ignored, sent, placed, has)
  BY InitHasArgs
<1>6. \A r \in Rank : root[r] \in roots /\ counted[r] \in CountArguments
  BY <1>5, PerRankValues DEF InitArgs
<1>7. \A r \in Rank : Root(r) \in Rank /\ (op \notin Rooted => Root(r) = 0)
  BY <1>4, <1>5, <1>6 DEF Root, InitArgs
<1>8. \A r \in Rank : Computes(r) <=> counted[r] # "given"
  BY <1>5 DEF Computes, InitArgs
<1>9. ASSUME op \in {"gather", "allgather", "alltoall", "scatter_single", "bcast_single"}, NEW r \in Rank
      PROVE  ~Computes(r)
  <2>1. CountArguments = {"given"}
    BY <1>9 DEF CountArguments
  <2> QED BY <1>6, <1>8, <2>1
<1>10. ~light \/ op \notin Comparing => misuse \in {{}, {"buffer"}}
  BY <1>1 DEF Asserting
<1>11. ASSUME ~light \/ op \notin Comparing, NEW r \in Rank, NEW s \in Rank
       PROVE  Root(r) = Root(s) /\ (Computes(r) <=> Computes(s))
  <2>1. "root" \notin misuse /\ "counts" \notin misuse
    BY <1>10, <1>11
  <2>2. root[r] = root[s] /\ counted[r] = counted[s]
    BY <1>5, <2>1, PerRankValues DEF InitArgs
  <2> QED BY <1>5, <1>8, <2>2 DEF Root, InitArgs
<1>12. ASSUME NEW r \in Rank
       PROVE  args[r].buffer \in BOOLEAN /\ (~args[r].buffer => light)
  <2>1. has[r] \in BOOLEAN /\ (misuse = {} => has[r] = TRUE)
    <3>1. has \in PerRank(misuse, "buffer", IF "buffer" \in misuse /\ op \in Bcasts THEN BOOLEAN ELSE {TRUE})
      BY <1>5 DEF InitArgs
    <3>2. has[r] \in IF "buffer" \in misuse /\ op \in Bcasts THEN BOOLEAN ELSE {TRUE}
      BY <3>1, PerRankValues
    <3> QED BY <3>2
  <2>2. args[r].buffer = has[r]
    BY <1>5 DEF InitArgs
  <2>3. ~has[r] => light
    BY <1>1, <2>1
  <2> QED BY <2>1, <2>2, <2>3
<1>13. amount \in AmountsOf(misuse)
  BY DEF InitWith
<1>14. ASSUME ~light, NEW r \in Rank, NEW s \in Rank
       PROVE  /\ args[r].recv_displs = args[s].recv_displs
              /\ args[r].send_displs = args[s].send_displs
              /\ op = "allgather" => amount[r] = amount[s]
  <2>1. misuse = {}
    BY <1>1, <1>14
  <2>2. placed[r] = placed[s] /\ sent[r] = sent[s]
    BY <1>5, <2>1, PerRankValues DEF InitArgs
  <2> QED BY ZenonT(60), <1>5, <1>13, <2>1, <2>2, AllgatherAmounts DEF InitArgs
<1>15. op = "allgather" => \A r \in Rank : amount[r][r] \in Nat /\ amount[r] = [t \in Rank |-> amount[r][r]]
  BY <1>13, AllgatherAmounts
<1>16. DOMAIN args = Rank
  BY <1>5 DEF InitArgs
<1>17. ASSUME NEW r \in Rank
       PROVE  {args[r].recv_displs, args[r].send_displs} \subseteq {"given", "omitted"}
  <2>1. placed[r] \in {"given", "omitted"} /\ sent[r] \in {"given", "omitted"}
    <3> DEFINE Sent   == IF op \in {"alltoallv", "scatterv"} THEN SendDispls ELSE {"omitted"}
               Placed == IF op \in {"gatherv", "allgatherv", "alltoallv"}
                           THEN {"given", "omitted"} ELSE {"omitted"}
    <3>1. placed \in PerRank(misuse, "recv_displs", Placed) /\ sent \in PerRank(misuse, "send_displs", Sent)
      BY <1>5 DEF InitArgs
    <3>2. placed[r] \in Placed /\ sent[r] \in Sent
      <4> HIDE DEF Sent, Placed
      <4> QED BY <3>1, PerRankValues
    <3>3. Sent \subseteq {"given", "omitted"} /\ Placed \subseteq {"given", "omitted"}
      BY ArgumentsAssumption
    <3> HIDE DEF Sent, Placed
    <3> QED BY <3>2, <3>3
  <2> QED BY <1>5, <2>1 DEF InitArgs
<1> QED BY <1>2, <1>3, <1>7, <1>9, <1>11, <1>12, <1>14, <1>15, <1>16, <1>17 DEF ArgsInv

(* Nobody has entered a collective yet.                                     *)
LEMMA InitInv == Init => ControlInv
<1> SUFFICES ASSUME NEW misuse, InitWith(misuse)
             PROVE  ControlInv
  BY DEF Init
<1>1. /\ at = [r \in Rank |-> "call"] /\ calls = [r \in Rank |-> << >>]
      /\ buf = [r \in Rank |-> InitialBuf(r)]
  BY DEF InitWith
<1>2. ASSUME NEW r \in Rank
      PROVE  TraceInv(r) /\ KnownInv(r)
  <2>1. calls[r] = << >> /\ at[r] = "call" /\ buf[r] = InitialBuf(r)
    BY <1>1
  <2>2. IsSequence(calls[r]) /\ Len(calls[r]) = 0
    BY <2>1 DEF IsSequence
  <2>3. Position(Computes(r), "call") = 0 /\ Len(Kinds(Computes(r))) \in Nat
    BY KindsLength DEF Position
  <2>4. "call" \in Locations /\ Fits(r, "call")
    BY DEF Locations, Fits, Finding
  <2>5. TraceInv(r)
    BY <2>1, <2>2, <2>3, <2>4 DEF TraceInv
  <2>6. KnownInv(r)
    BY <2>2 DEF KnownInv
  <2> QED BY <2>5, <2>6
<1> QED BY <1>1, <1>2, InitArgsInv DEF ControlInv

(* Whatever arguments the ranks give, each goes along the chain of its      *)
(* wrapper, and is past a comparison only if all gave the same.             *)
THEOREM ControlInvariant == Spec => []ControlInv
<1>1. Init => ControlInv
  BY InitInv
<1>2. ControlInv /\ [Next]_vars => ControlInv'
  BY NextInv
<1> QED BY <1>1, <1>2, PTL DEF Spec

(* The collectives of the ranks meet, for any number of ranks, all wrappers *)
(* and all arguments: a wrapper that lets the ranks disagree on which       *)
(* collective comes next has compared it before, or does not depend on it.  *)
THEOREM CollectivesMeet == Spec => []CollectivesMatch
<1>1. ASSUME ControlInv
      PROVE  CollectivesMatch
  <2> SUFFICES ASSUME NEW r \in Rank, NEW s \in Rank, NEW k \in DOMAIN calls[r] \cap DOMAIN calls[s]
               PROVE  calls[r][k].kind = calls[s][k].kind /\ calls[r][k].root = calls[s][k].root
    BY DEF CollectivesMatch
  <2>1. \A q \in Rank : /\ IsSequence(calls[q])
                        /\ \A i \in 1 .. Len(calls[q]) : EntryOK(q, i, calls[q][i])
    BY <1>1 DEF ControlInv, TraceInv
  <2>2. \A q \in Rank : DOMAIN calls[q] = 1 .. Len(calls[q]) /\ Len(calls[q]) \in Nat
    BY <2>1 DEF IsSequence
  <2>3. k \in 1 .. Len(calls[r]) /\ k \in 1 .. Len(calls[s]) /\ k <= Len(calls[s])
    BY <2>2
  <2>4. EntryOK(r, k, calls[r][k]) /\ EntryOK(s, k, calls[s][k])
    BY <2>1, <2>3
  <2>5. /\ Kinds(Computes(r))[k] = Kinds(Computes(s))[k]
        /\ Kinds(Computes(r))[k] # Compare => Root(r) = Root(s)
    BY <1>1, <2>3, KindsMatch
  <2> QED BY <2>4, <2>5 DEF EntryOK
<1> QED BY <1>1, ControlInvariant, PTL

--------------------------------------------------------------------------------
(* A broadcast whose root has no buffer                                     *)

Absent(r) == IsRoot(r) /\ ~args[r].buffer /\ (op = "bcast" => Computes(r))

(* The collective that tells the others so, and what it sends.              *)
Signal == IF op = "bcast_single" THEN 1 ELSE 2 * Unit + 1

Signals(out) ==
  IF op = "bcast_single" THEN out = ToAll(<<FALSE>>) ELSE out = ToAll(<<NO_BUF_ON_ROOT>>)

SignalOK(r) ==
  Absent(r) => \A k \in 1 .. Len(calls[r]) : k = Signal => Signals(calls[r][k].out)

(* No rank gets past it.                                                    *)
StoppedOK(r) ==
  (\E s \in Rank : Absent(s)) =>
    /\ op = "bcast_single" => at[r] \in {"call", "root"} \cup Failed
    /\ op = "bcast" /\ Computes(r) => at[r] \notin {"return", "returned"}

SignalInv == op \in Bcasts => \A r \in Rank : SignalOK(r) /\ StoppedOK(r)

(* What a step of a broadcast adds to the history of its rank.              *)
Grows(q, e) == calls'[q] = Append(calls[q], e)
Stays(q)    == calls'[q] = calls[q]

(* A step enters the comparison of the roots, signals, sends, or fails.     *)
LEMMA BcastSteps ==
  ASSUME ControlInv, NEW q \in Rank, op \in Bcasts, Call(q)
  PROVE  \/ at'[q] \in Failed /\ Stays(q)
         \/ /\ op = "bcast_single" /\ at[q] = "call" /\ at'[q] = "root"
            /\ light => \E e : Grows(q, e) /\ e.out = ToAll(<<args[q].buffer>>)
            /\ ~light => Stays(q)
         \/ /\ Runs(q, IF op = "bcast" THEN "call" ELSE "root") /\ at'[q] = "computes"
            /\ ~(op = "bcast_single" /\ light /\ ~Delivered(q)[Root(q)][1])
            /\ light => \E e : Grows(q, e)
            /\ ~light => Stays(q)
         \/ /\ at[q] = "computes" /\ at'[q] = IF Computes(q) THEN "count" ELSE "given"
            /\ light => \E e : Grows(q, e)
            /\ ~light => Stays(q)
         \/ /\ at[q] = "count" /\ at'[q] = "data"
            /\ \E e : Grows(q, e) /\ e.out = ToAll(<<CountToSend(q)>>)
         \/ /\ Runs(q, IF Computes(q) THEN "data" ELSE "given")
            /\ Computes(q) => Numbers(q)[Root(q)] # NO_BUF_ON_ROOT
            /\ \/ at'[q] = "return" /\ \E e : Grows(q, e)
               \/ at'[q] \in Failed /\ Stays(q)
         \/ at[q] = "return" /\ at'[q] = "returned" /\ Stays(q)
<1>1. DOMAIN at = Rank /\ DOMAIN calls = Rank
  BY DEF ControlInv
<1>2. \A e, next : Enter(q, e, next) => Grows(q, e) /\ at'[q] = next
  BY <1>1 DEF Enter, Go, Grows
<1>3. \A next : Go(q, next) /\ UNCHANGED calls => Stays(q) /\ at'[q] = next
  BY <1>1 DEF Go, Stays
<1>4. Abort(q) \/ Reject(q) => at'[q] \in Failed /\ Stays(q)
  BY <1>3 DEF Abort, Reject, Failed
<1>5. \A v, next : AssertSame(q, v, next) =>
        at'[q] = next /\ (light => \E e : Grows(q, e)) /\ (~light => Stays(q))
  BY <1>2, <1>3 DEF AssertSame
<1>6. \A out, n : ReceiveFromRoot(q, "MPI_Bcast", out, n) =>
        \/ at'[q] = "return" /\ \E e : Grows(q, e)
        \/ at'[q] \in Failed /\ Stays(q)
  BY <1>2, <1>4 DEF ReceiveFromRoot, Receive
<1>7. Bcast(q) \/ Return(q) \/ Disagree(q)
  BY DEF Call, Gather, Gatherv, Allgather, AllgatherInplace, Allgatherv, Scatter, Scatterv,
         Alltoall, AlltoallInplace, Alltoallv, Bcasts
<1>8. CASE Disagree(q)
  BY <1>4, <1>8 DEF Disagree
<1>9. CASE Return(q)
  BY <1>3, <1>9 DEF Return, Runs
<1>10. CASE /\ op = "bcast_single" /\ Runs(q, "call")
            /\ IF light
               THEN Enter(q, Collective("MPI_Bcast", Root(q), ToAll(<<args[q].buffer>>), [s \in {Root(q)} |-> 1]), "root")
               ELSE Go(q, "root") /\ UNCHANGED calls
  BY <1>2, <1>3, <1>10 DEF Runs, Collective
<1>11. CASE /\ Runs(q, IF op = "bcast" THEN "call" ELSE "root")
            /\ IF op = "bcast_single" /\ light /\ ~Delivered(q)[Root(q)][1]
               THEN Reject(q) ELSE AssertSame(q, Root(q), "computes")
  BY <1>4, <1>5, <1>11
<1>12. CASE Runs(q, "computes") /\ AssertSame(q, Computes(q), IF Computes(q) THEN "count" ELSE "given")
  BY <1>5, <1>12 DEF Runs
<1>13. CASE /\ Runs(q, "count")
            /\ Enter(q, Collective("MPI_Bcast", Root(q), ToAll(<<CountToSend(q)>>), [s \in {Root(q)} |-> 1]), "data")
  BY <1>2, <1>13 DEF Runs, Collective
<1>14. CASE /\ Runs(q, IF Computes(q) THEN "data" ELSE "given")
            /\ LET n == IF Computes(q) THEN Numbers(q)[Root(q)] ELSE amount[Root(q)][Root(q)]
                   out == ToAll(Slice(buf[q], 0, n))
               IN  IF n = NO_BUF_ON_ROOT THEN Reject(q) /\ UNCHANGED local
                   ELSE IF IsRoot(q) /\ ~args[q].buffer THEN Abort(q) /\ UNCHANGED local
                   ELSE IF IsRoot(q)
                        THEN Enter(q, Collective("MPI_Bcast", q, out, [s \in {q} |-> n]), "return") /\
                             displs' = [displs EXCEPT ![q] = [s \in {q} |-> 0]] /\ UNCHANGED <<counts, buf>>
                        ELSE ReceiveFromRoot(q, "MPI_Bcast", out, n)
  <2> DEFINE n == IF Computes(q) THEN Numbers(q)[Root(q)] ELSE amount[Root(q)][Root(q)]
             out == ToAll(Slice(buf[q], 0, n))
  <2>1. \/ Reject(q) \/ Abort(q)
        \/ n # NO_BUF_ON_ROOT /\ Enter(q, Collective("MPI_Bcast", q, out, [s \in {q} |-> n]), "return")
        \/ n # NO_BUF_ON_ROOT /\ ReceiveFromRoot(q, "MPI_Bcast", out, n)
    BY <1>14
  <2> HIDE DEF out
  <2>2. CASE n # NO_BUF_ON_ROOT /\ Enter(q, Collective("MPI_Bcast", q, out, [s \in {q} |-> n]), "return")
    BY <1>2, <1>14, <2>2
  <2>3. CASE n # NO_BUF_ON_ROOT /\ ReceiveFromRoot(q, "MPI_Bcast", out, n)
    BY <1>6, <1>14, <2>3
  <2> QED BY <1>4, <2>1, <2>2, <2>3
<1> QED BY <1>7, <1>8, <1>9, <1>10, <1>11, <1>12, <1>13, <1>14 DEF Bcast

(* The root a rank hears of is the one that signals.                        *)
LEMMA SignalHeard ==
  ASSUME ControlInv, SignalInv, op \in Bcasts, NEW r \in Rank, NEW s \in Rank, Absent(s),
         CanLeave(r), Root(s) = Root(r), op = "bcast" => Computes(s),
         Len(calls[r]) = Signal, Kinds(Computes(r))[Signal] = "MPI_Bcast"
  PROVE  /\ op = "bcast_single" => ~Delivered(r)[Root(r)][1]
         /\ op = "bcast" => Numbers(r)[Root(r)] = NO_BUF_ON_ROOT
<1> DEFINE k == Signal
<1>1. k \in Nat \ {0}
  BY DEF Signal, Unit
<1>2. s = Root(r)
  BY DEF Absent, IsRoot
<1>3. "MPI_Bcast" # Compare
  BY DEF Compare
<1>4. calls[r][k].kind = "MPI_Bcast" /\ calls[r][k].root = s
  <2>1. k \in 1 .. Len(calls[r])
    BY <1>1
  <2>2. EntryOK(r, k, calls[r][k])
    BY <2>1 DEF ControlInv, TraceInv
  <2> QED BY <1>2, <1>3, <2>2 DEF EntryOK
<1>5. calls[r] # << >> /\ Last(calls[r]) = calls[r][k]
  BY <1>1 DEF Last
<1>6. SendersOf(r) = {s}
  BY <1>4, <1>5 DEF SendersOf, Senders
<1>7. Len(calls[s]) >= k /\ Len(calls[s]) \in Nat
  BY <1>6 DEF CanLeave, ControlInv, TraceInv, IsSequence
<1>8. Signals(calls[s][k].out)
  <2>1. k \in 1 .. Len(calls[s])
    BY <1>1, <1>7
  <2> QED BY <2>1 DEF SignalInv, SignalOK
<1>9. Delivered(r) = [x \in {s} |-> calls[s][k].out[r]]
  BY <1>6 DEF Delivered
<1>10. CASE op = "bcast_single"
  <2>1. calls[s][k].out = ToAll(<<FALSE>>)
    BY <1>8, <1>10 DEF Signals
  <2>2. Delivered(r)[s] = <<FALSE>>
    BY <1>9, <2>1 DEF ToAll
  <2> QED BY <1>2, <1>10, <2>2
<1>11. CASE op = "bcast"
  <2>1. calls[s][k].out = ToAll(<<NO_BUF_ON_ROOT>>)
    BY <1>8, <1>11 DEF Signals
  <2>2. Delivered(r)[s] = <<NO_BUF_ON_ROOT>>
    BY <1>9, <2>1 DEF ToAll
  <2>3. Numbers(r)[s] = NO_BUF_ON_ROOT
    BY <1>9, <2>2 DEF Numbers
  <2> QED BY <1>2, <1>11, <2>3
<1> QED BY <1>10, <1>11 DEF Bcasts

(* Positions in the two broadcasts.                                         *)
LEMMA SignalPositions ==
  ASSUME ControlInv, NEW r \in Rank, op \in Bcasts
  PROVE  /\ op = "bcast" =>
              /\ at[r] = "call" => Len(calls[r]) = 0
              /\ at[r] = "computes" => Len(calls[r]) = Unit
              /\ at[r] \in {"count", "given"} => Len(calls[r]) = 2 * Unit
              /\ at[r] = "data" => Len(calls[r]) = 2 * Unit + 1
         /\ op = "bcast_single" =>
              /\ at[r] = "call" => Len(calls[r]) = 0
              /\ at[r] = "root" => Len(calls[r]) = Unit
              /\ at[r] = "computes" => Len(calls[r]) = 2 * Unit
              /\ at[r] = "given" => Len(calls[r]) = 3 * Unit
<1>1. \A l : at[r] = l /\ l \notin Failed => Len(calls[r]) = Position(Computes(r), l)
  BY DEF ControlInv, TraceInv
<1>2. {"call", "computes", "count", "given", "data", "root"} \cap Failed = {}
  BY DEF Failed
<1>3. op = "bcast" => \A c :
        /\ Position(c, "call") = 0 /\ Position(c, "computes") = Unit
        /\ Position(c, "count") = 2 * Unit /\ Position(c, "given") = 2 * Unit
        /\ Position(c, "data") = 2 * Unit + 1
  BY DEF Position
<1>4. op = "bcast_single" => \A c :
        /\ Position(c, "call") = 0 /\ Position(c, "root") = Unit
        /\ Position(c, "computes") = 2 * Unit /\ Position(c, "given") = 3 * Unit
  BY DEF Position
<1> QED BY <1>1, <1>2, <1>3, <1>4

(* A step keeps what the root signals.                                      *)
LEMMA SignalSent ==
  ASSUME ControlInv, SignalInv, op \in Bcasts, NEW q \in Rank, Call(q)
  PROVE  SignalOK(q)'
<1> DEFINE n == Len(calls[q])
<1>1. op' = op /\ light' = light /\ args' = args /\ Computes(q)' = Computes(q)
  BY ArgumentsStay DEF Call
<1>2. /\ Absent(q)' = Absent(q) /\ Signal' = Signal
      /\ \A out : Signals(out)' = Signals(out)
  BY <1>1 DEF Absent, IsRoot, Root, Signal, Signals, Unit
<1>3. IsSequence(calls[q]) /\ n \in Nat
  BY DEF ControlInv, TraceInv, IsSequence
<1> SUFFICES ASSUME Absent(q), NEW k \in 1 .. Len(calls'[q]), k = Signal
             PROVE  Signals(calls'[q][k].out)
  BY <1>2 DEF SignalOK, Signals
<1>4. SignalOK(q) /\ StoppedOK(q) /\ (\E s \in Rank : Absent(s))
  BY DEF SignalInv
<1>5. CASE Stays(q)
  BY <1>4, <1>5 DEF SignalOK, Stays
<1>6. ASSUME NEW e, Grows(q, e), n + 1 = Signal => Signals(e.out)
      PROVE  Signals(calls'[q][k].out)
  <2>1. /\ Len(calls'[q]) = n + 1 /\ \A i \in 1 .. n : calls'[q][i] = calls[q][i]
        /\ calls'[q][n + 1] = e
    BY <1>3, <1>6, AppendSequence DEF Grows
  <2>2. CASE k = n + 1
    BY <1>6, <2>1, <2>2
  <2>3. CASE k # n + 1
    <3>1. k \in 1 .. n
      BY <1>3, <2>1, <2>3
    <3> QED BY <1>4, <2>1, <3>1 DEF SignalOK
  <2> QED BY <2>2, <2>3
<1>7. ASSUME n + 1 # Signal, NEW e, Grows(q, e)
      PROVE  Signals(calls'[q][k].out)
  BY <1>6, <1>7
<1>8. CASE op = "bcast_single"
  <2>1. ~args[q].buffer /\ light /\ Unit = 1 /\ Signal = 1 /\ ~Computes(q)
    BY <1>8 DEF Absent, ControlInv, ArgsInv, Unit, Signal
  <2>2. at[q] \in {"root", "computes", "given"} => n + 1 # Signal
    <3>1. at[q] \in {"root", "computes", "given"} => n \in {Unit, 2 * Unit, 3 * Unit}
      BY <1>8, SignalPositions
    <3>2. \A u, m : u = 1 /\ m \in {u, 2 * u, 3 * u} => m + 1 # 1
      OBVIOUS
    <3> QED BY <2>1, <3>1, <3>2
  <2>3. ASSUME NEW e, Grows(q, e), e.out = ToAll(<<args[q].buffer>>)
        PROVE  Signals(calls'[q][k].out)
    <3>1. e.out = ToAll(<<FALSE>>)
      <4>1. args[q].buffer = FALSE
        BY <2>1 DEF ControlInv, ArgsInv
      <4> QED BY <2>3, <4>1
    <3>2. Signals(e.out)
      BY <1>8, <3>1 DEF Signals
    <3> QED BY <1>6, <2>3, <3>2
  <2>4. op # "bcast"
    BY <1>8
  <2>5. \/ Stays(q)
        \/ \E e : Grows(q, e) /\ e.out = ToAll(<<args[q].buffer>>)
        \/ at[q] \in {"root", "computes", "given"} /\ \E e : Grows(q, e)
    <3>1. at[q] # "count"
      BY <2>1 DEF ControlInv, TraceInv, Fits, Finding
    <3> QED BY <1>8, <2>1, <2>4, <3>1, BcastSteps DEF Runs
  <2> QED BY <1>5, <1>7, <2>2, <2>3, <2>5
<1>9. CASE op = "bcast"
  <2>1. ~args[q].buffer /\ light /\ Unit = 1 /\ Signal = 3 /\ Computes(q)
    BY <1>9 DEF Absent, ControlInv, ArgsInv, Unit, Signal
  <2>2. at[q] \in {"call", "computes", "data"} => n + 1 # Signal
    <3>1. at[q] \in {"call", "computes", "data"} => n \in {0, Unit, 2 * Unit + 1}
      BY <1>9, SignalPositions
    <3>2. \A u, m : u = 1 /\ m \in {0, u, 2 * u + 1} => m + 1 # 3
      OBVIOUS
    <3> QED BY <2>1, <3>1, <3>2
  <2>3. ASSUME NEW e, Grows(q, e), e.out = ToAll(<<CountToSend(q)>>)
        PROVE  Signals(calls'[q][k].out)
    <3>1. CountToSend(q) = NO_BUF_ON_ROOT
      BY <2>1 DEF CountToSend
    <3>2. Signals(e.out)
      BY <1>9, <2>3, <3>1 DEF Signals
    <3> QED BY <1>6, <2>3, <3>2
  <2>4. op # "bcast_single"
    BY <1>9
  <2>5. \/ Stays(q)
        \/ \E e : Grows(q, e) /\ e.out = ToAll(<<CountToSend(q)>>)
        \/ at[q] \in {"call", "computes", "data"} /\ \E e : Grows(q, e)
    BY <1>9, <2>1, <2>4, BcastSteps DEF Runs
  <2> QED BY <1>5, <1>7, <2>2, <2>3, <2>5
<1> QED BY <1>8, <1>9 DEF Bcasts

(* Nobody steps past the signal.                                            *)
LEMMA SignalStops ==
  ASSUME ControlInv, SignalInv, op \in Bcasts, NEW q \in Rank, Call(q)
  PROVE  StoppedOK(q)'
<1>1. op' = op /\ light' = light /\ args' = args /\ Computes(q)' = Computes(q)
  BY ArgumentsStay DEF Call
<1>2. \A s : Absent(s)' = Absent(s)
  BY <1>1, ArgumentsStay DEF Call, Absent, IsRoot, Root, Computes
<1> SUFFICES ASSUME NEW s \in Rank, Absent(s)
             PROVE  /\ op = "bcast_single" => at'[q] \in {"call", "root"} \cup Failed
                    /\ op = "bcast" /\ Computes(q) => at'[q] \notin {"return", "returned"}
  BY <1>1, <1>2 DEF StoppedOK
<1>3. light /\ Unit = 1
  BY DEF Absent, ControlInv, ArgsInv, Unit
<1>4. StoppedOK(q) /\ (\E x \in Rank : Absent(x))
  BY DEF SignalInv
<1>5. {"call", "root", "computes", "count", "given", "data", "return", "returned"} \cap Failed = {}
  BY DEF Failed
<1>6. CASE op = "bcast_single"
  <2>1. at[q] \in {"call", "root"} \cup Failed /\ ~Computes(q)
    BY <1>4, <1>6 DEF StoppedOK, ControlInv, ArgsInv
  <2>2. Root(s) = Root(q)
    BY <1>6 DEF ControlInv, ArgsInv, Comparing
  <2>3. ASSUME Runs(q, "root")
        PROVE  ~Delivered(q)[Root(q)][1]
    <3>1. Len(calls[q]) = 1
      BY <1>3, <1>6, <2>3, SignalPositions DEF Runs
    <3>2. Kinds(Computes(q))[1] = "MPI_Bcast"
      BY <1>3, <1>6 DEF Kinds
    <3>3. CanLeave(q) /\ Signal = 1
      BY <1>6, <2>3 DEF Runs, Signal
    <3> QED BY <1>6, <2>2, <3>1, <3>2, <3>3, SignalHeard
  <2>4. op # "bcast"
    BY <1>6
  <2> QED BY <1>3, <1>5, <1>6, <2>1, <2>3, <2>4, BcastSteps DEF Runs
<1>7. CASE op = "bcast"
  <2>1. SUFFICES ASSUME Computes(q)
                 PROVE  at'[q] \notin {"return", "returned"}
    BY <1>7
  <2>2. at[q] \notin {"return", "returned"}
    BY <1>4, <1>7, <2>1 DEF StoppedOK
  <2>3. ASSUME Runs(q, "data")
        PROVE  Numbers(q)[Root(q)] = NO_BUF_ON_ROOT
    <3>1. Len(calls[q]) = 3
      BY <1>3, <1>7, <2>3, SignalPositions DEF Runs
    <3>2. Kinds(Computes(q)) = <<Compare, Compare, "MPI_Bcast", "MPI_Bcast">>
      BY <1>3, <1>7, <2>1 DEF Kinds
    <3>3. Known(q, 1)
      <4>1. Kinds(Computes(q))[1] = Compare
        BY <3>2
      <4>2. 1 \in 1 .. Len(calls[q]) - 1
        BY <3>1
      <4> QED BY <4>1, <4>2 DEF ControlInv, KnownInv
    <3>4. Root(s) = Root(q)
      BY <1>3, <1>7, <3>3, SharedAfter DEF ControlInv
    <3>5. CanLeave(q) /\ Signal = 3 /\ Computes(s)
      BY <1>3, <1>7, <2>3 DEF Runs, Signal, Absent
    <3> QED BY <1>7, <3>1, <3>2, <3>4, <3>5, SignalHeard
  <2> QED BY <1>3, <1>5, <1>7, <2>1, <2>2, <2>3, BcastSteps DEF Runs
<1> QED BY <1>6, <1>7 DEF Bcasts

(* Nothing is signalled yet.                                                *)
LEMMA InitSignal == Init => SignalInv
<1> SUFFICES ASSUME NEW misuse, InitWith(misuse), NEW r \in Rank
             PROVE  SignalOK(r) /\ StoppedOK(r)
  BY DEF Init, SignalInv
<1>1. calls[r] = << >> /\ at[r] = "call"
  BY DEF InitWith
<1>2. SignalOK(r)
  BY <1>1 DEF SignalOK
<1>3. StoppedOK(r)
  BY <1>1 DEF StoppedOK
<1> QED BY <1>2, <1>3

(* Every step of every rank keeps the invariant.                            *)
LEMMA NextSignal ==
  ASSUME ControlInv, SignalInv, [Next]_vars
  PROVE  SignalInv'
<1>1. UNCHANGED <<op, light, amount, args>>
  BY DEF Next, Call, Terminated, vars
<1>2. /\ \A s : Absent(s)' = Absent(s) /\ Computes(s)' = Computes(s)
      /\ Signal' = Signal /\ \A out : Signals(out)' = Signals(out)
  BY <1>1, ArgumentsStay DEF Absent, IsRoot, Root, Computes, Signal, Signals, Unit
<1>3. ASSUME NEW r \in Rank, at'[r] = at[r], calls'[r] = calls[r], op \in Bcasts
      PROVE  SignalOK(r)' /\ StoppedOK(r)'
  <2>1. SignalOK(r) /\ StoppedOK(r)
    BY <1>3 DEF SignalInv
  <2>2. SignalOK(r)'
    BY <1>1, <1>2, <1>3, <2>1 DEF SignalOK, Signals
  <2>3. StoppedOK(r)'
    BY <1>1, <1>2, <1>3, <2>1 DEF StoppedOK
  <2> QED BY <2>2, <2>3
<1>4. ASSUME NEW q \in Rank, Call(q), op \in Bcasts, NEW r \in Rank
      PROVE  SignalOK(r)' /\ StoppedOK(r)'
  <2>1. CASE r = q
    BY <1>4, <2>1, SignalSent, SignalStops
  <2>2. CASE r # q
    <3>1. at'[r] = at[r] /\ calls'[r] = calls[r]
      <4>1. DOMAIN at = Rank /\ DOMAIN calls = Rank
        BY DEF ControlInv
      <4>2. Bcast(q) \/ Return(q) \/ Disagree(q)
        BY <1>4 DEF Call, Gather, Gatherv, Allgather, AllgatherInplace, Allgatherv, Scatter, Scatterv,
               Alltoall, AlltoallInplace, Alltoallv, Bcasts
      <4>3. \A e, next : Enter(q, e, next) => at'[r] = at[r] /\ calls'[r] = calls[r]
        BY <2>2, <4>1 DEF Enter, Go
      <4>4. \A next : Go(q, next) /\ UNCHANGED calls => at'[r] = at[r] /\ calls'[r] = calls[r]
        BY <2>2, <4>1 DEF Go
      <4>5. (\E e, next : Enter(q, e, next)) \/ (\E next : Go(q, next) /\ UNCHANGED calls)
        BY <4>2 DEF Bcast, Return, Disagree, AssertSame, Reject, Abort, ReceiveFromRoot, Receive
      <4> QED BY <4>3, <4>4, <4>5
    <3> QED BY <1>3, <1>4, <3>1
  <2> QED BY <2>1, <2>2
<1>5. CASE UNCHANGED vars
  BY <1>1, <1>3, <1>5 DEF vars, SignalInv
<1>6. CASE \E q \in Rank : Call(q)
  BY <1>1, <1>4, <1>6 DEF SignalInv
<1> QED BY <1>5, <1>6 DEF Next, Terminated

(* Who returns has met every comparison of its chain.                       *)
LEMMA ReturnedKnows ==
  ASSUME ControlInv, NEW r \in Rank, at[r] = "returned"
  PROVE  \A k \in 1 .. Len(Kinds(Computes(r))) - 1 : Kinds(Computes(r))[k] = Compare => Known(r, k)
<1>1. "returned" \notin Failed
  BY DEF Failed
<1>2. Len(calls[r]) = Len(Kinds(Computes(r)))
  BY <1>1 DEF ControlInv, TraceInv, Position
<1> QED BY <1>2 DEF ControlInv, KnownInv

(* Who returns has compared all that the ranks may disagree on.             *)
LEMMA ReturnedAgree ==
  ASSUME ControlInv, light, NEW r \in Rank, at[r] = "returned", NEW s \in Rank
  PROVE  /\ Root(s) = Root(r) /\ (Computes(s) <=> Computes(r))
         /\ op \in {"allgatherv", "alltoallv"} => args[s].recv_displs = args[r].recv_displs
         /\ op = "alltoallv" => args[s].send_displs = args[r].send_displs
         /\ op = "allgather" => amount[s] = amount[r]
<1> DEFINE c == Computes(r)
<1>1. ArgsInv
  BY DEF ControlInv
<1>2. \A k \in 1 .. Len(Kinds(c)) - 1 : Kinds(c)[k] = Compare => Known(r, k)
  BY ReturnedKnows
<1>3. Computes(r) \in BOOLEAN /\ Computes(s) \in BOOLEAN
  BY DEF Computes
<1>4. CASE op \notin Comparing
  <2>1. op \notin {"allgather", "allgatherv", "alltoallv"}
    BY <1>4 DEF Comparing
  <2> QED BY <1>1, <1>4, <2>1 DEF ArgsInv
<1>5. CASE op = "gather"
  <2>1. Kinds(c) = <<Compare, "MPI_Gather">>
    BY <1>5 DEF Kinds
  <2>2. Known(r, 1)
    BY <1>2, <2>1
  <2>3. Root(s) = Root(r)
    BY <1>1, <1>5, <2>2, SharedAfter
  <2>4. ~Computes(s) /\ ~Computes(r)
    BY <1>1, <1>5 DEF ArgsInv
  <2> QED BY <1>5, <2>3, <2>4
<1>6. CASE op = "allgather"
  <2>1. Kinds(c) = <<Compare, "MPI_Allgather">>
    BY <1>6 DEF Kinds
  <2>2. Known(r, 1)
    BY <1>2, <2>1
  <2>3. \A q : Value(q, 1) = Len(Msg(q, q))
    BY <1>6 DEF Value
  <2>4. \A q \in Rank : Len(Msg(q, q)) = amount[q][q]
    BY <1>1, <1>6 DEF ArgsInv, Msg
  <2>5. amount[s][s] = amount[r][r]
    BY <2>2, <2>3, <2>4 DEF Known
  <2>6. amount[s] = amount[r]
    BY <1>1, <1>6, <2>5 DEF ArgsInv
  <2>7. Root(s) = Root(r) /\ ~Computes(s) /\ ~Computes(r)
    BY <1>1, <1>6 DEF ArgsInv, Rooted, Gathers, Scatters, Bcasts
  <2> QED BY <1>6, <2>6, <2>7
<1>7. CASE op \in {"gatherv", "scatter", "scatterv", "bcast"}
  <2>1. Kinds(c)[1] = Compare /\ Kinds(c)[2] = Compare /\ 3 <= Len(Kinds(c)) /\ Len(Kinds(c)) \in Nat
    BY <1>7 DEF Kinds
  <2>2. Known(r, 1) /\ Known(r, 2)
    BY <1>2, <2>1
  <2>3. Root(s) = Root(r) /\ Computes(s) = Computes(r)
    BY <1>1, <1>7, <2>2, SharedAfter
  <2> QED BY <1>7, <2>3
<1>8. ASSUME op \in {"allgatherv", "alltoallv"}
      PROVE  Root(s) = Root(r) /\ Computes(s) = Computes(r)
  <2>1. Kinds(c)[1] = Compare /\ 3 <= Len(Kinds(c)) /\ Len(Kinds(c)) \in Nat
    BY <1>8 DEF Kinds
  <2>2. Known(r, 1)
    BY <1>2, <2>1
  <2> QED BY <1>1, <1>8, <2>2, SharedAfter DEF ArgsInv, Rooted, Gathers, Scatters, Bcasts
<1>9. CASE op = "allgatherv"
  <2> DEFINE k == IF c THEN 4 ELSE 2
  <2>1. Kinds(c)[k] = Compare /\ k \in 1 .. Len(Kinds(c)) - 1
    BY <1>9 DEF Kinds
  <2>2. Known(r, k)
    BY <1>2, <2>1
  <2>3. \A q \in {r, s} : Value(q, k) = (args[q].recv_displs = "omitted")
    BY <1>8, <1>9 DEF Value
  <2>4. (args[s].recv_displs = "omitted") = (args[r].recv_displs = "omitted")
    BY <2>2, <2>3 DEF Known
  <2>5. args[s].recv_displs = args[r].recv_displs
    BY <1>1, <2>4 DEF ArgsInv
  <2> QED BY <1>8, <1>9, <2>5
<1>10. CASE op = "alltoallv"
  <2> DEFINE k == IF c THEN 3 ELSE 2
  <2>1. /\ Kinds(c)[k] = Compare /\ k \in 1 .. Len(Kinds(c)) - 1
        /\ Kinds(c)[k + 1] = Compare /\ k + 1 \in 1 .. Len(Kinds(c)) - 1
    BY <1>10 DEF Kinds
  <2>2. Known(r, k) /\ Known(r, k + 1)
    BY <1>2, <2>1
  <2>3. \A q \in {r, s} : /\ Value(q, k) = (args[q].send_displs = "omitted")
                          /\ Value(q, k + 1) = (args[q].recv_displs = "omitted")
    BY <1>8, <1>10 DEF Value
  <2>4. /\ (args[s].send_displs = "omitted") = (args[r].send_displs = "omitted")
        /\ (args[s].recv_displs = "omitted") = (args[r].recv_displs = "omitted")
    BY <2>2, <2>3 DEF Known
  <2>5. args[s].recv_displs = args[r].recv_displs /\ args[s].send_displs = args[r].send_displs
    BY <1>1, <2>4 DEF ArgsInv
  <2> QED BY <1>8, <1>10, <2>5
<1> QED BY <1>4, <1>5, <1>6, <1>7, <1>9, <1>10 DEF Comparing

(* A call returns only if the ranks agree on every argument the wrapper     *)
(* compares, and the root of a broadcast has a buffer: whatever they are    *)
(* given, however many ranks there are and however they interleave.         *)
THEOREM MisuseIsNoticed == Spec => []MisuseNoticed
<1>1. Init => ControlInv /\ SignalInv
  BY InitInv, InitSignal
<1>2. ControlInv /\ SignalInv /\ [Next]_vars => ControlInv' /\ SignalInv'
  BY NextInv, NextSignal
<1>3. ASSUME ControlInv, SignalInv
      PROVE  MisuseNoticed
  <2> SUFFICES ASSUME NEW r \in Rank, at[r] = "returned"
               PROVE  ~Disagreement
    BY DEF MisuseNoticed
  <2>1. ArgsInv
    BY <1>3 DEF ControlInv
  <2>2. ASSUME NEW s \in Rank
        PROVE  /\ Root(s) = Root(r) /\ (Computes(s) <=> Computes(r))
               /\ op \in {"allgatherv", "alltoallv"} => args[s].recv_displs = args[r].recv_displs
               /\ op = "alltoallv" => args[s].send_displs = args[r].send_displs
               /\ op = "allgather" => amount[s] = amount[r]
    <3>1. CASE light
      BY <1>3, <3>1, ReturnedAgree
    <3>2. CASE ~light
      <4>1. Root(s) = Root(r) /\ (Computes(s) <=> Computes(r))
        BY <2>1, <3>2 DEF ArgsInv
      <4>2. /\ args[s].recv_displs = args[r].recv_displs
            /\ args[s].send_displs = args[r].send_displs
            /\ op = "allgather" => amount[s] = amount[r]
        BY <2>1, <3>2 DEF ArgsInv
      <4> QED BY <4>1, <4>2
    <3> QED BY <3>1, <3>2
  <2>3. ASSUME NEW s \in Rank, op \in Bcasts, IsRoot(s), ~args[s].buffer, op = "bcast" => Computes(s)
        PROVE  FALSE
    <3>1. Absent(s)
      BY <2>3 DEF Absent
    <3>2. StoppedOK(r)
      BY <1>3, <2>3 DEF SignalInv
    <3>3. op = "bcast" => Computes(r)
      BY <2>2, <2>3
    <3>4. "returned" \notin {"call", "root"} \cup Failed
      BY DEF Failed
    <3> QED BY <2>3, <3>1, <3>2, <3>3, <3>4 DEF StoppedOK, Bcasts
  <2>4. \A s \in Rank : args[s].root = args[r].root
    BY <2>2 DEF Root
  <2>5. \A s \in Rank : Computes(s) = Computes(r)
    BY <2>2 DEF Computes
  <2> QED BY <2>2, <2>3, <2>4, <2>5 DEF Disagreement
<1> QED BY <1>1, <1>2, <1>3, PTL DEF Spec

--------------------------------------------------------------------------------
(* Numbers                                                                  *)

(* Induction, from the least number that a set of naturals leaves out.      *)
LEMMA Induction ==
  ASSUME NEW S, 0 \in S, \A n \in Nat : n \in S => n + 1 \in S
  PROVE  Nat \subseteq S
<1> SUFFICES ASSUME ~(Nat \subseteq S)
             PROVE  FALSE
  OBVIOUS
<1> DEFINE T    == Nat \ S
           Less == OpToRel(<, Nat)
<1>1. T # {} /\ T \subseteq Nat
  OBVIOUS
<1>2. IsWellFoundedOn(Less, Nat)
  BY NatLessThanWellFounded
<1>3. \E x \in T : \A y \in T : <<y, x>> \notin Less
  <2> HIDE DEF T, Less
  <2> QED BY <1>1, <1>2, WFMin
<1>4. PICK x \in T : \A y \in T : <<y, x>> \notin Less
  BY <1>3
<1>5. \A y \in T : ~(y < x)
  BY <1>1, <1>4 DEF OpToRel
<1>6. x # 0 /\ x \in Nat
  OBVIOUS
<1>7. x - 1 \in Nat /\ x - 1 \notin T
  BY <1>5, <1>6
<1> QED BY <1>6, <1>7

--------------------------------------------------------------------------------
(* Sums *)

Sum(f, S) == FoldFunctionOnSet(LAMBDA x, y : x + y, 0, f, S)

Pick1(s) == CHOOSE x \in s : TRUE

(* The function by which the sum is defined, on some sets of indices.       *)
Sums(f, D, g) == g = [s \in D |-> IF s = {} THEN 0 ELSE f[Pick1(s)] + g[s \ {Pick1(s)}]]

SumFcn(f, S) == CHOOSE g : Sums(f, SUBSET S, g)

(* The sum is what the recursion of MapThenFoldSet over the subsets gives. *)
LEMMA SumIs == \A f, S : Sum(f, S) = SumFcn(f, S)[S]
BY DEF Sum, Sums, SumFcn, Pick1, FoldFunctionOnSet, MapThenFoldSet

Smaller(S, n) == {s \in SUBSET S : Cardinality(s) <= n}

(* A finite set has one element less without one of its elements. *)
LEMMA Without ==
  ASSUME NEW S, IsFiniteSet(S), NEW x \in S
  PROVE  /\ IsFiniteSet(S \ {x}) /\ Cardinality(S \ {x}) = Cardinality(S) - 1
         /\ Cardinality(S) \in Nat \ {0} /\ Cardinality(S \ {x}) \in Nat
<1>1. Cardinality(S \ {x}) = Cardinality(S) - 1 /\ IsFiniteSet(S \ {x})
  BY FS_RemoveElement
<1>2. Cardinality(S) \in Nat /\ Cardinality(S \ {x}) \in Nat
  BY <1>1, FS_CardinalityType
<1> QED BY <1>1, <1>2

(* What is picked of a set is in it. *)
LEMMA PickIn == ASSUME NEW s, s # {} PROVE Pick1(s) \in s
BY DEF Pick1

(* If a function is the sum of all sets below a size, there is one up to that size. *)
LEMMA SumsStep ==
  ASSUME NEW f, NEW S, IsFiniteSet(S), NEW n \in Nat, \E g : Sums(f, Smaller(S, n), g)
  PROVE  \E g : Sums(f, Smaller(S, n + 1), g)
<1>1. PICK g : Sums(f, Smaller(S, n), g)
  OBVIOUS
<1> DEFINE h == [s \in Smaller(S, n + 1) |-> IF s = {} THEN 0 ELSE f[Pick1(s)] + g[s \ {Pick1(s)}]]
<1>2. Smaller(S, n) \subseteq Smaller(S, n + 1)
  <2>1. \A s \in SUBSET S : Cardinality(s) \in Nat
    BY FS_Subset, FS_CardinalityType
  <2> QED BY <2>1 DEF Smaller
<1>3. \A u \in Smaller(S, n) : h[u] = g[u]
  BY <1>1, <1>2 DEF Sums
<1>4. \A s \in Smaller(S, n + 1) : s # {} => s \ {Pick1(s)} \in Smaller(S, n)
  <2> SUFFICES ASSUME NEW s \in Smaller(S, n + 1), s # {}
               PROVE  s \ {Pick1(s)} \in Smaller(S, n)
    OBVIOUS
  <2>1. s \in SUBSET S /\ Cardinality(s) <= n + 1
    BY DEF Smaller
  <2>2. Pick1(s) \in s
    BY PickIn
  <2>3. Cardinality(s \ {Pick1(s)}) = Cardinality(s) - 1 /\ Cardinality(s) \in Nat
    BY <2>1, <2>2, FS_Subset, Without
  <2> QED BY <2>1, <2>3 DEF Smaller
<1>5. Sums(f, Smaller(S, n + 1), h)
  BY <1>3, <1>4 DEF Sums
<1> QED BY <1>5

(* Some function is the sum of every subset of a finite set. *)
LEMMA SumsExist ==
  ASSUME NEW f, NEW S, IsFiniteSet(S)
  PROVE  \E g : Sums(f, SUBSET S, g)
<1> DEFINE N == {n \in Nat : \E g : Sums(f, Smaller(S, n), g)}
<1>1. 0 \in N
  <2>1. Smaller(S, 0) = {{}}
    <3>1. \A s \in SUBSET S : Cardinality(s) <= 0 <=> s = {}
      BY FS_Subset, FS_CardinalityType, FS_EmptySet
    <3> QED BY <3>1 DEF Smaller
  <2>2. Sums(f, Smaller(S, 0), [s \in Smaller(S, 0) |-> 0])
    BY <2>1 DEF Sums
  <2> QED BY <2>2
<1>2. \A n \in Nat : n \in N => n + 1 \in N
  BY SumsStep
<1>3. Nat \subseteq N
  <2> HIDE DEF N
  <2> QED BY <1>1, <1>2, Induction
<1>4. Cardinality(S) \in N
  BY <1>3, FS_CardinalityType
<1>5. Smaller(S, Cardinality(S)) = SUBSET S
  BY FS_Subset DEF Smaller
<1> QED BY <1>4, <1>5

(* Two such functions agree where both are defined.                         *)
LEMMA SumsUnique ==
  ASSUME NEW f, NEW S, IsFiniteSet(S), NEW T \in SUBSET S,
         NEW g, NEW h, Sums(f, SUBSET S, g), Sums(f, SUBSET T, h)
  PROVE  \A s \in SUBSET T : g[s] = h[s]
<1> DEFINE N == {n \in Nat : \A s \in SUBSET T : Cardinality(s) = n => g[s] = h[s]}
<1>1. \A s \in SUBSET T : IsFiniteSet(s) /\ Cardinality(s) \in Nat
  BY FS_Subset, FS_CardinalityType
<1>2. 0 \in N
  <2>1. \A s \in SUBSET T : Cardinality(s) = 0 => s = {}
    BY <1>1, FS_EmptySet
  <2>2. g[{}] = 0 /\ h[{}] = 0
    BY DEF Sums
  <2> QED BY <2>1, <2>2
<1>3. ASSUME NEW n \in Nat, n \in N
      PROVE  n + 1 \in N
  <2> SUFFICES ASSUME NEW s \in SUBSET T, Cardinality(s) = n + 1
               PROVE  g[s] = h[s]
    OBVIOUS
  <2>1. s # {}
    BY FS_EmptySet
  <2>2. Pick1(s) \in s
    BY <2>1, PickIn
  <2>3. Cardinality(s \ {Pick1(s)}) = n /\ s \ {Pick1(s)} \in SUBSET T
    BY <1>1, <2>2, Without
  <2>4. g[s \ {Pick1(s)}] = h[s \ {Pick1(s)}]
    BY <1>3, <2>3
  <2>5. s \in SUBSET S
    OBVIOUS
  <2>6. g[s] = f[Pick1(s)] + g[s \ {Pick1(s)}]
    BY <2>1, <2>5 DEF Sums
  <2>7. h[s] = f[Pick1(s)] + h[s \ {Pick1(s)}]
    BY <2>1 DEF Sums
  <2> QED BY <2>4, <2>6, <2>7
<1>4. Nat \subseteq N
  <2> HIDE DEF N
  <2> QED BY <1>2, <1>3, Induction
<1> QED BY <1>1, <1>4

(* The sum of a set is that of what is picked and of the rest. *)
LEMMA SumRecursion ==
  ASSUME NEW f, NEW S, IsFiniteSet(S)
  PROVE  Sum(f, S) = IF S = {} THEN 0 ELSE f[Pick1(S)] + Sum(f, S \ {Pick1(S)})
<1>1. ASSUME NEW T \in SUBSET S
      PROVE  Sums(f, SUBSET T, SumFcn(f, T))
  <2>1. \E g : Sums(f, SUBSET T, g)
    BY FS_Subset, SumsExist
  <2> QED BY <2>1 DEF SumFcn
<1>2. Sums(f, SUBSET S, SumFcn(f, S))
  BY <1>1
<1>3. CASE S = {}
  <2>1. SumFcn(f, S)[S] = 0
    BY <1>2, <1>3 DEF Sums
  <2> QED BY <1>3, <2>1, SumIs
<1>4. CASE S # {}
  <2> DEFINE T == S \ {Pick1(S)}
             p == Pick1(S)
  <2>1. SumFcn(f, S)[S] = f[p] + SumFcn(f, S)[T]
    <3>1. S \in SUBSET S
      OBVIOUS
    <3> HIDE DEF p
    <3> QED BY <1>2, <1>4, <3>1 DEF Sums, p
  <2>2. SumFcn(f, S)[T] = SumFcn(f, T)[T]
    <3>1. Sums(f, SUBSET T, SumFcn(f, T)) /\ T \in SUBSET S /\ T \in SUBSET T
      BY <1>1
    <3> DEFINE g == SumFcn(f, S)
               h == SumFcn(f, T)
    <3>2. Sums(f, SUBSET S, g) /\ Sums(f, SUBSET T, h)
      BY <1>2, <3>1
    <3> HIDE DEF T, g, h
    <3>3. \A s \in SUBSET T : g[s] = h[s]
      BY <3>1, <3>2, SumsUnique, SMTT(60)
    <3>4. g[T] = h[T]
      BY <3>1, <3>3
    <3> QED BY <3>4 DEF g, h
  <2> QED BY <1>4, <2>1, <2>2, SumIs
<1> QED BY <1>3, <1>4

(* A sum of naturals is a natural. *)
LEMMA SumType ==
  ASSUME NEW f, NEW S, IsFiniteSet(S), \A x \in S : f[x] \in Nat
  PROVE  Sum(f, S) \in Nat
<1> DEFINE N == {n \in Nat : \A T \in SUBSET S : Cardinality(T) = n => Sum(f, T) \in Nat}
<1>1. \A T \in SUBSET S : IsFiniteSet(T) /\ Cardinality(T) \in Nat
  BY FS_Subset, FS_CardinalityType
<1>2. 0 \in N
  <2>1. \A T \in SUBSET S : Cardinality(T) = 0 => T = {}
    BY <1>1, FS_EmptySet
  <2>2. Sum(f, {}) = 0
    BY SumRecursion, FS_EmptySet
  <2> QED BY <2>1, <2>2
<1>3. ASSUME NEW n \in Nat, n \in N
      PROVE  n + 1 \in N
  <2> SUFFICES ASSUME NEW T \in SUBSET S, Cardinality(T) = n + 1
               PROVE  Sum(f, T) \in Nat
    OBVIOUS
  <2> DEFINE p == Pick1(T)
  <2>1. T # {} /\ p \in T
    BY FS_EmptySet, PickIn
  <2>2. Sum(f, T) = f[p] + Sum(f, T \ {p})
    BY <1>1, <2>1, SumRecursion
  <2> HIDE DEF p
  <2>3. Cardinality(T \ {p}) = n /\ T \ {p} \in SUBSET S
    BY <1>1, <2>1, Without
  <2>4. Sum(f, T \ {p}) \in Nat /\ f[p] \in Nat
    BY <1>3, <2>1, <2>3
  <2> QED BY <2>2, <2>4
<1>4. Nat \subseteq N
  <2> HIDE DEF N
  <2> QED BY <1>2, <1>3, Induction
<1> QED BY <1>1, <1>4

(* A sum of natural numbers does not depend on the order of its terms.      *)
LEMMA SumWithout ==
  ASSUME NEW f, NEW S, IsFiniteSet(S), \A x \in S : f[x] \in Nat, NEW w \in S
  PROVE  Sum(f, S) = f[w] + Sum(f, S \ {w})
<1> DEFINE N == {n \in Nat : \A T \in SUBSET S : Cardinality(T) = n =>
                   \A x \in T : Sum(f, T) = f[x] + Sum(f, T \ {x})}
<1>1. \A T \in SUBSET S : IsFiniteSet(T) /\ Cardinality(T) \in Nat /\ Sum(f, T) \in Nat
  BY FS_Subset, FS_CardinalityType, SumType
<1>2. 0 \in N
  BY <1>1, FS_EmptySet
<1>3. ASSUME NEW n \in Nat, n \in N
      PROVE  n + 1 \in N
  <2> SUFFICES ASSUME NEW T \in SUBSET S, Cardinality(T) = n + 1, NEW x \in T
               PROVE  Sum(f, T) = f[x] + Sum(f, T \ {x})
    OBVIOUS
  <2> DEFINE p == Pick1(T)
  <2>1. p \in T
    BY PickIn
  <2>2. Sum(f, T) = f[p] + Sum(f, T \ {p})
    BY <1>1, SumRecursion
  <2> HIDE DEF p
  <2>3. CASE x = p
    BY <2>2, <2>3
  <2>4. CASE x # p
    <3>1. \A z \in T : Cardinality(T \ {z}) = n /\ T \ {z} \in SUBSET S
      BY <1>1, Without
    <3>2. (T \ {p}) \ {x} = (T \ {x}) \ {p}
      OBVIOUS
    <3>3. Sum(f, T \ {p}) = f[x] + Sum(f, (T \ {p}) \ {x})
      BY <1>3, <2>1, <2>4, <3>1
    <3>4. Sum(f, T \ {x}) = f[p] + Sum(f, (T \ {p}) \ {x})
      BY <1>3, <2>1, <2>4, <3>1, <3>2
    <3>5. f[x] \in Nat /\ f[p] \in Nat /\ (T \ {p}) \ {x} \in SUBSET S
      BY <2>1
    <3>6. Sum(f, (T \ {p}) \ {x}) \in Nat
      BY <1>1, <3>5
    <3> QED BY <2>2, <3>3, <3>4, <3>5, <3>6
  <2> QED BY <2>3, <2>4
<1>4. Nat \subseteq N
  <2> HIDE DEF N
  <2> QED BY <1>2, <1>3, Induction
<1> QED BY <1>1, <1>4

(* The sum over nothing is zero. *)
LEMMA SumEmpty == \A f : Sum(f, {}) = 0
BY SumRecursion, FS_EmptySet

--------------------------------------------------------------------------------
(* Sums of the ranks below one, and above one.                              *)
LEMMA SumBelow ==
  ASSUME NEW f, NEW n \in Nat, \A x \in 0 .. n - 1 : f[x] \in Nat
  PROVE  /\ Sum(f, 0 .. -1) = 0
         /\ \A m \in 0 .. n : Sum(f, 0 .. m - 1) \in Nat
         /\ \A m \in 0 .. n - 1 : Sum(f, 0 .. m) = Sum(f, 0 .. m - 1) + f[m]
<1>1. 0 .. -1 = {}
  OBVIOUS
<1>2. \A m \in 0 .. n : IsFiniteSet(0 .. m - 1) /\ \A x \in 0 .. m - 1 : f[x] \in Nat
  BY FS_Interval
<1>3. \A m \in 0 .. n : Sum(f, 0 .. m - 1) \in Nat
  BY <1>2, SumType
<1>4. ASSUME NEW m \in 0 .. n - 1
      PROVE  Sum(f, 0 .. m) = Sum(f, 0 .. m - 1) + f[m]
  <2>1. (0 .. m) \ {m} = 0 .. m - 1 /\ m \in 0 .. m
    OBVIOUS
  <2>2. IsFiniteSet(0 .. m) /\ \A x \in 0 .. m : f[x] \in Nat
    BY FS_Interval
  <2>3. Sum(f, 0 .. m) = f[m] + Sum(f, (0 .. m) \ {m})
    <3> DEFINE A == 0 .. m
    <3>1. IsFiniteSet(A) /\ m \in A /\ \A x \in A : f[x] \in Nat
      BY <2>1, <2>2
    <3> HIDE DEF A
    <3>2. Sum(f, A) = f[m] + Sum(f, A \ {m})
      BY <3>1, SumWithout
    <3> QED BY <3>2 DEF A
  <2>4. Sum(f, 0 .. m) = f[m] + Sum(f, 0 .. m - 1)
    BY <2>1, <2>3, Zenon
  <2>5. f[m] \in Nat /\ Sum(f, 0 .. m - 1) \in Nat
    BY <1>3
  <2> QED BY <2>4, <2>5
<1> QED BY <1>1, <1>3, <1>4, SumEmpty

(* The sum from m to the end is f[m] and the sum from m + 1. *)
LEMMA SumAbove ==
  ASSUME NEW f, NEW n \in Nat, \A x \in 0 .. n - 1 : f[x] \in Nat
  PROVE  /\ Sum(f, n .. n - 1) = 0
         /\ \A m \in 0 .. n : Sum(f, m .. n - 1) \in Nat
         /\ \A m \in 0 .. n - 1 : Sum(f, m .. n - 1) = f[m] + Sum(f, m + 1 .. n - 1)
<1>1. n .. n - 1 = {}
  OBVIOUS
<1>2. \A m \in 0 .. n : IsFiniteSet(m .. n - 1) /\ \A x \in m .. n - 1 : f[x] \in Nat
  BY FS_Interval
<1>3. \A m \in 0 .. n : Sum(f, m .. n - 1) \in Nat
  BY <1>2, SumType
<1>4. ASSUME NEW m \in 0 .. n - 1
      PROVE  Sum(f, m .. n - 1) = f[m] + Sum(f, m + 1 .. n - 1)
  <2>1. (m .. n - 1) \ {m} = m + 1 .. n - 1 /\ m \in m .. n - 1
    OBVIOUS
  <2> DEFINE A == m .. n - 1
  <2>2. IsFiniteSet(A) /\ m \in A /\ \A x \in A : f[x] \in Nat
    BY <1>2, <2>1
  <2> HIDE DEF A
  <2>3. Sum(f, A) = f[m] + Sum(f, A \ {m})
    BY <2>2, SumWithout
  <2> QED BY <2>1, <2>3 DEF A
<1> QED BY <1>1, <1>3, <1>4, SumEmpty

(* Sums of equal numbers.                                                   *)
LEMMA SumConstant ==
  ASSUME NEW f, NEW n \in Nat, NEW c \in Nat, \A x \in 0 .. n - 1 : f[x] = c
  PROVE  \A m \in 0 .. n : Sum(f, 0 .. m - 1) = m * c
<1> DEFINE N == {m \in Nat : m <= n => Sum(f, 0 .. m - 1) = m * c}
<1>1. /\ Sum(f, 0 .. -1) = 0
      /\ \A m \in 0 .. n - 1 : Sum(f, 0 .. m) = Sum(f, 0 .. m - 1) + f[m]
  BY SumBelow
<1>2. 0 \in N
  BY <1>1
<1>3. ASSUME NEW m \in Nat, m \in N
      PROVE  m + 1 \in N
  <2> SUFFICES ASSUME m + 1 <= n
               PROVE  Sum(f, 0 .. (m + 1) - 1) = (m + 1) * c
    OBVIOUS
  <2>1. Sum(f, 0 .. m - 1) = m * c
    BY <1>3
  <2>2. Sum(f, 0 .. m) = Sum(f, 0 .. m - 1) + f[m] /\ f[m] = c
    BY <1>1
  <2>3. m * c \in Nat /\ (m + 1) * c = m * c + c
    OBVIOUS
  <2>4. (m + 1) - 1 = m
    OBVIOUS
  <2> QED BY <2>1, <2>2, <2>3, <2>4
<1>4. Nat \subseteq N
  <2> HIDE DEF N
  <2> QED BY <1>2, <1>3, Induction
<1> QED BY <1>4

(* Equal terms give equal sums.                                             *)
LEMMA SumCongruent ==
  ASSUME NEW f, NEW g, NEW S, IsFiniteSet(S), \A x \in S : f[x] = g[x]
  PROVE  Sum(f, S) = Sum(g, S)
<1> DEFINE N == {n \in Nat : \A T \in SUBSET S : Cardinality(T) = n => Sum(f, T) = Sum(g, T)}
<1>1. \A T \in SUBSET S : IsFiniteSet(T) /\ Cardinality(T) \in Nat
  BY FS_Subset, FS_CardinalityType
<1>2. 0 \in N
  BY <1>1, FS_EmptySet, SumEmpty
<1>3. ASSUME NEW n \in Nat, n \in N
      PROVE  n + 1 \in N
  <2> SUFFICES ASSUME NEW T \in SUBSET S, Cardinality(T) = n + 1
               PROVE  Sum(f, T) = Sum(g, T)
    OBVIOUS
  <2> DEFINE p == Pick1(T)
  <2>1. T # {} /\ p \in T
    BY FS_EmptySet, PickIn
  <2>2. Sum(f, T) = f[p] + Sum(f, T \ {p}) /\ Sum(g, T) = g[p] + Sum(g, T \ {p})
    BY <1>1, <2>1, SumRecursion
  <2> HIDE DEF p
  <2>3. Cardinality(T \ {p}) = n /\ T \ {p} \in SUBSET S
    BY <1>1, <2>1, Without
  <2> QED BY <1>3, <2>1, <2>2, <2>3
<1>4. Nat \subseteq N
  <2> HIDE DEF N
  <2> QED BY <1>2, <1>3, Induction
<1> QED BY <1>1, <1>4

(* A sequence of offsets that grow by lengths.                              *)
LEMMA Offsets ==
  ASSUME NEW n \in Nat, NEW off, NEW len, \A i \in 0 .. n : off[i] \in Nat,
         \A i \in 0 .. n - 1 : len[i] \in Nat /\ off[i + 1] = off[i] + len[i]
  PROVE  \A i \in 0 .. n - 1 : \A k \in i + 1 .. n : off[i] + len[i] <= off[k]
<1> SUFFICES ASSUME NEW i \in 0 .. n - 1
             PROVE  \A k \in i + 1 .. n : off[i] + len[i] <= off[k]
  OBVIOUS
<1> DEFINE N == {k \in Nat : i + 1 + k <= n => off[i] + len[i] <= off[i + 1 + k]}
<1>1. 0 \in N
  OBVIOUS
<1>2. ASSUME NEW k \in Nat, k \in N
      PROVE  k + 1 \in N
  <2> SUFFICES ASSUME i + 1 + (k + 1) <= n
               PROVE  off[i] + len[i] <= off[i + 1 + (k + 1)]
    OBVIOUS
  <2>1. i + 1 + k \in 0 .. n - 1 /\ i + 1 + (k + 1) = (i + 1 + k) + 1
    OBVIOUS
  <2>2. off[i + 1 + (k + 1)] = off[i + 1 + k] + len[i + 1 + k] /\ len[i + 1 + k] \in Nat
    BY <2>1
  <2>3. off[i] + len[i] <= off[i + 1 + k]
    BY <1>2
  <2>4. off[i + 1 + k] \in Nat /\ off[i] \in Nat /\ len[i] \in Nat
    BY <2>1
  <2> QED BY <2>2, <2>3, <2>4
<1>3. Nat \subseteq N
  <2> HIDE DEF N
  <2> QED BY <1>1, <1>2, Induction
<1>4. ASSUME NEW k \in i + 1 .. n
      PROVE  off[i] + len[i] <= off[k]
  <2> DEFINE d == k - (i + 1)
  <2>1. d \in Nat /\ i + 1 + d = k /\ k <= n
    OBVIOUS
  <2> HIDE DEF d
  <2>2. d \in N
    <3> HIDE DEF N
    <3> QED BY <1>3, <2>1
  <2> QED BY <2>1, <2>2
<1> QED BY <1>4

--------------------------------------------------------------------------------
(* Concatenations *)

Flattened(s, n, g) == g = [i \in 1 .. n |-> IF i = 1 THEN s[i] ELSE g[i - 1] \o s[i]]

FlatFcn(s) == CHOOSE g : Flattened(s, Len(s), g)

(* Flattening is what its recursion over the length gives. *)
LEMMA FlattenIs == \A s : Len(s) # 0 => FlattenSeq(s) = FlatFcn(s)[Len(s)]
BY DEF FlattenSeq, FlatFcn, Flattened

(* Some function flattens every prefix of a sequence of sequences. *)
LEMMA FlattenedExists ==
  ASSUME NEW s
  PROVE  \A n \in Nat : \E g : Flattened(s, n, g)
<1> DEFINE N == {n \in Nat : \E g : Flattened(s, n, g)}
<1>1. 0 \in N
  <2>1. Flattened(s, 0, [i \in 1 .. 0 |-> s[i]])
    BY DEF Flattened
  <2> QED BY <2>1
<1>2. ASSUME NEW n \in Nat, n \in N
      PROVE  n + 1 \in N
  <2>1. PICK g : Flattened(s, n, g)
    BY <1>2
  <2> DEFINE h == [i \in 1 .. n + 1 |-> IF i = 1 THEN s[i] ELSE g[i - 1] \o s[i]]
  <2>2. \A i \in 1 .. n : h[i] = g[i]
    <3>1. \A i \in 1 .. n : g[i] = IF i = 1 THEN s[i] ELSE g[i - 1] \o s[i]
      BY <2>1, Zenon DEF Flattened
    <3>2. \A i \in 1 .. n : i \in 1 .. n + 1
      OBVIOUS
    <3>3. \A i \in 1 .. n + 1 : h[i] = IF i = 1 THEN s[i] ELSE g[i - 1] \o s[i]
      BY Zenon
    <3> HIDE DEF h
    <3> QED BY <3>1, <3>2, <3>3, Zenon
  <2>3. \A i \in 1 .. n + 1 : i # 1 => i - 1 \in 1 .. n
    OBVIOUS
  <2>4. Flattened(s, n + 1, h)
    BY <2>2, <2>3 DEF Flattened
  <2> QED BY <2>4
<1>3. Nat \subseteq N
  <2> HIDE DEF N
  <2> QED BY <1>1, <1>2, Induction
<1> QED BY <1>3

(* The first k parts are where their offsets say.                           *)
Whole(s, off, V, t, k) ==
  /\ t \in Seq(V) /\ Len(t) = off[k]
  /\ \A i \in 1 .. k : \A j \in 1 .. Len(s[i]) : t[off[i - 1] + j] = s[i][j]

(* A concatenation whose parts are at their offsets keeps that when the next part is appended. *)
LEMMA WholeAppend ==
  ASSUME NEW n \in Nat, NEW V, NEW s, NEW off, NEW t, NEW k \in 1 .. n - 1,
         s[k + 1] \in Seq(V), Whole(s, off, V, t, k),
         \A i \in 0 .. n : off[i] \in Nat,
         off[k + 1] = off[k] + Len(s[k + 1]),
         \A i \in 1 .. k : Len(s[i]) \in Nat /\ off[i - 1] + Len(s[i]) <= off[k]
  PROVE  Whole(s, off, V, t \o s[k + 1], k + 1)
<1> DEFINE u == s[k + 1]
           v == t \o u
<1>1. t \in Seq(V) /\ u \in Seq(V) /\ Len(t) = off[k] /\ Len(t) \in Nat /\ Len(u) \in Nat
  BY DEF Whole
<1>2. /\ v \in Seq(V) /\ Len(v) = Len(t) + Len(u)
      /\ \A i \in 1 .. Len(t) + Len(u) : v[i] = IF i <= Len(t) THEN t[i] ELSE u[i - Len(t)]
  <2> HIDE DEF u
  <2> QED BY <1>1, ConcatProperties
<1>3. Len(v) = off[k + 1]
  BY <1>1, <1>2
<1>4. ASSUME NEW i \in 1 .. k + 1, NEW j \in 1 .. Len(s[i])
      PROVE  v[off[i - 1] + j] = s[i][j]
  <2>1. CASE i = k + 1
    <3> DEFINE x == Len(t) + j
    <3>1. j \in 1 .. Len(u) /\ i - 1 = k
      BY <2>1
    <3>2. x \in 1 .. Len(t) + Len(u) /\ ~(x <= Len(t)) /\ x - Len(t) = j
      BY <1>1, <3>1
    <3>3. v[x] = u[j]
      <4> HIDE DEF v, u, x
      <4> QED BY <1>2, <3>2
    <3>4. off[i - 1] = Len(t)
      BY <1>1, <3>1
    <3> HIDE DEF v
    <3> QED BY <2>1, <3>3, <3>4
  <2>2. CASE i # k + 1
    <3> DEFINE x == off[i - 1] + j
    <3>1. i \in 1 .. k /\ i - 1 \in 0 .. n
      BY <2>2
    <3>2. t[x] = s[i][j]
      BY <3>1 DEF Whole
    <3>3. off[i - 1] \in Nat /\ Len(s[i]) \in Nat /\ off[i - 1] + Len(s[i]) <= Len(t)
      BY <1>1, <3>1
    <3>4. x \in 1 .. Len(t) + Len(u) /\ x <= Len(t)
      <4> DEFINE a == off[i - 1]
                 b == Len(s[i])
                 c == Len(t)
                 d == Len(u)
      <4>1. a \in Nat /\ b \in Nat /\ a + b <= c /\ c \in Nat /\ d \in Nat /\ j \in 1 .. b
        BY <1>1, <3>3
      <4> HIDE DEF a, b, c, d
      <4>2. a + j \in 1 .. c + d /\ a + j <= c
        BY <4>1
      <4> QED BY <4>2 DEF a, c, d
    <3>5. v[x] = t[x]
      <4> HIDE DEF v, u, x
      <4> QED BY <1>2, <3>4
    <3> QED BY <3>2, <3>5
  <2> QED BY <2>1, <2>2
<1> HIDE DEF v
<1>5. Whole(s, off, V, v, k + 1)
  BY <1>2, <1>3, <1>4 DEF Whole
<1> QED BY <1>5 DEF v

(* Where the parts are in a concatenation.                                  *)
LEMMA FlattenParts ==
  ASSUME NEW n \in Nat \ {0}, NEW V, NEW s, s \in [1 .. n -> Seq(V)],
         NEW off, off[0] = 0,
         \A i \in 0 .. n : off[i] \in Nat,
         \A i \in 0 .. n - 1 : off[i + 1] = off[i] + Len(s[i + 1])
  PROVE  Whole(s, off, V, FlattenSeq(s), n)
<1>1. Len(s) = n /\ \A i \in 1 .. n : s[i] \in Seq(V) /\ Len(s[i]) \in Nat
  OBVIOUS
<1> DEFINE g == FlatFcn(s)
<1>2. Flattened(s, n, g)
  BY <1>1, FlattenedExists DEF FlatFcn
<1>3. FlattenSeq(s) = g[n]
  BY <1>1, FlattenIs
<1> HIDE DEF g
<1>4. g[1] = s[1] /\ \A i \in 2 .. n : g[i] = g[i - 1] \o s[i]
  <2>1. \A i \in 1 .. n : g[i] = IF i = 1 THEN s[i] ELSE g[i - 1] \o s[i]
    BY <1>2, Zenon DEF Flattened
  <2>2. 1 \in 1 .. n /\ \A i \in 2 .. n : i \in 1 .. n /\ i # 1
    OBVIOUS
  <2> QED BY <2>1, <2>2, Zenon
<1>5. \A k \in 1 .. n : \A i \in 1 .. k : off[i - 1] + Len(s[i]) <= off[k]
  <2> DEFINE len == [x \in 0 .. n - 1 |-> Len(s[x + 1])]
  <2>1. \A x \in 0 .. n - 1 : x + 1 \in 1 .. n /\ len[x] = Len(s[x + 1])
    OBVIOUS
  <2> HIDE DEF len
  <2>2. \A x \in 0 .. n - 1 : len[x] \in Nat /\ off[x + 1] = off[x] + len[x]
    BY <1>1, <2>1
  <2>3. \A x \in 0 .. n - 1 : \A k \in x + 1 .. n : off[x] + len[x] <= off[k]
    BY <2>2, Offsets
  <2> SUFFICES ASSUME NEW k \in 1 .. n, NEW i \in 1 .. k
               PROVE  off[i - 1] + Len(s[i]) <= off[k]
    OBVIOUS
  <2> DEFINE x == i - 1
  <2>4. x \in 0 .. n - 1 /\ k \in x + 1 .. n /\ x + 1 = i
    OBVIOUS
  <2> HIDE DEF x
  <2>5. off[x] + len[x] <= off[k] /\ len[x] = Len(s[i])
    BY <2>1, <2>3, <2>4
  <2> QED BY <2>5 DEF x
<1> DEFINE N == {k \in Nat : k + 1 <= n => Whole(s, off, V, g[k + 1], k + 1)}
<1>6. 0 \in N
  <2>1. s[1] \in Seq(V) /\ off[0 + 1] = off[0] + Len(s[0 + 1]) /\ Len(s[1]) \in Nat
    BY <1>1
  <2>2. Len(s[1]) = off[1]
    BY <2>1
  <2>3. \A i \in 1 .. 1 : \A j \in 1 .. Len(s[i]) : s[1][off[i - 1] + j] = s[i][j]
    OBVIOUS
  <2>4. Whole(s, off, V, g[1], 1)
    BY <1>4, <2>1, <2>2, <2>3 DEF Whole
  <2> QED BY <2>4
<1>7. ASSUME NEW m \in Nat, m \in N
      PROVE  m + 1 \in N
  <2> DEFINE k == m + 1
  <2> SUFFICES ASSUME k + 1 <= n
               PROVE  Whole(s, off, V, g[k + 1], k + 1)
    OBVIOUS
  <2>1. k \in 1 .. n - 1 /\ k + 1 \in 2 .. n /\ (k + 1) - 1 = k /\ k \in 1 .. n /\ k \in 0 .. n - 1
    OBVIOUS
  <2>2. Whole(s, off, V, g[k], k)
    BY <1>7
  <2>6. k + 1 \in 1 .. n /\ \A i \in 1 .. k : i \in 1 .. n
    OBVIOUS
  <2> HIDE DEF k, N
  <2>3. g[k + 1] = g[k] \o s[k + 1] /\ s[k + 1] \in Seq(V) /\ off[k + 1] = off[k] + Len(s[k + 1])
    BY <1>1, <1>4, <2>1, <2>6, Zenon
  <2>4. \A i \in 1 .. k : Len(s[i]) \in Nat /\ off[i - 1] + Len(s[i]) <= off[k]
    BY <1>1, <1>5, <2>1, <2>6, Zenon
  <2>5. Whole(s, off, V, g[k] \o s[k + 1], k + 1)
    BY <2>1, <2>2, <2>3, <2>4, WholeAppend
  <2>7. Whole(s, off, V, g[k + 1], k + 1)
    BY <2>3, <2>5, Zenon
  <2> QED BY <2>7
<1>8. Nat \subseteq N
  <2> HIDE DEF N
  <2> QED BY <1>6, <1>7, Induction
<1> DEFINE m == n - 1
<1>9. m \in Nat /\ m + 1 = n
  OBVIOUS
<1>10. m \in N
  <2> HIDE DEF N, m
  <2> QED BY <1>8, <1>9
<1>11. Whole(s, off, V, g[n], n)
  <2> HIDE DEF m
  <2> QED BY <1>9, <1>10
<1> QED BY <1>3, <1>11

--------------------------------------------------------------------------------
(* Displacements: the exclusive scan, in ascending and in descending order  *)

Scan(f) == [s \in Rank |-> Sum(f, 0 .. s - 1)]

Rev(f) == [s \in Rank |-> Sum(f, s + 1 .. P - 1)]

(* ExclusiveScan is the sum over the ranks below. *)
LEMMA ScanIs == \A f : ExclusiveScan(f) = Scan(f)
BY Zenon DEF ExclusiveScan, Scan, Sum

(* ReverseScan is the sum over the ranks above. *)
LEMMA RevIs == \A f : ReverseScan(f) = Rev(f)
BY Zenon DEF ReverseScan, Rev, Sum

(* Offsets of blocks laid out in rank order, and in reverse order. *)
LEMMA ScanOffsets ==
  ASSUME NEW f, \A x \in Rank : f[x] \in Nat
  PROVE  /\ \A s \in Rank : Scan(f)[s] \in Nat
         /\ Scan(f)[0] = 0
         /\ \A s \in Rank : s + 1 \in Rank => Scan(f)[s + 1] = Scan(f)[s] + f[s]
         /\ Scan(f)[P - 1] + f[P - 1] = Sum(f, Rank)
         /\ Sum(f, Rank) \in Nat
         /\ \A s \in Rank : Scan(f)[s] + f[s] <= Sum(f, Rank)
         /\ \A s, t \in Rank : s < t => Scan(f)[s] + f[s] <= Scan(f)[t]
<1>1. P \in Nat \ {0} /\ Rank = 0 .. P - 1
  BY PAssumption DEF Rank
<1> DEFINE g(m) == Sum(f, 0 .. m - 1)
           off == [m \in 0 .. P |-> g(m)]
<1>2. /\ Sum(f, 0 .. -1) = 0
      /\ \A m \in 0 .. P : Sum(f, 0 .. m - 1) \in Nat
      /\ \A m \in 0 .. P - 1 : Sum(f, 0 .. m) = Sum(f, 0 .. m - 1) + f[m]
  BY <1>1, SumBelow
<1>3. \A i \in 0 .. P : off[i] \in Nat
  BY <1>2
<1>4. \A i \in 0 .. P - 1 : i + 1 \in 0 .. P /\ (i + 1) - 1 = i /\ i \in 0 .. P
  BY <1>1
<1>5. \A i \in 0 .. P - 1 : f[i] \in Nat /\ off[i + 1] = off[i] + f[i]
  BY <1>1, <1>2, <1>4
<1>6. \A i \in 0 .. P - 1 : \A k \in i + 1 .. P : off[i] + f[i] <= off[k]
  <2> HIDE DEF off
  <2> QED BY <1>1, <1>3, <1>5, Offsets
<1>7. \A s \in Rank : Scan(f)[s] = off[s]
  BY <1>1, <1>4 DEF Scan
<1>8. off[0] = 0 /\ off[P] = Sum(f, Rank)
  BY <1>1, <1>2
<1>9. P - 1 \in Rank /\ (P - 1) + 1 = P /\ 0 \in Rank /\ P \in 0 .. P
  BY <1>1
<1>10. \A s \in Rank : s + 1 \in Rank => Scan(f)[s + 1] = Scan(f)[s] + f[s]
  <2> HIDE DEF off
  <2> QED BY <1>1, <1>5, <1>7
<1>11. Scan(f)[P - 1] + f[P - 1] = off[P]
  <2> HIDE DEF off
  <2> QED BY <1>1, <1>5, <1>7, <1>9
<1>12. \A s \in Rank : P \in s + 1 .. P
  BY <1>1
<1>13. \A s, t \in Rank : s < t => t \in s + 1 .. P
  BY <1>1
<1> HIDE DEF off
<1>14. \A s \in Rank : Scan(f)[s] + f[s] <= off[P]
  BY <1>1, <1>6, <1>7, <1>12
<1>15. \A s, t \in Rank : s < t => Scan(f)[s] + f[s] <= Scan(f)[t]
  BY <1>1, <1>6, <1>7, <1>13
<1>16. (\A s \in Rank : Scan(f)[s] \in Nat) /\ Scan(f)[0] = 0 /\ off[P] \in Nat
  BY <1>1, <1>3, <1>4, <1>7, <1>8, <1>9
<1> QED BY <1>8, <1>10, <1>11, <1>14, <1>15, <1>16

(* The displacements of blocks laid out from the last rank to the first: naturals, each
   behind the block of the next rank, and the blocks fit into the sum without overlap. *)
LEMMA RevOffsets ==
  ASSUME NEW f, \A x \in Rank : f[x] \in Nat
  PROVE  /\ \A s \in Rank : Rev(f)[s] \in Nat
         /\ Rev(f)[P - 1] = 0
         /\ \A s \in Rank : s + 1 \in Rank => Rev(f)[s] = Rev(f)[s + 1] + f[s + 1]
         /\ Rev(f)[0] + f[0] = Sum(f, Rank)
         /\ Sum(f, Rank) \in Nat
         /\ \A s \in Rank : Rev(f)[s] + f[s] <= Sum(f, Rank)
         /\ \A s, t \in Rank : s > t => Rev(f)[s] + f[s] <= Rev(f)[t]
<1>1. P \in Nat \ {0} /\ Rank = 0 .. P - 1
  BY PAssumption DEF Rank
<1> DEFINE g(m) == Sum(f, m .. P - 1)
           off == [i \in 0 .. P |-> g(P - i)]
           len == [i \in 0 .. P - 1 |-> f[P - 1 - i]]
<1>2. /\ Sum(f, P .. P - 1) = 0
      /\ \A m \in 0 .. P : Sum(f, m .. P - 1) \in Nat
      /\ \A m \in 0 .. P - 1 : Sum(f, m .. P - 1) = f[m] + Sum(f, m + 1 .. P - 1)
  BY <1>1, SumAbove
<1>3. \A i \in 0 .. P : P - i \in 0 .. P
  BY <1>1
<1>4. \A i \in 0 .. P : off[i] = Sum(f, (P - i) .. P - 1) /\ off[i] \in Nat
  BY <1>2, <1>3
<1>5. ASSUME NEW i \in 0 .. P - 1
      PROVE  len[i] \in Nat /\ off[i + 1] = off[i] + len[i]
  <2> DEFINE m == P - 1 - i
  <2>1. m \in 0 .. P - 1 /\ m + 1 = P - i /\ P - (i + 1) = m /\ i \in 0 .. P /\ i + 1 \in 0 .. P
    BY <1>1
  <2>2. len[i] = f[m]
    OBVIOUS
  <2> HIDE DEF off, len, m
  <2>3. off[i + 1] = Sum(f, m .. P - 1) /\ off[i] = Sum(f, m + 1 .. P - 1)
    BY <1>4, <2>1
  <2>4. f[m] \in Nat /\ Sum(f, m .. P - 1) = f[m] + Sum(f, m + 1 .. P - 1) /\ off[i] \in Nat
    BY <1>1, <1>2, <1>4, <2>1
  <2> QED BY <2>2, <2>3, <2>4
<1>6. \A i \in 0 .. P - 1 : \A k \in i + 1 .. P : off[i] + len[i] <= off[k]
  <2> HIDE DEF off, len
  <2> QED BY <1>1, <1>4, <1>5, Offsets
<1>7. ASSUME NEW s \in Rank
      PROVE  /\ P - 1 - s \in 0 .. P - 1 /\ P - (P - 1 - s) = s + 1 /\ P - 1 - (P - 1 - s) = s
             /\ P - 1 - s \in 0 .. P /\ Rev(f)[s] = off[P - 1 - s] /\ len[P - 1 - s] = f[s]
  <2>1. /\ P - 1 - s \in 0 .. P - 1 /\ P - (P - 1 - s) = s + 1 /\ P - 1 - (P - 1 - s) = s
        /\ P - 1 - s \in 0 .. P
    BY <1>1
  <2>2. len[P - 1 - s] = f[s]
    BY <2>1
  <2> HIDE DEF off, len
  <2>3. Rev(f)[s] = off[P - 1 - s]
    BY <1>4, <2>1 DEF Rev
  <2> QED BY <2>1, <2>2, <2>3
<1>8. off[0] = 0 /\ off[P] = Sum(f, Rank)
  <2>1. P - 0 = P /\ P - P = 0 /\ 0 \in 0 .. P /\ P \in 0 .. P
    BY <1>1
  <2> HIDE DEF off
  <2> QED BY <1>1, <1>2, <1>4, <2>1
<1>9. P - 1 \in Rank /\ P - 1 - (P - 1) = 0 /\ 0 \in Rank /\ P \in 0 .. P /\ (P - 1) + 1 = P /\ P - 1 - 0 = P - 1
  BY <1>1
<1> HIDE DEF off, len
<1>10. ASSUME NEW s \in Rank, s + 1 \in Rank
       PROVE  Rev(f)[s] = Rev(f)[s + 1] + f[s + 1]
  <2> DEFINE i == P - 1 - (s + 1)
  <2>1. i \in 0 .. P - 1 /\ i + 1 = P - 1 - s
    BY <1>1, <1>10
  <2>2. off[i + 1] = off[i] + len[i]
    BY <1>5, <2>1
  <2> QED BY <1>7, <1>10, <2>1, <2>2
<1>11. Rev(f)[0] + f[0] = off[P] /\ Rev(f)[P - 1] = 0
  <2>1. off[P] = off[P - 1] + len[P - 1]
    BY <1>1, <1>5, <1>9
  <2> QED BY <1>7, <1>8, <1>9, <2>1
<1>12. \A s \in Rank : P \in (P - 1 - s) + 1 .. P
  BY <1>1
<1>13. \A s, t \in Rank : s > t => P - 1 - t \in (P - 1 - s) + 1 .. P
  BY <1>1
<1>14. \A s \in Rank : Rev(f)[s] + f[s] <= off[P]
  BY <1>6, <1>7, <1>12
<1>15. \A s, t \in Rank : s > t => Rev(f)[s] + f[s] <= Rev(f)[t]
  BY <1>6, <1>7, <1>13
<1>16. (\A s \in Rank : Rev(f)[s] \in Nat) /\ off[P] \in Nat
  BY <1>4, <1>7, <1>9
<1> QED BY <1>8, <1>10, <1>11, <1>14, <1>15, <1>16

Lens(f) == [t \in Rank |-> Len(f[t])]

(* Blocks laid out in rank order, and in reverse order. *)
LEMMA AscendingParts ==
  ASSUME NEW V, NEW f, \A t \in Rank : f[t] \in Seq(V)
  PROVE  /\ Ascending(f) \in Seq(V) /\ Len(Ascending(f)) = Sum(Lens(f), Rank)
         /\ \A t \in Rank : \A j \in 1 .. Len(f[t]) : Ascending(f)[Scan(Lens(f))[t] + j] = f[t][j]
<1> DEFINE s == [i \in 1 .. P |-> f[i - 1]]
           len == Lens(f)
           off == [i \in 0 .. P |-> Sum(len, 0 .. i - 1)]
<1>1. P \in Nat \ {0} /\ Rank = 0 .. P - 1
  BY PAssumption DEF Rank
<1>2. \A t \in Rank : len[t] = Len(f[t]) /\ Len(f[t]) \in Nat
  BY DEF Lens
<1> HIDE DEF len
<1>3. /\ Sum(len, 0 .. -1) = 0
      /\ \A m \in 0 .. P : Sum(len, 0 .. m - 1) \in Nat
      /\ \A m \in 0 .. P - 1 : Sum(len, 0 .. m) = Sum(len, 0 .. m - 1) + len[m]
  <2>1. \A t \in 0 .. P - 1 : len[t] \in Nat
    BY <1>1, <1>2
  <2> QED BY <1>1, <2>1, SumBelow
<1>4. \A i \in 1 .. P : i - 1 \in Rank
  BY <1>1
<1>5. s \in [1 .. P -> Seq(V)] /\ \A i \in 1 .. P : s[i] = f[i - 1]
  BY <1>4
<1>6. off[0] = 0 /\ \A i \in 0 .. P : off[i] = Sum(len, 0 .. i - 1) /\ off[i] \in Nat
  BY <1>1, <1>3
<1> HIDE DEF s, off
<1>7. ASSUME NEW i \in 0 .. P - 1
      PROVE  off[i + 1] = off[i] + Len(s[i + 1])
  <2>1. i + 1 \in 1 .. P /\ i + 1 \in 0 .. P /\ (i + 1) - 1 = i /\ i \in 0 .. P /\ i \in Rank
    BY <1>1
  <2>2. s[i + 1] = f[i] /\ off[i + 1] = Sum(len, 0 .. i) /\ off[i] = Sum(len, 0 .. i - 1)
    BY <1>5, <1>6, <2>1
  <2> QED BY <1>2, <1>3, <2>1, <2>2
<1>8. Whole(s, off, V, FlattenSeq(s), P)
  BY <1>1, <1>5, <1>6, <1>7, FlattenParts
<1>9. Ascending(f) = FlattenSeq(s)
  BY Zenon DEF Ascending, s
<1>10. off[P] = Sum(len, Rank) /\ P \in 0 .. P
  BY <1>1, <1>6
<1>11. ASSUME NEW t \in Rank, NEW j \in 1 .. Len(f[t])
       PROVE  Ascending(f)[Scan(len)[t] + j] = f[t][j]
  <2>1. t + 1 \in 1 .. P /\ (t + 1) - 1 = t /\ t \in 0 .. P
    BY <1>1
  <2>2. s[t + 1] = f[t] /\ off[(t + 1) - 1] = Scan(len)[t]
    BY <1>5, <1>6, <2>1 DEF Scan
  <2>3. \A k \in 1 .. Len(s[t + 1]) : FlattenSeq(s)[off[(t + 1) - 1] + k] = s[t + 1][k]
    BY <1>8, <2>1 DEF Whole
  <2> QED BY <1>9, <2>2, <2>3
<1> QED BY <1>8, <1>9, <1>10, <1>11 DEF Whole, len

(* The blocks of a descending concatenation start at the reverse scan of their lengths. *)
LEMMA DescendingParts ==
  ASSUME NEW V, NEW f, \A t \in Rank : f[t] \in Seq(V)
  PROVE  /\ Descending(f) \in Seq(V) /\ Len(Descending(f)) = Sum(Lens(f), Rank)
         /\ \A t \in Rank : \A j \in 1 .. Len(f[t]) : Descending(f)[Rev(Lens(f))[t] + j] = f[t][j]
<1> DEFINE s == [i \in 1 .. P |-> f[P - i]]
           len == Lens(f)
           off == [i \in 0 .. P |-> Sum(len, P - i .. P - 1)]
<1>1. P \in Nat \ {0} /\ Rank = 0 .. P - 1
  BY PAssumption DEF Rank
<1>2. \A t \in Rank : len[t] = Len(f[t]) /\ Len(f[t]) \in Nat
  BY DEF Lens
<1> HIDE DEF len
<1>3. /\ Sum(len, P .. P - 1) = 0
      /\ \A m \in 0 .. P : Sum(len, m .. P - 1) \in Nat
      /\ \A m \in 0 .. P - 1 : Sum(len, m .. P - 1) = len[m] + Sum(len, m + 1 .. P - 1)
  <2>1. \A t \in 0 .. P - 1 : len[t] \in Nat
    BY <1>1, <1>2
  <2> QED BY <1>1, <2>1, SumAbove
<1>4. (\A i \in 1 .. P : P - i \in Rank) /\ (\A i \in 0 .. P : P - i \in 0 .. P) /\ P - 0 = P /\ P - P = 0
  BY <1>1
<1>5. s \in [1 .. P -> Seq(V)] /\ \A i \in 1 .. P : s[i] = f[P - i]
  BY <1>4
<1>6. \A i \in 0 .. P : off[i] = Sum(len, P - i .. P - 1) /\ off[i] \in Nat
  BY <1>3, <1>4
<1> HIDE DEF s, off
<1>12. off[0] = 0 /\ off[P] = Sum(len, Rank) /\ P \in 0 .. P
  <2>1. 0 \in 0 .. P /\ P \in 0 .. P
    BY <1>1
  <2> QED BY <1>1, <1>3, <1>4, <1>6, <2>1
<1>7. ASSUME NEW i \in 0 .. P - 1
      PROVE  off[i + 1] = off[i] + Len(s[i + 1])
  <2> DEFINE m == P - (i + 1)
  <2>1. i + 1 \in 1 .. P /\ i + 1 \in 0 .. P /\ m + 1 = P - i /\ i \in 0 .. P /\ m \in Rank
    BY <1>1
  <2>2. s[i + 1] = f[m] /\ off[i + 1] = Sum(len, m .. P - 1) /\ off[i] = Sum(len, m + 1 .. P - 1)
    BY <1>5, <1>6, <2>1
  <2> HIDE DEF m
  <2>3. len[m] = Len(f[m]) /\ Len(f[m]) \in Nat /\ off[i] \in Nat
    BY <1>2, <1>6, <2>1
  <2>4. Sum(len, m .. P - 1) = len[m] + Sum(len, m + 1 .. P - 1)
    BY <1>1, <1>3, <2>1
  <2> QED BY <2>2, <2>3, <2>4
<1>8. Whole(s, off, V, FlattenSeq(s), P)
  BY <1>1, <1>5, <1>6, <1>7, <1>12, FlattenParts
<1>9. Descending(f) = FlattenSeq(s)
  BY Zenon DEF Descending, s
<1>11. ASSUME NEW t \in Rank, NEW j \in 1 .. Len(f[t])
       PROVE  Descending(f)[Rev(len)[t] + j] = f[t][j]
  <2> DEFINE i == P - t
  <2>1. i \in 1 .. P /\ P - i = t /\ i - 1 \in 0 .. P /\ P - (i - 1) = t + 1
    BY <1>1
  <2> HIDE DEF i
  <2>2. s[i] = f[t] /\ off[i - 1] = Rev(len)[t]
    BY <1>5, <1>6, <2>1 DEF Rev
  <2>3. \A k \in 1 .. Len(s[i]) : FlattenSeq(s)[off[i - 1] + k] = s[i][k]
    BY <1>8, <2>1 DEF Whole
  <2> QED BY <1>9, <2>2, <2>3
<1> QED BY <1>8, <1>9, <1>12, <1>11 DEF Whole, len

--------------------------------------------------------------------------------
(* What a rank sends: its buffer and the blocks in it                       *)

(* The wrappers whose messages all have the same length. *)
Uniform == {"gather", "allgather_inplace", "alltoall", "alltoall_inplace", "scatter",
            "scatter_single", "bcast", "bcast_single"}

ShapeInv ==
  /\ amount \in [Rank -> [Rank -> Nat]]
  /\ op \in Uniform => \A s, t \in Rank : amount[s][t] = amount[0][0]
  /\ op \in {"gatherv", "allgatherv", "allgather"} => \A s, t \in Rank : amount[s][t] = amount[s][s]
  /\ op = "scatterv" => \A s, t \in Rank : amount[s][t] = amount[t][t]
  /\ op \in {"scatter_single", "bcast_single"} => amount[0][0] = 1
  /\ \A r \in Rank :
       /\ op \notin {"alltoallv", "scatterv"} => args[r].send_displs = "omitted"
       /\ op \notin {"gatherv", "allgatherv", "alltoallv"} => args[r].recv_displs = "omitted"
       /\ args[r].policy \in {"no_resize", "grow_only", "resize_to_fit"} /\ args[r].room \in Nat
       /\ op \in Inplace => args[r].policy = "no_resize"
       /\ op \notin Bcasts => args[r].buffer
       /\ IsRoot(r) => args[r].counts # "ignored"
       /\ Disagreement => args[r].policy = "resize_to_fit"
       /\ args[r].slack \in Slack \cup {0}

Cell == {<<s, t, j>> : s \in Rank, t \in Rank, j \in Nat} \cup {Old, New, Over}

(* The message from s to t is a sequence of amount[s][t] cells. *)
LEMMA MsgIs ==
  ASSUME amount \in [Rank -> [Rank -> Nat]], NEW s \in Rank, NEW t \in Rank
  PROVE  /\ Msg(s, t) \in Seq(Cell) /\ Len(Msg(s, t)) = amount[s][t] /\ amount[s][t] \in Nat
         /\ Msg(s, t) = [j \in 1 .. amount[s][t] |-> Msg(s, t)[j]]
<1>1. amount[s][t] \in Nat
  OBVIOUS
<1>2. Msg(s, t) \in [1 .. amount[s][t] -> Cell]
  BY <1>1 DEF Msg, Cell
<1> QED BY <1>1, <1>2

(* A slice whose cells are those of m is m. *)
LEMMA SliceIs ==
  ASSUME NEW cells, NEW d \in Nat, NEW n \in Nat, NEW m, m = [j \in 1 .. n |-> m[j]],
         \A j \in 1 .. n : d + j <= Len(cells) /\ cells[d + j] = m[j]
  PROVE  Slice(cells, d, n) = m
BY DEF Slice

(* The ranks are 0 to P - 1, and there is one. *)
LEMMA RankIs == P \in Nat \ {0} /\ Rank = 0 .. P - 1 /\ 0 \in Rank /\ P - 1 \in Rank /\ IsFiniteSet(Rank)
<1>1. P \in Nat \ {0} /\ Rank = 0 .. P - 1
  BY PAssumption DEF Rank
<1> QED BY <1>1, FS_Interval

(* With counts that are all n, the scan gives the multiples of n. *)
LEMMA ScanConstant ==
  ASSUME NEW f, NEW n \in Nat, \A s \in Rank : f[s] = n
  PROVE  /\ \A s \in Rank : Scan(f)[s] = s * n /\ s * n \in Nat
         /\ Sum(f, Rank) = P * n /\ P * n \in Nat
<1>1. \A m \in 0 .. P : Sum(f, 0 .. m - 1) = m * n
  <2>1. \A x \in 0 .. P - 1 : f[x] = n
    BY RankIs
  <2> QED BY RankIs, <2>1, SumConstant
<1>2. \A s \in Rank : s \in 0 .. P /\ s * n \in Nat
  BY RankIs
<1>3. P \in 0 .. P /\ P * n \in Nat
  BY RankIs
<1> QED BY <1>1, <1>2, <1>3, RankIs DEF Scan

(* The blocks of a send buffer are the messages. *)
LEMMA SendBufIs ==
  ASSUME ShapeInv, ArgsInv, NEW s \in Rank
  PROVE  /\ SendBuf(s) \in Seq(Cell) /\ Len(SendBuf(s)) = Sum(amount[s], Rank)
         /\ \A t \in Rank : /\ SendDisplsOf(s)[t] \in Nat
                            /\ SendDisplsOf(s)[t] + amount[s][t] <= Len(SendBuf(s))
                            /\ \A j \in 1 .. amount[s][t] : SendBuf(s)[SendDisplsOf(s)[t] + j] = Msg(s, t)[j]
<1> DEFINE m == [t \in Rank |-> Msg(s, t)]
<1>1. amount \in [Rank -> [Rank -> Nat]]
  BY DEF ShapeInv
<1>2. \A t \in Rank : m[t] = Msg(s, t) /\ m[t] \in Seq(Cell) /\ Len(m[t]) = amount[s][t] /\ amount[s][t] \in Nat
  BY <1>1, MsgIs
<1>3. Lens(m) = amount[s]
  BY <1>1, <1>2 DEF Lens
<1>4. SendBuf(s) = IF args[s].send_displs = "omitted" THEN Ascending(m) ELSE Descending(m)
  BY Zenon DEF SendBuf
<1> HIDE DEF m
<1>5. CASE args[s].send_displs = "omitted"
  <2>1. SendBuf(s) = Ascending(m) /\ SendDisplsOf(s) = Scan(amount[s])
    BY <1>4, <1>5, ScanIs DEF SendDisplsOf
  <2>2. /\ Ascending(m) \in Seq(Cell) /\ Len(Ascending(m)) = Sum(amount[s], Rank)
        /\ \A t \in Rank : \A j \in 1 .. Len(m[t]) : Ascending(m)[Scan(amount[s])[t] + j] = m[t][j]
    BY <1>2, <1>3, AscendingParts
  <2>3. \A t \in Rank : Scan(amount[s])[t] \in Nat /\ Scan(amount[s])[t] + amount[s][t] <= Sum(amount[s], Rank)
    BY <1>2, ScanOffsets
  <2> QED BY <1>2, <2>1, <2>2, <2>3, Zenon
<1>6. CASE args[s].send_displs # "omitted"
  <2>1. SendBuf(s) = Descending(m) /\ SendDisplsOf(s) = Rev(amount[s])
    BY <1>4, <1>6, RevIs DEF SendDisplsOf, GivenSendDispls
  <2>2. /\ Descending(m) \in Seq(Cell) /\ Len(Descending(m)) = Sum(amount[s], Rank)
        /\ \A t \in Rank : \A j \in 1 .. Len(m[t]) : Descending(m)[Rev(amount[s])[t] + j] = m[t][j]
    BY <1>2, <1>3, DescendingParts
  <2>3. \A t \in Rank : Rev(amount[s])[t] \in Nat /\ Rev(amount[s])[t] + amount[s][t] <= Sum(amount[s], Rank)
    BY <1>2, RevOffsets
  <2> QED BY <1>2, <2>1, <2>2, <2>3, Zenon
<1> QED BY <1>5, <1>6

(* The blocks that a rank hands to an alltoallv are its messages. *)
LEMMA BlocksAre ==
  ASSUME ShapeInv, ArgsInv, NEW s \in Rank
  PROVE  /\ Blocks(s, amount[s], SendDisplsOf(s)) = [t \in Rank |-> Msg(s, t)]
         /\ SendBufLargeEnough(s)
<1>1. amount \in [Rank -> [Rank -> Nat]]
  BY DEF ShapeInv
<1>2. Len(SendBuf(s)) \in Nat
  BY SendBufIs
<1>3. ASSUME NEW t \in Rank
      PROVE  Slice(SendBuf(s), SendDisplsOf(s)[t], amount[s][t]) = Msg(s, t)
  <2> DEFINE d == SendDisplsOf(s)[t]
             n == amount[s][t]
             b == SendBuf(s)
  <2>1. d \in Nat /\ d + n <= Len(b) /\ \A j \in 1 .. n : b[d + j] = Msg(s, t)[j]
    BY SendBufIs
  <2>2. n \in Nat /\ Msg(s, t) = [j \in 1 .. n |-> Msg(s, t)[j]]
    BY <1>1, MsgIs
  <2> HIDE DEF d, n, b
  <2>3. \A j \in 1 .. n : d + j <= Len(b)
    BY <1>2, <2>1, <2>2 DEF b
  <2>4. Slice(b, d, n) = Msg(s, t)
    BY <2>1, <2>2, <2>3, SliceIs
  <2> QED BY <2>4 DEF b, d, n
<1>4. Blocks(s, amount[s], SendDisplsOf(s)) = [t \in Rank |-> Msg(s, t)]
  BY <1>3, Zenon DEF Blocks
<1>5. amount[s][P - 1] + SendDisplsOf(s)[P - 1] <= Len(SendBuf(s))
  BY <1>1, <1>2, SendBufIs, RankIs
<1> QED BY <1>4, <1>5 DEF SendBufLargeEnough

(* A multiple of p is divided by p without rest. *)
LEMMA Multiples ==
  ASSUME NEW p \in Nat \ {0}, NEW n \in Nat
  PROVE  (p * n) \div p = n /\ (p * n) % p = 0
<1> DEFINE x == p * n
           q == x \div p
           m == x % p
<1>1. x \in Nat
  OBVIOUS
<1>2. q \in Int /\ m \in 0 .. p - 1 /\ x = p * q + m
  <2> HIDE DEF x
  <2> QED BY <1>1
<1> HIDE DEF q, m
<1>3. ~(q < n)
  <2> SUFFICES ASSUME q < n
               PROVE  FALSE
    OBVIOUS
  <2> DEFINE d == n - q
  <2>1. d \in Nat /\ d >= 1 /\ n = q + d
    BY <1>2
  <2> HIDE DEF d
  <2>2. p * n = p * q + p * d /\ p * d \in Nat /\ p * q \in Int
    BY <1>2, <2>1
  <2>3. p * d >= p
    BY <2>1
  <2> QED BY <1>2, <2>2, <2>3
<1>4. ~(n < q)
  <2> SUFFICES ASSUME n < q
               PROVE  FALSE
    OBVIOUS
  <2> DEFINE d == q - n
  <2>1. d \in Nat /\ d >= 1 /\ q = n + d
    BY <1>2
  <2> HIDE DEF d
  <2>2. p * q = p * n + p * d /\ p * d \in Nat /\ p * n \in Int
    BY <1>2, <2>1
  <2>3. p * d >= p
    BY <2>1
  <2> QED BY <1>2, <2>2, <2>3
<1>5. q = n
  BY <1>2, <1>3, <1>4
<1>6. m = 0
  BY <1>1, <1>2, <1>5
<1> QED BY <1>5, <1>6 DEF q, m

(* A buffer of equal blocks in rank order. *)
LEMMA EqualBlocksAre ==
  ASSUME NEW f, NEW n \in Nat, \A t \in Rank : f[t] \in Seq(Cell) /\ Len(f[t]) = n
  PROVE  /\ Ascending(f) \in Seq(Cell) /\ Len(Ascending(f)) = P * n /\ P * n \in Nat
         /\ Len(Ascending(f)) \div P = n /\ Len(Ascending(f)) % P = 0
         /\ \A t \in Rank : Slice(Ascending(f), t * n, n) = f[t]
<1>1. \A t \in Rank : Lens(f)[t] = n
  BY DEF Lens
<1>2. \A s \in Rank : Scan(Lens(f))[s] = s * n /\ s * n \in Nat
  BY <1>1, ScanConstant
<1>3. Sum(Lens(f), Rank) = P * n /\ P * n \in Nat
  BY <1>1, ScanConstant
<1>4. /\ Ascending(f) \in Seq(Cell) /\ Len(Ascending(f)) = Sum(Lens(f), Rank)
      /\ \A t \in Rank : \A j \in 1 .. Len(f[t]) : Ascending(f)[Scan(Lens(f))[t] + j] = f[t][j]
  <2>1. \A t \in Rank : f[t] \in Seq(Cell)
    OBVIOUS
  <2> QED BY <2>1, AscendingParts
<1>5. \A s \in Rank : Scan(Lens(f))[s] + Lens(f)[s] <= Sum(Lens(f), Rank)
  BY <1>1, ScanOffsets
<1>6. (P * n) \div P = n /\ (P * n) % P = 0
  BY RankIs, Multiples
<1>7. ASSUME NEW t \in Rank
      PROVE  Slice(Ascending(f), t * n, n) = f[t]
  <2> DEFINE d == t * n
             b == Ascending(f)
  <2>1. d \in Nat /\ d + n <= Len(b) /\ Len(b) \in Nat
    BY <1>1, <1>2, <1>3, <1>4, <1>5
  <2>2. \A j \in 1 .. n : b[d + j] = f[t][j]
    BY <1>2, <1>4
  <2>3. f[t] = [j \in 1 .. n |-> f[t][j]]
    <3>1. \A x \in Seq(Cell) : x = [j \in 1 .. Len(x) |-> x[j]]
      OBVIOUS
    <3> QED BY <3>1
  <2> HIDE DEF d, b
  <2>4. \A j \in 1 .. n : d + j <= Len(b)
    BY <2>1
  <2>5. Slice(b, d, n) = f[t]
    BY <2>1, <2>2, <2>3, <2>4, SliceIs
  <2> QED BY <2>5 DEF b, d
<1> QED BY <1>3, <1>4, <1>6, <1>7

--------------------------------------------------------------------------------
(* What a rank is promised: sources, counts, displacements, and the cells needed *)

(* What rank s sends to rank t, the ranks a rank receives from, how much and where to. *)
Payload(s, t) == IF op \in Scatters \cup Exchanges THEN Msg(s, t) ELSE Msg(s, s)

Sources(r) ==
  IF op \in Gathers THEN (IF IsRoot(r) THEN Rank ELSE {})
  ELSE IF op \in Scatters \cup Bcasts THEN {Root(r)} ELSE Rank

Due(r) == [s \in Sources(r) |-> amount[s][r]]

DueDispls(r) ==
  IF op \in Scatters \cup Bcasts THEN [s \in {Root(r)} |-> 0]
  ELSE IF args[r].recv_displs = "omitted" THEN Scan(Due(r))
  ELSE [s \in Rank |-> 1 + Rev(Due(r))[s]]

(* The groups of wrappers have no wrapper in common where the code tells them apart. *)
LEMMA OpsApart ==
  /\ Gathers = {"gather", "gatherv"} /\ Scatters = {"scatter", "scatter_single", "scatterv"}
  /\ Bcasts = {"bcast", "bcast_single"} /\ Exchanges = {"alltoall", "alltoallv", "alltoall_inplace"}
  /\ op \in Gathers => op \notin Scatters \cup Exchanges /\ op \notin Scatters \cup Bcasts
  /\ op \in Scatters => op \notin Gathers /\ op \notin Bcasts /\ op \notin Exchanges
  /\ op \in Bcasts => op \notin Gathers /\ op \notin Scatters /\ op \notin Exchanges /\ op \in Uniform
  /\ op \in Exchanges => op \notin Gathers /\ op \notin Scatters /\ op \notin Bcasts
  /\ op \in WrapperOps => op \in Gathers \cup Scatters \cup Bcasts \cup Exchanges
                               \cup {"allgather", "allgatherv", "allgather_inplace"}
BY DEF Gathers, Scatters, Bcasts, Exchanges, Uniform, WrapperOps, Inplace, Rooted

(* Of the messages for all ranks, the one for itself is as long as the others. *)
LEMMA PayloadIs ==
  ASSUME ShapeInv, ArgsInv, NEW s \in Rank, NEW t \in Rank
  PROVE  /\ Payload(s, t) \in Seq(Cell) /\ Len(Payload(s, t)) = amount[s][t] /\ amount[s][t] \in Nat
         /\ Payload(s, t) = [j \in 1 .. amount[s][t] |-> Payload(s, t)[j]]
<1>1. amount \in [Rank -> [Rank -> Nat]]
  BY DEF ShapeInv
<1>2. op \notin Scatters \cup Exchanges => amount[s][s] = amount[s][t]
  <2>1. op \in Uniform => \A x, y \in Rank : amount[x][y] = amount[0][0]
    BY DEF ShapeInv
  <2>2. op \in {"gatherv", "allgatherv", "allgather"} => amount[s][t] = amount[s][s]
    BY DEF ShapeInv
  <2>3. op \in WrapperOps
    BY DEF ArgsInv
  <2>4. op \notin Scatters \cup Exchanges => op \in Uniform \/ op \in {"gatherv", "allgatherv", "allgather"}
    BY <2>3 DEF Gathers, Scatters, Bcasts, Exchanges, Uniform, WrapperOps, Inplace, Rooted
  <2>5. op \in Uniform => amount[s][s] = amount[s][t]
    BY <2>1, Zenon
  <2> QED BY <2>2, <2>4, <2>5
<1>3. CASE op \in Scatters \cup Exchanges
  BY <1>1, <1>3, MsgIs DEF Payload
<1>4. CASE op \notin Scatters \cup Exchanges
  <2>1. Payload(s, t) = Msg(s, s)
    BY <1>4 DEF Payload
  <2>2. amount[s][s] = amount[s][t]
    BY <1>2, <1>4
  <2> QED BY <1>1, <2>1, <2>2, MsgIs
<1> QED BY <1>3, <1>4

(* Who sends to r: the root, or everybody, or nobody. *)
LEMMA SourcesAre ==
  ASSUME ArgsInv, NEW r \in Rank
  PROVE  /\ Sources(r) \subseteq Rank /\ Root(r) \in Rank
         /\ Sources(r) \in {Rank, {}, {Root(r)}}
         /\ op \in Scatters \cup Bcasts => Sources(r) = {Root(r)}
         /\ op \notin Scatters \cup Bcasts => Sources(r) \in {Rank, {}}
         /\ op \notin Scatters \cup Bcasts \cup Gathers => Sources(r) = Rank
<1>1. Root(r) \in Rank
  BY DEF ArgsInv
<1> QED BY <1>1, OpsApart DEF Sources

(* What r is promised are the payloads of its sources. *)
LEMMA PromisedIs ==
  ASSUME ArgsInv, NEW r \in Rank
  PROVE  /\ DOMAIN Promised(r) = Sources(r)
         /\ \A s \in Sources(r) : Promised(r)[s] = Payload(s, r)
<1>1. op \in WrapperOps /\ Root(r) \in Rank
  BY DEF ArgsInv
<1>2. CASE op \in Gathers
  <2>1. Promised(r) = IF IsRoot(r) THEN [s \in Rank |-> Msg(s, s)] ELSE <<>>
    BY <1>2, OpsApart DEF Promised
  <2>2. Sources(r) = IF IsRoot(r) THEN Rank ELSE {}
    BY <1>2 DEF Sources
  <2>3. \A s : Payload(s, r) = Msg(s, s)
    BY <1>2, OpsApart DEF Payload
  <2> QED BY <2>1, <2>2, <2>3
<1>3. CASE op \in Scatters
  <2>1. Promised(r) = [s \in {Root(r)} |-> Msg(s, r)]
    BY <1>3, OpsApart DEF Promised
  <2>2. Sources(r) = {Root(r)} /\ \A s : Payload(s, r) = Msg(s, r)
    BY <1>3, OpsApart DEF Sources, Payload
  <2> QED BY <2>1, <2>2
<1>4. CASE op \in Bcasts
  <2>1. Promised(r) = [s \in {Root(r)} |-> Msg(s, s)]
    BY <1>4, OpsApart DEF Promised
  <2>2. Sources(r) = {Root(r)} /\ \A s : Payload(s, r) = Msg(s, s)
    BY <1>4, OpsApart DEF Sources, Payload
  <2> QED BY <2>1, <2>2
<1>5. CASE op \in Exchanges
  <2>1. Promised(r) = [s \in Rank |-> Msg(s, r)]
    BY <1>5, OpsApart DEF Promised
  <2>2. Sources(r) = Rank /\ \A s : Payload(s, r) = Msg(s, r)
    BY <1>5, OpsApart DEF Sources, Payload
  <2> QED BY <2>1, <2>2
<1>6. CASE op \in {"allgather", "allgatherv", "allgather_inplace"}
  <2>0. op \notin Gathers /\ op \notin Scatters /\ op \notin Bcasts /\ op \notin Exchanges
    BY <1>6, OpsApart
  <2>1. Promised(r) = [s \in Rank |-> Msg(s, s)]
    BY <2>0 DEF Promised
  <2>2. Sources(r) = Rank /\ \A s : Payload(s, r) = Msg(s, s)
    BY <2>0 DEF Sources, Payload
  <2> QED BY <2>1, <2>2
<1> QED BY <1>1, <1>2, <1>3, <1>4, <1>5, <1>6, OpsApart

(* The counts due to r are the lengths of what it is promised. *)
LEMMA DueIs ==
  ASSUME ShapeInv, ArgsInv, NEW r \in Rank
  PROVE  /\ DOMAIN Due(r) = Sources(r)
         /\ \A s \in Sources(r) : Due(r)[s] = amount[s][r] /\ Due(r)[s] \in Nat /\ Len(Promised(r)[s]) = Due(r)[s]
         /\ [t \in DOMAIN Promised(r) |-> Len(Promised(r)[t])] = Due(r)
<1>1. \A s \in Sources(r) : s \in Rank /\ Promised(r)[s] = Payload(s, r)
  BY PromisedIs, SourcesAre
<1>2. \A s \in Sources(r) : Len(Promised(r)[s]) = amount[s][r] /\ amount[s][r] \in Nat
  BY <1>1, PayloadIs
<1>3. DOMAIN Promised(r) = Sources(r)
  BY PromisedIs
<1> QED BY <1>2, <1>3, Zenon DEF Due

(* What r is promised from s belongs at the displacement due. *)
LEMMA PlaceIs ==
  ASSUME ShapeInv, ArgsInv, NEW r \in Rank, NEW s \in Sources(r)
  PROVE  Place(r, s) = DueDispls(r)[s]
<1>1. Place(r, s) = IF args[r].recv_displs = "omitted"
                    THEN Sum(Due(r), {t \in DOMAIN Due(r) : t < s}) ELSE GivenRecvDispls(Due(r))[s]
  BY DueIs, Zenon DEF Place, Sum
<1>2. CASE op \in Scatters \cup Bcasts
  <2>1. Sources(r) = {Root(r)} /\ s = Root(r) /\ s \in Rank
    BY <1>2, SourcesAre
  <2>2. args[r].recv_displs = "omitted"
    <3>1. op \notin {"gatherv", "allgatherv", "alltoallv"}
      BY <1>2, OpsApart
    <3> QED BY <3>1 DEF ShapeInv
  <2>3. {t \in DOMAIN Due(r) : t < s} = {}
    <3>1. DOMAIN Due(r) = {s}
      BY <2>1, DueIs
    <3>2. ~(s < s)
      BY <2>1, RankIs
    <3> QED BY <3>1, <3>2
  <2>4. Place(r, s) = 0
    BY <1>1, <2>2, <2>3, SumEmpty
  <2> QED BY <1>2, <2>1, <2>4 DEF DueDispls
<1>3. CASE op \notin Scatters \cup Bcasts
  <2>1. Sources(r) = Rank /\ s \in Rank /\ DOMAIN Due(r) = Rank
    BY <1>3, SourcesAre, DueIs
  <2>2. {t \in DOMAIN Due(r) : t < s} = 0 .. s - 1
    BY <2>1, RankIs
  <2>3. args[r].recv_displs = "omitted" => Place(r, s) = Scan(Due(r))[s]
    BY <1>1, <2>1, <2>2, Zenon DEF Scan
  <2>4. args[r].recv_displs # "omitted" => Place(r, s) = 1 + Rev(Due(r))[s]
    <3>1. GivenRecvDispls(Due(r))[s] = 1 + Rev(Due(r))[s]
      BY <2>1, RevIs, Zenon DEF GivenRecvDispls
    <3> QED BY <1>1, <3>1
  <2> QED BY <1>3, <2>1, <2>3, <2>4, Zenon DEF DueDispls
<1> QED BY <1>2, <1>3

(* What CHOOSE finds of a set with a largest number is that number. *)
LEMMA Maximum ==
  ASSUME NEW S \in SUBSET Nat, NEW n \in S, \A m \in S : m <= n
  PROVE  (CHOOSE x \in S : \A m \in S : m <= x) = n
<1> DEFINE c == CHOOSE x \in S : \A m \in S : m <= x
<1>1. c \in S /\ \A m \in S : m <= c
  OBVIOUS
<1> HIDE DEF c
<1>2. c <= n /\ n <= c /\ c \in Nat /\ n \in Nat
  BY <1>1
<1>3. c = n
  BY <1>2
<1> QED BY <1>3 DEF c

Ends(r) == {0} \cup {DueDispls(r)[s] + Due(r)[s] : s \in Sources(r)}

(* The cells needed are those up to the last end of a block. *)
LEMMA NeededEnds ==
  ASSUME ShapeInv, ArgsInv, NEW r \in Rank
  PROVE  Needed(r) = CHOOSE n \in Ends(r) : \A m \in Ends(r) : m <= n
<1>1. {Place(r, s) + Len(Promised(r)[s]) : s \in DOMAIN Promised(r)} = {DueDispls(r)[s] + Due(r)[s] : s \in Sources(r)}
  <2>1. \A s \in Sources(r) : Place(r, s) + Len(Promised(r)[s]) = DueDispls(r)[s] + Due(r)[s]
    BY PlaceIs, DueIs
  <2>2. DOMAIN Promised(r) = Sources(r)
    BY PromisedIs
  <2> QED BY <2>1, <2>2
<1> QED BY <1>1, Zenon DEF Needed, Ends

(* The messages lie apart, and end where the required size says. *)
LEMMA Layout ==
  ASSUME ShapeInv, ArgsInv, NEW r \in Rank
  PROVE  /\ \A s \in Sources(r) : DueDispls(r)[s] \in Nat /\ DueDispls(r)[s] + Due(r)[s] <= Needed(r)
         /\ \A s, t \in Sources(r) : s # t => \/ DueDispls(r)[s] + Due(r)[s] <= DueDispls(r)[t]
                                              \/ DueDispls(r)[t] + Due(r)[t] <= DueDispls(r)[s]
         /\ Needed(r) \in Nat
         /\ Sources(r) = {} => Needed(r) = 0
         /\ op \in Scatters \cup Bcasts => Needed(r) = amount[Root(r)][r]
         /\ op \notin Scatters \cup Bcasts /\ Sources(r) = Rank =>
              /\ args[r].recv_displs = "omitted" => Needed(r) = Sum(Due(r), Rank)
              /\ args[r].recv_displs # "omitted" => Needed(r) = 1 + Sum(Due(r), Rank)
<1> DEFINE D == DueDispls(r)
           C == Due(r)
           S == Sources(r)
<1>1. \A s \in S : C[s] \in Nat /\ C[s] = amount[s][r]
  BY DueIs
<1>2. Needed(r) = CHOOSE n \in Ends(r) : \A m \in Ends(r) : m <= n
  BY NeededEnds
<1>3. Ends(r) = {0} \cup {D[s] + C[s] : s \in S}
  BY Zenon DEF Ends
<1>4. ASSUME NEW n \in Nat, n = 0 \/ \E s \in S : n = D[s] + C[s],
             \A s \in S : D[s] \in Nat /\ D[s] + C[s] <= n
      PROVE  Needed(r) = n
  <2> HIDE DEF D, C, S
  <2>1. Ends(r) \in SUBSET Nat
    BY <1>1, <1>3, <1>4
  <2>2. n \in Ends(r)
    BY <1>3, <1>4
  <2>3. \A m \in Ends(r) : m <= n
    BY <1>3, <1>4
  <2> QED BY <1>2, <2>1, <2>2, <2>3, Maximum
<1>5. CASE S = {}
  <2>1. Needed(r) = 0
    BY <1>4, <1>5
  <2>2. S # Rank
    BY <1>5, RankIs
  <2>3. op \notin Scatters \cup Bcasts
    BY <1>5, SourcesAre
  <2> QED BY <1>5, <2>1, <2>2, <2>3
<1>6. CASE op \in Scatters \cup Bcasts
  <2>1. S = {Root(r)} /\ D[Root(r)] = 0 /\ C[Root(r)] = amount[Root(r)][r] /\ C[Root(r)] \in Nat
    BY <1>1, <1>6, SourcesAre DEF DueDispls
  <2> HIDE DEF D, C, S
  <2>2. Needed(r) = amount[Root(r)][r]
    BY <1>4, <2>1
  <2> QED BY <1>6, <2>1, <2>2 DEF D, C, S
<1>7. CASE op \notin Scatters \cup Bcasts /\ S = Rank /\ args[r].recv_displs = "omitted"
  <2>1. D = Scan(C)
    BY <1>7 DEF DueDispls
  <2>2. \A x \in Rank : C[x] \in Nat
    BY <1>1, <1>7
  <2> HIDE DEF D, C, S
  <2>3. /\ \A s \in Rank : D[s] \in Nat
        /\ D[P - 1] + C[P - 1] = Sum(C, Rank)
        /\ Sum(C, Rank) \in Nat
        /\ \A s \in Rank : D[s] + C[s] <= Sum(C, Rank)
        /\ \A s, t \in Rank : s < t => D[s] + C[s] <= D[t]
    BY <2>1, <2>2, ScanOffsets
  <2>4. Needed(r) = Sum(C, Rank)
    BY <1>4, <1>7, <2>3, RankIs
  <2>5. \A s, t \in Rank : s # t => s < t \/ t < s
    BY RankIs
  <2>6. S # {}
    BY <1>7, RankIs
  <2>7. \A s, t \in Rank : s # t => D[s] + C[s] <= D[t] \/ D[t] + C[t] <= D[s]
    BY <2>3, <2>5
  <2> QED BY <1>7, <2>3, <2>4, <2>6, <2>7 DEF D, C, S
<1>8. CASE op \notin Scatters \cup Bcasts /\ S = Rank /\ args[r].recv_displs # "omitted"
  <2>1. D = [s \in Rank |-> 1 + Rev(C)[s]]
    BY <1>8 DEF DueDispls
  <2>2. \A x \in Rank : C[x] \in Nat
    BY <1>1, <1>8
  <2> HIDE DEF D, C, S
  <2>3. /\ \A s \in Rank : Rev(C)[s] \in Nat
        /\ Rev(C)[0] + C[0] = Sum(C, Rank)
        /\ Sum(C, Rank) \in Nat
        /\ \A s \in Rank : Rev(C)[s] + C[s] <= Sum(C, Rank)
        /\ \A s, t \in Rank : s > t => Rev(C)[s] + C[s] <= Rev(C)[t]
    BY <2>2, RevOffsets
  <2>4. \A s \in Rank : D[s] = 1 + Rev(C)[s]
    BY <2>1
  <2>5. /\ \A s \in Rank : D[s] \in Nat /\ D[s] + C[s] <= 1 + Sum(C, Rank)
        /\ D[0] + C[0] = 1 + Sum(C, Rank)
        /\ \A s, t \in Rank : s > t => D[s] + C[s] <= D[t]
    <3>1. ASSUME NEW s \in Rank
          PROVE  D[s] \in Nat /\ D[s] + C[s] <= 1 + Sum(C, Rank)
      <4>1. Rev(C)[s] \in Nat /\ C[s] \in Nat /\ Rev(C)[s] + C[s] <= Sum(C, Rank) /\ D[s] = 1 + Rev(C)[s]
        BY <2>2, <2>3, <2>4
      <4> QED BY <2>3, <4>1
    <3>2. D[0] + C[0] = 1 + Sum(C, Rank)
      <4>1. Rev(C)[0] \in Nat /\ C[0] \in Nat /\ D[0] = 1 + Rev(C)[0]
        BY <2>2, <2>3, <2>4, RankIs
      <4> QED BY <2>3, <4>1
    <3>3. ASSUME NEW s \in Rank, NEW t \in Rank, s > t
          PROVE  D[s] + C[s] <= D[t]
      <4>1. Rev(C)[s] \in Nat /\ C[s] \in Nat /\ Rev(C)[s] + C[s] <= Rev(C)[t] /\ Rev(C)[t] \in Nat
        BY <2>2, <2>3, <3>3
      <4>2. D[s] = 1 + Rev(C)[s] /\ D[t] = 1 + Rev(C)[t]
        BY <2>4
      <4> QED BY <4>1, <4>2
    <3> QED BY <3>1, <3>2, <3>3
  <2>6. Needed(r) = 1 + Sum(C, Rank)
    BY <1>4, <1>8, <2>3, <2>5, RankIs
  <2>7. \A s, t \in Rank : s # t => s > t \/ t > s
    BY RankIs
  <2>8. S # {}
    BY <1>8, RankIs
  <2>9. \A s, t \in Rank : s # t => D[s] + C[s] <= D[t] \/ D[t] + C[t] <= D[s]
    BY <2>5, <2>7
  <2>10. 1 + Sum(C, Rank) \in Nat
    BY <2>3
  <2> QED BY <1>8, <2>5, <2>6, <2>8, <2>9, <2>10 DEF D, C, S
<1>9. op \in Scatters \cup Bcasts \/ S = {} \/ S = Rank
  BY SourcesAre
<1> QED BY <1>5, <1>6, <1>7, <1>8, <1>9

--------------------------------------------------------------------------------
(* The buffer of a call that has received everything                        *)

Filled(r) ==
  IF Receives(r) THEN ResizeIfRequested(InitialBuf(r), args[r].policy, Needed(r)) ELSE InitialBuf(r)

Done(r) == Written(Filled(r), [s \in Sources(r) |-> Payload(s, r)], DueDispls(r))

(* A member of Seq is a function on 1 to its length. *)
LEMMA SeqIsSequence ==
  ASSUME NEW V, NEW s \in Seq(V)
  PROVE  IsSequence(s)
<1>1. \A x \in Seq(V) : Len(x) \in Nat /\ x = [j \in 1 .. Len(x) |-> x[j]]
  OBVIOUS
<1> QED BY <1>1 DEF IsSequence

(* The receive buffer a rank comes with: a sequence; of the in-place wrappers, the blocks
   of equal length it contributes; at the root of a broadcast, the value. *)
LEMMA InitialBufIs ==
  ASSUME ShapeInv, ArgsInv, NEW r \in Rank
  PROVE  /\ IsSequence(InitialBuf(r)) /\ Size(r) = Len(InitialBuf(r)) /\ amount[0][0] \in Nat
         /\ op \in Inplace => /\ Len(InitialBuf(r)) = P * amount[0][0]
                              /\ Len(InitialBuf(r)) \div P = amount[0][0]
                              /\ Len(InitialBuf(r)) % P = 0
         /\ op = "allgather_inplace" => Slice(InitialBuf(r), r * amount[0][0], amount[0][0]) = Msg(r, r)
         /\ op = "alltoall_inplace" =>
              \A t \in Rank : Slice(InitialBuf(r), t * amount[0][0], amount[0][0]) = Msg(r, t)
         /\ op \in Bcasts /\ IsRoot(r) => InitialBuf(r) = Msg(r, r)
<1> DEFINE n == amount[0][0]
<1>1. amount \in [Rank -> [Rank -> Nat]]
  BY DEF ShapeInv
<1>2. op \in Uniform => \A s, t \in Rank : amount[s][t] = n
  BY DEF ShapeInv
<1>3. n \in Nat /\ Size(r) = Len(InitialBuf(r))
  BY <1>1, RankIs DEF Size
<1>4. \A s, t \in Rank : Msg(s, t) \in Seq(Cell) /\ Len(Msg(s, t)) = amount[s][t]
  BY <1>1, MsgIs
<1> HIDE DEF n
<1>5. CASE op = "allgather_inplace"
  <2> DEFINE f == [s \in Rank |-> IF s = r THEN Msg(r, r) ELSE [j \in 1 .. amount[r][r] |-> Old]]
  <2>1. \A s, t \in Rank : amount[s][t] = n
    BY <1>2, <1>5 DEF Uniform
  <2>2. [j \in 1 .. n |-> Old] \in Seq(Cell) /\ Len([j \in 1 .. n |-> Old]) = n
    <3>1. [j \in 1 .. n |-> Old] \in [1 .. n -> Cell]
      BY DEF Cell
    <3> QED BY <1>3, <3>1
  <2>3. \A t \in Rank : f[t] \in Seq(Cell) /\ Len(f[t]) = n
    BY <1>4, <2>1, <2>2
  <2>4. f[r] = Msg(r, r)
    OBVIOUS
  <2>5. InitialBuf(r) = Ascending(f)
    <3>1. op # "alltoall_inplace" /\ op \notin Bcasts
      BY <1>5 DEF Bcasts
    <3> QED BY <1>5, <3>1, Zenon DEF InitialBuf
  <2> HIDE DEF f
  <2>6. /\ Ascending(f) \in Seq(Cell) /\ Len(Ascending(f)) = P * n
        /\ Len(Ascending(f)) \div P = n /\ Len(Ascending(f)) % P = 0
        /\ Slice(Ascending(f), r * n, n) = f[r]
    BY <1>3, <2>3, EqualBlocksAre
  <2>7. IsSequence(Ascending(f))
    BY <2>6, SeqIsSequence
  <2>8. op # "alltoall_inplace" /\ op \notin Bcasts
    BY <1>5 DEF Bcasts
  <2> QED BY <1>3, <2>4, <2>5, <2>6, <2>7, <2>8 DEF n
<1>6. CASE op = "alltoall_inplace"
  <2> DEFINE f == [t \in Rank |-> Msg(r, t)]
  <2>1. \A s, t \in Rank : amount[s][t] = n
    BY <1>2, <1>6 DEF Uniform
  <2>3. \A t \in Rank : f[t] \in Seq(Cell) /\ Len(f[t]) = n /\ f[t] = Msg(r, t)
    BY <1>4, <2>1
  <2>5. InitialBuf(r) = Ascending(f)
    <3>1. op # "allgather_inplace" /\ op \notin Bcasts
      BY <1>6 DEF Bcasts
    <3> QED BY <1>6, <3>1, Zenon DEF InitialBuf
  <2> HIDE DEF f
  <2>6. /\ Ascending(f) \in Seq(Cell) /\ Len(Ascending(f)) = P * n
        /\ Len(Ascending(f)) \div P = n /\ Len(Ascending(f)) % P = 0
        /\ \A t \in Rank : Slice(Ascending(f), t * n, n) = f[t]
    BY <1>3, <2>3, EqualBlocksAre
  <2>7. IsSequence(Ascending(f))
    BY <2>6, SeqIsSequence
  <2>8. op # "allgather_inplace" /\ op \notin Bcasts
    BY <1>6 DEF Bcasts
  <2> QED BY <1>3, <2>3, <2>5, <2>6, <2>7, <2>8 DEF n
<1>7. CASE op \in Bcasts /\ IsRoot(r)
  <2>1. InitialBuf(r) = Msg(r, r)
    BY <1>7 DEF InitialBuf, Bcasts
  <2>2. IsSequence(Msg(r, r))
    BY <1>4, SeqIsSequence
  <2>3. op \notin Inplace /\ op # "allgather_inplace" /\ op # "alltoall_inplace"
    BY <1>7 DEF Bcasts, Inplace
  <2> QED BY <1>3, <2>1, <2>2, <2>3 DEF n
<1>8. CASE op \notin Inplace /\ ~(op \in Bcasts /\ IsRoot(r))
  <2>1. op # "allgather_inplace" /\ op # "alltoall_inplace"
    BY <1>8 DEF Inplace
  <2>2. InitialBuf(r) = [k \in 1 .. args[r].room |-> Old]
    BY <1>8, <2>1 DEF InitialBuf
  <2>3. args[r].room \in Nat
    BY DEF ShapeInv
  <2>4. IsSequence(InitialBuf(r))
    BY <2>2, <2>3 DEF IsSequence
  <2> QED BY <1>3, <1>8, <2>1, <2>4 DEF n
<1>9. op \in Inplace => op \in {"allgather_inplace", "alltoall_inplace"}
  BY DEF Inplace
<1> QED BY <1>5, <1>6, <1>7, <1>8, <1>9

(* The buffer after the resize policy: the old cells, then new ones. *)
LEMMA FilledIs ==
  ASSUME ShapeInv, ArgsInv, NEW r \in Rank
  PROVE  /\ IsSequence(Filled(r)) /\ Len(Filled(r)) = SizeAfter(r) /\ Size(r) \in Nat
         /\ \A k \in 1 .. SizeAfter(r) : Filled(r)[k] = IF k <= Size(r) THEN InitialBuf(r)[k] ELSE New
<1> DEFINE b == InitialBuf(r)
           n == Needed(r)
<1>1. IsSequence(b) /\ Len(b) = Size(r) /\ Len(b) \in Nat /\ b = [k \in 1 .. Len(b) |-> b[k]]
  BY InitialBufIs DEF IsSequence
<1>2. n \in Nat
  BY Layout
<1>3. args[r].policy \in {"no_resize", "grow_only", "resize_to_fit"}
  BY DEF ShapeInv
<1> HIDE DEF b, n
<1>4. /\ IsSequence(Resize(b, n)) /\ Len(Resize(b, n)) = n
      /\ \A k \in 1 .. n : Resize(b, n)[k] = IF k <= Size(r) THEN b[k] ELSE New
  BY <1>1, <1>2 DEF Resize, IsSequence
<1>5. \A k \in 1 .. Size(r) : b[k] = IF k <= Size(r) THEN b[k] ELSE New
  BY <1>1
<1>6. CASE ~Receives(r)
  <2>1. Filled(r) = b /\ SizeAfter(r) = Size(r)
    BY <1>6 DEF Filled, SizeAfter, b
  <2> QED BY <1>1, <1>5, <2>1 DEF b
<1>7. CASE Receives(r) /\ args[r].policy = "resize_to_fit"
  <2>1. Filled(r) = Resize(b, n) /\ SizeAfter(r) = n
    BY <1>7 DEF Filled, SizeAfter, ResizeIfRequested, b, n
  <2> QED BY <1>1, <1>4, <2>1 DEF b
<1>8. CASE Receives(r) /\ args[r].policy = "grow_only"
  <2>1. Filled(r) = IF Len(b) < n THEN Resize(b, n) ELSE b
    BY <1>8 DEF Filled, ResizeIfRequested, b, n
  <2>2. SizeAfter(r) = IF Size(r) < n THEN n ELSE Size(r)
    BY <1>8 DEF SizeAfter, n
  <2>3. CASE Size(r) < n
    <3>1. Filled(r) = Resize(b, n) /\ SizeAfter(r) = n
      BY <1>1, <2>1, <2>2, <2>3
    <3> QED BY <1>1, <1>4, <3>1 DEF b
  <2>4. CASE ~(Size(r) < n)
    <3>1. Filled(r) = b /\ SizeAfter(r) = Size(r)
      BY <1>1, <2>1, <2>2, <2>4
    <3> QED BY <1>1, <1>5, <3>1 DEF b
  <2> QED BY <2>3, <2>4
<1>9. CASE Receives(r) /\ args[r].policy = "no_resize"
  <2>1. Filled(r) = b /\ SizeAfter(r) = Size(r)
    BY <1>9 DEF Filled, SizeAfter, ResizeIfRequested, b
  <2> QED BY <1>1, <1>5, <2>1 DEF b
<1> QED BY <1>3, <1>6, <1>7, <1>8, <1>9

(* What is written where the displacements say keeps the promise. *)
LEMMA DoneIs ==
  ASSUME ShapeInv, ArgsInv, NEW r \in Rank, Needed(r) <= SizeAfter(r)
  PROVE  /\ Len(Done(r)) = SizeAfter(r)
         /\ \A s \in DOMAIN Promised(r) : \A j \in DOMAIN Promised(r)[s] :
              /\ Place(r, s) + j <= Len(Done(r))
              /\ Done(r)[Place(r, s) + j] = Promised(r)[s][j]
         /\ \A k \in DOMAIN Done(r) \ UNION {Cells(r, s) : s \in DOMAIN Promised(r)} :
              Done(r)[k] = IF k <= Size(r) THEN InitialBuf(r)[k] ELSE New
<1> DEFINE D == DueDispls(r)
           C == Due(r)
           S == Sources(r)
           B == [s \in S |-> Payload(s, r)]
           c == Filled(r)
           N == SizeAfter(r)
           hit(k) == {s \in S : D[s] < k /\ k <= D[s] + C[s]}
<1>1. /\ N \in Nat /\ DOMAIN c = 1 .. N /\ Size(r) \in Nat
      /\ \A k \in 1 .. N : c[k] = IF k <= Size(r) THEN InitialBuf(r)[k] ELSE New
  <2>1. IsSequence(c) /\ Len(c) = N
    BY FilledIs
  <2>2. N \in Nat /\ c = [k \in 1 .. N |-> c[k]]
    <3> HIDE DEF c, N
    <3> QED BY <2>1 DEF IsSequence
  <2>3. DOMAIN c = 1 .. N
    <3> HIDE DEF c, N
    <3> QED BY <2>2
  <2> QED BY <2>2, <2>3, FilledIs
<1>2. /\ DOMAIN Promised(r) = S /\ DOMAIN B = S
      /\ \A s \in S : /\ Promised(r)[s] = B[s] /\ Len(B[s]) = C[s] /\ C[s] \in Nat /\ D[s] \in Nat
                      /\ B[s] = [j \in 1 .. C[s] |-> B[s][j]] /\ Place(r, s) = D[s] /\ D[s] + C[s] <= N
  <2>1. DOMAIN Promised(r) = S /\ DOMAIN B = S
    BY PromisedIs
  <2>2. ASSUME NEW s \in S
        PROVE  /\ Promised(r)[s] = B[s] /\ Len(B[s]) = C[s] /\ C[s] \in Nat /\ D[s] \in Nat
               /\ B[s] = [j \in 1 .. C[s] |-> B[s][j]] /\ Place(r, s) = D[s] /\ D[s] + C[s] <= N
    <3>1. s \in Rank /\ B[s] = Payload(s, r) /\ Promised(r)[s] = B[s]
      BY PromisedIs, SourcesAre
    <3>2. C[s] = amount[s][r] /\ C[s] \in Nat
      BY DueIs
    <3>3. Len(B[s]) = C[s] /\ B[s] = [j \in 1 .. C[s] |-> B[s][j]]
      BY <3>1, <3>2, PayloadIs
    <3>4. Place(r, s) = D[s] /\ D[s] \in Nat /\ D[s] + C[s] <= Needed(r) /\ Needed(r) \in Nat
      BY PlaceIs, Layout
    <3>5. D[s] + C[s] <= N
      <4> HIDE DEF D, C
      <4> QED BY <1>1, <3>2, <3>4
    <3> QED BY <3>1, <3>2, <3>3, <3>4, <3>5
  <2> QED BY <2>1, <2>2
<1>3. \A s, t \in S : s # t => D[s] + C[s] <= D[t] \/ D[t] + C[t] <= D[s]
  BY Layout
<1>4. Done(r) = [k \in DOMAIN c |-> LET h == {s \in DOMAIN B : D[s] < k /\ k <= D[s] + Len(B[s])}
                                    IN  IF h = {} THEN c[k]
                                        ELSE LET s == CHOOSE t \in h : TRUE IN B[s][k - D[s]]]
  BY Zenon DEF Done, Written
<1> HIDE DEF D, C, S, B, c, N
<1>5. \A k \in 1 .. N : {s \in DOMAIN B : D[s] < k /\ k <= D[s] + Len(B[s])} = hit(k)
  BY <1>2
<1>6. DOMAIN Done(r) = 1 .. N /\ Len(Done(r)) = N
  BY <1>1, <1>4
<1>7. \A k \in 1 .. N : Done(r)[k] = IF hit(k) = {} THEN c[k]
                                     ELSE B[CHOOSE t \in hit(k) : TRUE][k - D[CHOOSE t \in hit(k) : TRUE]]
  <2> SUFFICES ASSUME NEW k \in 1 .. N
               PROVE  Done(r)[k] = IF hit(k) = {} THEN c[k]
                                   ELSE B[CHOOSE t \in hit(k) : TRUE][k - D[CHOOSE t \in hit(k) : TRUE]]
    OBVIOUS
  <2> DEFINE h == {s \in DOMAIN B : D[s] < k /\ k <= D[s] + Len(B[s])}
  <2>1. Done(r)[k] = IF h = {} THEN c[k] ELSE B[CHOOSE t \in h : TRUE][k - D[CHOOSE t \in h : TRUE]]
    BY <1>1, <1>4, Zenon
  <2>2. h = hit(k)
    BY <1>5
  <2> HIDE DEF h
  <2> QED BY <2>1, <2>2, Zenon
<1>8. ASSUME NEW s \in S, NEW j \in 1 .. C[s]
      PROVE  /\ D[s] + j <= N /\ Done(r)[D[s] + j] = B[s][j]
  <2> DEFINE k == D[s] + j
  <2>1. D[s] \in Nat /\ C[s] \in Nat /\ D[s] + C[s] <= N
    BY <1>2
  <2>2. k \in 1 .. N /\ D[s] < k /\ k <= D[s] + C[s] /\ k - D[s] = j
    BY <1>1, <2>1
  <2> HIDE DEF k
  <2>3. hit(k) = {s}
    <3>1. s \in hit(k)
      BY <2>2
    <3>2. \A t \in hit(k) : t = s
      <4> SUFFICES ASSUME NEW t \in S, D[t] < k, k <= D[t] + C[t], t # s
                   PROVE  FALSE
        OBVIOUS
      <4>1. D[t] \in Nat /\ C[t] \in Nat /\ k \in Nat
        BY <1>2, <2>2
      <4>2. D[s] + C[s] <= D[t] \/ D[t] + C[t] <= D[s]
        BY <1>3
      <4> QED BY <2>1, <2>2, <4>1, <4>2
    <3> QED BY <3>1, <3>2
  <2>4. (CHOOSE t \in hit(k) : TRUE) = s /\ hit(k) # {}
    BY <2>3
  <2>5. Done(r)[k] = B[s][k - D[s]]
    BY <1>7, <2>2, <2>4, Zenon
  <2> QED BY <2>2, <2>5 DEF k
<1>9. \A s \in DOMAIN Promised(r) : \A j \in DOMAIN Promised(r)[s] :
        /\ Place(r, s) + j <= Len(Done(r))
        /\ Done(r)[Place(r, s) + j] = Promised(r)[s][j]
  <2> SUFFICES ASSUME NEW s \in S, NEW j \in DOMAIN Promised(r)[s]
               PROVE  Place(r, s) + j <= Len(Done(r)) /\ Done(r)[Place(r, s) + j] = Promised(r)[s][j]
    BY <1>2
  <2>1. Promised(r)[s] = B[s] /\ Place(r, s) = D[s] /\ B[s] = [i \in 1 .. C[s] |-> B[s][i]]
    BY <1>2
  <2>2. j \in 1 .. C[s]
    BY <2>1
  <2>3. D[s] + j <= N /\ Done(r)[D[s] + j] = B[s][j]
    BY <1>8, <2>2
  <2> QED BY <1>6, <2>1, <2>3
<1>10. ASSUME NEW k \in DOMAIN Done(r) \ UNION {Cells(r, s) : s \in DOMAIN Promised(r)}
       PROVE  Done(r)[k] = IF k <= Size(r) THEN InitialBuf(r)[k] ELSE New
  <2>1. k \in 1 .. N
    BY <1>6
  <2>2. hit(k) = {}
    <3> SUFFICES ASSUME NEW s \in S, D[s] < k, k <= D[s] + C[s]
                 PROVE  FALSE
      OBVIOUS
    <3> DEFINE j == k - D[s]
    <3>1. D[s] \in Nat /\ C[s] \in Nat /\ Place(r, s) = D[s] /\ DOMAIN Promised(r)[s] = 1 .. C[s]
      BY <1>2
    <3>2. j \in 1 .. C[s] /\ D[s] + j = k
      BY <2>1, <3>1
    <3> HIDE DEF j
    <3>3. k \in Cells(r, s)
      BY <3>1, <3>2 DEF Cells
    <3>4. s \in DOMAIN Promised(r)
      BY <1>2
    <3> QED BY <3>3, <3>4
  <2>3. Done(r)[k] = c[k]
    BY <1>7, <2>1, <2>2, Zenon
  <2> QED BY <1>1, <2>1, <2>3
<1> QED BY <1>6, <1>9, <1>10 DEF N

--------------------------------------------------------------------------------
(* The invariant of the data: shapes, entries, local variables, faults      *)

(* The collective by which the wrapper finds the counts nobody gave: its position, and  *)
(* the number a rank sends in it to another.                                            *)
NumberAt ==
  CASE op = "gatherv" -> 3 * Unit + 1
    [] op = "allgatherv" -> 2 * Unit + 1
    [] op \in {"scatter", "scatter_single"} -> 5 * Unit + 1
    [] op = "scatterv" -> 4 * Unit + 1
    [] op = "alltoallv" -> Unit + 1
    [] op = "bcast" -> 2 * Unit + 1
    [] OTHER -> 0

Number(s, t) == IF op = "bcast" /\ ~args[s].buffer THEN NO_BUF_ON_ROOT ELSE amount[s][t]

Sends(s) == op \in Scatters \cup Bcasts => IsRoot(s)

Vector == {"allgatherv", "alltoallv"}

(* What the k-th collective of a rank sends and expects: one element each before the    *)
(* data, the messages with the last one.                                                *)
DataEntryOK(r, k, e) ==
  /\ k < Len(Kinds(Computes(r))) =>
       /\ \A s \in Senders(e.kind, e.root, r) : e.want[s] = 1
       /\ \A t \in Rank : Len(e.out[t]) = 1
       /\ k = NumberAt /\ Computes(r) /\ Sends(r) => \A t \in Rank : e.out[t] = <<Number(r, t)>>
  /\ k = Len(Kinds(Computes(r))) =>
       /\ \A s \in Sources(r) : e.want[s] = amount[s][r]
       /\ Sends(r) => \A t \in Rank : e.out[t] = Payload(r, t)

LocalInv(r) ==
  /\ at[r] \in Locations \ {"return"} => buf[r] = InitialBuf(r)
  /\ op \in Vector /\ at[r] \in {"recv displs", "data"} => counts[r] = Due(r)
  /\ at[r] = "return" => buf[r] = Filled(r) /\ (Sources(r) # {} => displs[r] = DueDispls(r))
  /\ at[r] = "returned" => buf[r] = Done(r)
  /\ at[r] \in {"return", "returned"} => Needed(r) <= SizeAfter(r)

(* Why a rank may stop alone, and why it may be told to.                                *)
MayAbort(r) ==
  \/ ~NonEmpty
  \/ Receives(r) /\ Needed(r) > SizeAfter(r)
  \/ args[r].slack # 0
  \/ op = "bcast" /\ IsRoot(r) /\ ~args[r].buffer /\ ~Disagreement

MayReject == Disagreement \/ \E s \in Rank : IsRoot(s) /\ ~args[s].buffer

FaultInv(r) == (at[r] = "aborted" => MayAbort(r)) /\ (at[r] = "rejected" => MayReject)

DataOK(r) ==
  /\ \A k \in 1 .. Len(calls[r]) : DataEntryOK(r, k, calls[r][k])
  /\ LocalInv(r)
  /\ FaultInv(r)

DataInv ==
  /\ ShapeInv
  /\ DOMAIN counts = Rank /\ DOMAIN displs = Rank
  /\ \A r \in Rank : DataOK(r)

--------------------------------------------------------------------------------
(* What a step leaves alone: the promise, and with it the outcome           *)

(* The place of a message as a sum of the lengths before it.                *)
Lengths(r) == [t \in DOMAIN Promised(r) |-> Len(Promised(r)[t])]

PlaceForm ==
  \A r, s : Place(r, s) = IF args[r].recv_displs = "omitted"
                          THEN Sum(Lengths(r), {t \in DOMAIN Lengths(r) : t < s})
                          ELSE GivenRecvDispls(Lengths(r))[s]

(* Places are displacements of the arguments or of the counts due, and nothing else. *)
LEMMA PlaceHasForm == PlaceForm
BY Zenon DEF PlaceForm, Place, Lengths, Sum

(* What the call is about does not change.                                  *)
LEMMA PromiseStays ==
  ASSUME UNCHANGED <<op, light, amount, args>>
  PROVE  /\ \A r : Sources(r)' = Sources(r) /\ Due(r)' = Due(r) /\ DueDispls(r)' = DueDispls(r)
         /\ \A r : Promised(r)' = Promised(r) /\ (Receives(r)' <=> Receives(r)) /\ (Sends(r)' <=> Sends(r))
         /\ \A r, s : Payload(r, s)' = Payload(r, s) /\ Place(r, s)' = Place(r, s)
         /\ \A r, s : Number(r, s)' = Number(r, s)
         /\ \A r : Needed(r)' = Needed(r) /\ Size(r)' = Size(r)
         /\ NumberAt' = NumberAt
<1>1. op' = op /\ light' = light /\ amount' = amount /\ args' = args
  OBVIOUS
<1>2. \A r : Root(r)' = Root(r) /\ (IsRoot(r)' <=> IsRoot(r))
  BY <1>1 DEF Root, IsRoot
<1>3. \A s, t : Msg(s, t)' = Msg(s, t)
  BY <1>1 DEF Msg
<1>4. \A r : Sources(r)' = Sources(r)
  BY <1>1, <1>2 DEF Sources
<1>5. \A r : Due(r)' = Due(r)
  BY <1>1, <1>4 DEF Due
<1>6. \A r, s : Payload(r, s)' = Payload(r, s)
  BY <1>1, <1>3 DEF Payload
<1>7. \A r : Promised(r)' = Promised(r)
  BY <1>1, <1>2, <1>3 DEF Promised
<1>8. \A r : DueDispls(r)' = DueDispls(r)
  BY <1>1, <1>2, <1>5, Zenon DEF DueDispls, Scan, Rev
<1>9. \A r, s : Place(r, s)' = Place(r, s)
  <2> SUFFICES ASSUME NEW r, NEW s
               PROVE  Place(r, s)' = Place(r, s)
    OBVIOUS
  <2>1. PlaceForm /\ PlaceForm'
    BY PlaceHasForm, PTL
  <2>2. Lengths(r)' = Lengths(r)
    BY <1>7 DEF Lengths
  <2> QED BY <1>1, <2>1, <2>2, Zenon DEF PlaceForm
<1>10. \A r : Needed(r)' = Needed(r)
  BY <1>7, <1>9, Zenon DEF Needed
<1>11. \A r : Size(r)' = Size(r)
  BY <1>1, ArgumentsStay DEF Size
<1>12. \A r : Receives(r)' <=> Receives(r)
  BY <1>1, <1>2, <1>7 DEF Receives
<1>13. \A r : Sends(r)' <=> Sends(r)
  BY <1>1, <1>2 DEF Sends
<1>14. \A r, s : Number(r, s)' = Number(r, s)
  BY <1>1 DEF Number
<1>15. NumberAt' = NumberAt
  BY <1>1 DEF NumberAt, Unit
<1> QED BY <1>2, <1>4, <1>5, <1>6, <1>7, <1>8, <1>9, <1>10, <1>11, <1>12, <1>13, <1>14, <1>15, Zenon

(* Nor does what it leaves behind.                                          *)
LEMMA OutcomeStays ==
  ASSUME UNCHANGED <<op, light, amount, args>>
  PROVE  /\ \A r : SizeAfter(r)' = SizeAfter(r) /\ Filled(r)' = Filled(r) /\ Done(r)' = Done(r)
         /\ Disagreement' <=> Disagreement
         /\ NonEmpty' <=> NonEmpty
         /\ \A r : MayAbort(r)' <=> MayAbort(r)
         /\ MayReject' <=> MayReject
         /\ ShapeInv' <=> ShapeInv
<1>1. op' = op /\ light' = light /\ amount' = amount /\ args' = args
  OBVIOUS
<1>2. \A r : Root(r)' = Root(r) /\ (IsRoot(r)' <=> IsRoot(r)) /\ Computes(r)' = Computes(r)
  BY <1>1 DEF Root, IsRoot, Computes
<1>3. \A r : /\ Needed(r)' = Needed(r) /\ Size(r)' = Size(r) /\ (Receives(r)' <=> Receives(r))
             /\ InitialBuf(r)' = InitialBuf(r) /\ Sources(r)' = Sources(r) /\ DueDispls(r)' = DueDispls(r)
  BY ArgumentsStay, PromiseStays
<1>4. \A r : SizeAfter(r)' = SizeAfter(r)
  <2> SUFFICES ASSUME NEW r
               PROVE  SizeAfter(r)' = SizeAfter(r)
    OBVIOUS
  <2> DEFINE p == args[r].policy
             n == Needed(r)
             z == Size(r)
             w == Receives(r)
  <2>1. p' = p /\ n' = n /\ z' = z /\ (w' <=> w)
    BY <1>1, <1>3
  <2>2. SizeAfter(r) = IF ~w THEN z ELSE CASE p = "resize_to_fit" -> n
                                           [] p = "grow_only"     -> IF z < n THEN n ELSE z
                                           [] p = "no_resize"     -> z
    BY Zenon DEF SizeAfter
  <2>3. SizeAfter(r)' = IF ~w' THEN z' ELSE CASE p' = "resize_to_fit" -> n'
                                              [] p' = "grow_only"     -> IF z' < n' THEN n' ELSE z'
                                              [] p' = "no_resize"     -> z'
    BY Zenon DEF SizeAfter
  <2> HIDE DEF p, n, z, w
  <2>4. CASE w
    BY <2>1, <2>2, <2>3, <2>4, Zenon
  <2>5. CASE ~w
    BY <2>1, <2>2, <2>3, <2>5, Zenon
  <2> QED BY <2>4, <2>5
<1>5. \A r : Filled(r)' = Filled(r)
  BY <1>1, <1>3, Zenon DEF Filled
<1>6. \A r : Done(r)' = Done(r)
  BY <1>3, <1>5, PromiseStays, Zenon DEF Done
<1>7. Disagreement' <=> Disagreement
  BY <1>1, <1>2 DEF Disagreement
<1>8. \A r : SendBuf(r)' = SendBuf(r)
  BY <1>1, Zenon DEF SendBuf, Msg
<1>9. NonEmpty' <=> NonEmpty
  BY <1>1, <1>8, Zenon DEF NonEmpty
<1>10. \A r : MayAbort(r)' <=> MayAbort(r)
  BY <1>1, <1>2, <1>3, <1>4, <1>7, <1>9, Zenon DEF MayAbort
<1>11. MayReject' <=> MayReject
  BY <1>1, <1>2, <1>7 DEF MayReject
<1>12. ShapeInv' <=> ShapeInv
  BY <1>1, <1>2, <1>7 DEF ShapeInv
<1> QED BY <1>4, <1>5, <1>6, <1>7, <1>9, <1>10, <1>11, <1>12, Zenon

--------------------------------------------------------------------------------
(* What the chains of collectives carry, and who has entered them           *)

(* The wrappers that find counts nobody gave.                               *)
Numbering == {"gatherv", "allgatherv", "scatter", "scatterv", "alltoallv", "bcast"}

(* A chain ends with the collective that moves the data, from the ranks the *)
(* promise names.                                                           *)
LEMMA DataMoves ==
  ASSUME ControlInv, NEW r \in Rank
  PROVE  \E l, kind : /\ kind # Compare /\ Moves(r, l, kind, "return")
                      /\ Senders(kind, Root(r), r) = Sources(r)
<1>1. op \in WrapperOps
  BY DEF ControlInv, ArgsInv
<1>2. Compare \notin {"MPI_Gather", "MPI_Gatherv", "MPI_Allgather", "MPI_Allgatherv", "MPI_Scatter",
                      "MPI_Scatterv", "MPI_Alltoall", "MPI_Alltoallv", "MPI_Bcast"}
  BY DEF Compare
<1>3. CASE op \in Gathers
  <2>1. \A kind \in {"MPI_Gather", "MPI_Gatherv"} : Senders(kind, Root(r), r) = Sources(r)
    BY <1>3 DEF Senders, Sources, IsRoot
  <2>2. \E kind \in {"MPI_Gather", "MPI_Gatherv"} : Moves(r, "data", kind, "return")
    BY <1>3, GatherChain, GathervChain DEF Gathers
  <2> QED BY <1>2, <2>1, <2>2
<1>4. CASE op \in Scatters
  <2>1. \A kind \in {"MPI_Scatter", "MPI_Scatterv"} : Senders(kind, Root(r), r) = Sources(r)
    BY <1>4, OpsApart DEF Senders, Sources
  <2>2. \E kind \in {"MPI_Scatter", "MPI_Scatterv"} : Moves(r, "data", kind, "return")
    BY <1>4, ScatterChain, ScattervChain DEF Scatters
  <2> QED BY <1>2, <2>1, <2>2
<1>5. CASE op \in Bcasts
  <2>1. Senders("MPI_Bcast", Root(r), r) = Sources(r)
    BY <1>5, OpsApart DEF Senders, Sources
  <2>2. \E l : Moves(r, l, "MPI_Bcast", "return")
    BY <1>5, BcastChains DEF Bcasts
  <2> QED BY <1>2, <2>1, <2>2
<1>6. CASE op \in Exchanges \cup {"allgather", "allgatherv", "allgather_inplace"}
  <2>1. \A kind \in {"MPI_Allgather", "MPI_Allgatherv", "MPI_Alltoall", "MPI_Alltoallv"} :
          Senders(kind, Root(r), r) = Sources(r)
    <3>1. op \notin Gathers /\ op \notin Scatters \cup Bcasts
      BY <1>6, OpsApart
    <3> QED BY <3>1 DEF Senders, Sources
  <2>2. \E l : \E kind \in {"MPI_Allgather", "MPI_Allgatherv", "MPI_Alltoall", "MPI_Alltoallv"} :
          Moves(r, l, kind, "return")
    BY <1>6, AllgatherChain, AllgatherInplaceChain, AllgathervChain, AlltoallChain, AlltoallvChain DEF Exchanges
  <2> QED BY <1>2, <2>1, <2>2
<1> QED BY <1>1, <1>3, <1>4, <1>5, <1>6, OpsApart

(* The collective that finds the counts comes before, from the same ranks.  *)
LEMMA NumberMoves ==
  ASSUME ControlInv, NEW r \in Rank, op \in Numbering, Computes(r)
  PROVE  /\ \E l, kind, next : /\ kind # Compare /\ Moves(r, l, kind, next) /\ Pos(r, next) = NumberAt
                               /\ Senders(kind, Root(r), r) = Sources(r)
         /\ NumberAt \in Nat \ {0} /\ NumberAt <= Pos(r, "data")
<1>1. Compare \notin {"MPI_Gather", "MPI_Allgather", "MPI_Scatter", "MPI_Alltoall", "MPI_Bcast"}
  BY DEF Compare
<1>2. Unit \in Nat /\ Unit + 1 \in Nat \ {0} /\ Unit + 1 <= 3 * Unit + 1
  BY DEF Unit
<1>3. CASE op = "gatherv"
  <2>1. Senders("MPI_Gather", Root(r), r) = Sources(r)
    BY <1>3 DEF Senders, Sources, IsRoot, Gathers
  <2>2. Moves(r, "exchange", "MPI_Gather", "data")
    BY <1>3, GathervChain
  <2>3. Pos(r, "data") = 3 * Unit + 1 /\ NumberAt = 3 * Unit + 1
    BY <1>3 DEF Pos, Position, NumberAt
  <2> QED BY <1>1, <1>2, <2>1, <2>2, <2>3
<1>4. CASE op = "allgatherv"
  <2>1. Senders("MPI_Allgather", Root(r), r) = Sources(r)
    BY <1>4, OpsApart DEF Senders, Sources
  <2>2. Moves(r, "exchange", "MPI_Allgather", "displs")
    BY <1>4, AllgathervChain
  <2>3. Pos(r, "displs") = 2 * Unit + 1 /\ Pos(r, "data") = 3 * Unit + 1 /\ NumberAt = 2 * Unit + 1
    BY <1>4 DEF Pos, Position, NumberAt
  <2>4. NumberAt \in Nat \ {0} /\ NumberAt <= Pos(r, "data")
    BY <1>2, <2>3
  <2> QED BY <1>1, <2>1, <2>2, <2>3, <2>4
<1>5. CASE op = "scatter"
  <2>1. Senders("MPI_Bcast", Root(r), r) = Sources(r)
    BY <1>5, OpsApart DEF Senders, Sources
  <2>2. Moves(r, "value", "MPI_Bcast", "data")
    BY <1>5, ScatterChain
  <2>3. Pos(r, "data") = 5 * Unit + 1 /\ NumberAt = 5 * Unit + 1
    BY <1>5 DEF Pos, Position, NumberAt
  <2> QED BY <1>1, <1>2, <2>1, <2>2, <2>3
<1>6. CASE op = "scatterv"
  <2>1. Senders("MPI_Scatter", Root(r), r) = Sources(r)
    BY <1>6, OpsApart DEF Senders, Sources
  <2>2. Moves(r, "exchange", "MPI_Scatter", "data")
    BY <1>6, ScattervChain
  <2>3. Pos(r, "data") = 4 * Unit + 1 /\ NumberAt = 4 * Unit + 1
    BY <1>6 DEF Pos, Position, NumberAt
  <2> QED BY <1>1, <1>2, <2>1, <2>2, <2>3
<1>7. CASE op = "alltoallv"
  <2>1. Senders("MPI_Alltoall", Root(r), r) = Sources(r)
    BY <1>7, OpsApart DEF Senders, Sources
  <2>2. Moves(r, "exchange", "MPI_Alltoall", "send displs")
    BY <1>7, AlltoallvChain
  <2>3. Pos(r, "send displs") = Unit + 1 /\ Pos(r, "data") = 3 * Unit + 1 /\ NumberAt = Unit + 1
    BY <1>7 DEF Pos, Position, NumberAt
  <2>4. NumberAt \in Nat \ {0} /\ NumberAt <= Pos(r, "data")
    BY <1>2, <2>3
  <2> QED BY <1>1, <2>1, <2>2, <2>3, <2>4
<1>8. CASE op = "bcast"
  <2>1. Senders("MPI_Bcast", Root(r), r) = Sources(r)
    BY <1>8, OpsApart DEF Senders, Sources
  <2>2. Moves(r, "count", "MPI_Bcast", "data")
    BY <1>8, BcastChain
  <2>3. Pos(r, "data") = 2 * Unit + 1 /\ NumberAt = 2 * Unit + 1
    BY <1>8 DEF Pos, Position, NumberAt
  <2> QED BY <1>1, <1>2, <2>1, <2>2, <2>3
<1> QED BY <1>3, <1>4, <1>5, <1>6, <1>7, <1>8 DEF Numbering

(* Where the data and the counts are in the chain.                          *)
LEMMA ChainShape ==
  ASSUME ControlInv, NEW r \in Rank
  PROVE  LET K == Kinds(Computes(r))
         IN  /\ Len(K) \in Nat \ {0} /\ K[Len(K)] # Compare /\ Senders(K[Len(K)], Root(r), r) = Sources(r)
             /\ op \in Numbering /\ Computes(r) =>
                  /\ NumberAt \in 1 .. Len(K) - 1 /\ K[NumberAt] # Compare
                  /\ Senders(K[NumberAt], Root(r), r) = Sources(r)
<1> DEFINE c == Computes(r)
           K == Kinds(c)
<1>1. Len(K) \in Nat
  BY KindsLength
<1>2. \A l : Pos(r, l) \in Int
  BY <1>1 DEF Pos, Position, Unit
<1>3. Pos(r, "return") = Len(K)
  BY DEF Pos, Position
<1>4. PICK l, kind : /\ kind # Compare /\ Moves(r, l, kind, "return")
                     /\ Senders(kind, Root(r), r) = Sources(r)
  BY DataMoves
<1>5. K[Len(K)] = kind
  BY <1>2, <1>3, <1>4 DEF Moves
<1>7. Len(K) # 0
  BY <1>1 DEF Kinds
<1>8. ASSUME op \in Numbering, Computes(r)
      PROVE  /\ NumberAt \in 1 .. Len(K) - 1 /\ K[NumberAt] # Compare
             /\ Senders(K[NumberAt], Root(r), r) = Sources(r)
  <2>1. PICK l2, kind2, next : /\ kind2 # Compare /\ Moves(r, l2, kind2, next) /\ Pos(r, next) = NumberAt
                               /\ Senders(kind2, Root(r), r) = Sources(r)
    BY <1>8, NumberMoves
  <2>2. NumberAt \in Nat \ {0} /\ NumberAt <= Pos(r, "data")
    BY <1>8, NumberMoves
  <2>3. Moves(r, "data", K[Len(K)], "return")
    <3>1. op = "gatherv" => Moves(r, "data", "MPI_Gatherv", "return")
      BY GathervChain
    <3>2. op = "allgatherv" => Moves(r, "data", "MPI_Allgatherv", "return")
      BY AllgathervChain
    <3>3. op = "scatter" => Moves(r, "data", "MPI_Scatter", "return")
      BY ScatterChain
    <3>4. op = "scatterv" => Moves(r, "data", "MPI_Scatterv", "return")
      BY ScattervChain
    <3>5. op = "alltoallv" => Moves(r, "data", "MPI_Alltoallv", "return")
      BY AlltoallvChain
    <3>6. op = "bcast" => Moves(r, "data", "MPI_Bcast", "return")
      BY <1>8, BcastChain
    <3>7. PICK k : Moves(r, "data", k, "return")
      BY <1>8, <3>1, <3>2, <3>3, <3>4, <3>5, <3>6 DEF Numbering
    <3> QED BY <1>2, <1>3, <3>7 DEF Moves
  <2>4. Pos(r, "data") + 1 = Len(K)
    BY <1>3, <2>3 DEF Moves
  <2>5. K[NumberAt] = kind2
    BY <1>2, <2>1 DEF Moves
  <2> QED BY <1>1, <1>2, <2>1, <2>2, <2>4, <2>5
<1> QED BY <1>1, <1>4, <1>5, <1>7, <1>8

(* Two ranks in a collective that is not a comparison agree on what they    *)
(* compared before it.                                                      *)
LEMMA Alike ==
  ASSUME ControlInv, NEW r \in Rank, NEW s \in Rank,
         NEW k \in 1 .. Len(calls[r]), k <= Len(calls[s]), Kinds(Computes(r))[k] # Compare
  PROVE  Root(s) = Root(r) /\ Computes(s) = Computes(r)
<1>1. ArgsInv
  BY DEF ControlInv
<1>2. Root(s) = Root(r)
  BY KindsMatch
<1>3. Len(calls[r]) \in Nat /\ k \in Nat /\ k >= 1 /\ k <= Len(calls[r])
  BY DEF ControlInv, TraceInv, IsSequence
<1>4. \A i \in 1 .. Len(calls[r]) - 1 : Kinds(Computes(r))[i] = Compare => Known(r, i)
  BY DEF ControlInv, KnownInv
<1>5. Computes(r) \in BOOLEAN /\ Computes(s) \in BOOLEAN
  BY DEF Computes
<1>6. CASE ~light \/ op \notin Comparing
  BY <1>1, <1>2, <1>5, <1>6 DEF ArgsInv
<1>7. CASE op \in {"gather", "allgather"}
  BY <1>1, <1>2, <1>5, <1>7 DEF ArgsInv
<1>8. CASE light /\ op \in {"gatherv", "scatter", "scatterv", "bcast"}
  <2>1. Kinds(Computes(r))[1] = Compare /\ Kinds(Computes(r))[2] = Compare
    BY <1>8 DEF Kinds
  <2>2. k # 1 /\ k # 2
    BY <2>1
  <2>3. 2 \in 1 .. Len(calls[r]) - 1
    BY <1>3, <2>2
  <2>4. Known(r, 2)
    BY <1>4, <2>1, <2>3
  <2> QED BY <1>1, <1>2, <1>8, <2>4, SharedAfter
<1>9. CASE light /\ op \in {"allgatherv", "alltoallv"}
  <2>1. Kinds(Computes(r))[1] = Compare
    BY <1>9 DEF Kinds
  <2>2. k # 1
    BY <2>1
  <2>3. 1 \in 1 .. Len(calls[r]) - 1
    BY <1>3, <2>2
  <2>4. Known(r, 1)
    BY <1>4, <2>1, <2>3
  <2> QED BY <1>1, <1>2, <1>9, <2>4, SharedAfter
<1> QED BY <1>6, <1>7, <1>8, <1>9 DEF Comparing

(* What a rank hears in such a collective from those who send to it.        *)
LEMMA Heard ==
  ASSUME ControlInv, NEW r \in Rank, CanLeave(r), NEW k \in Nat \ {0}, Len(calls[r]) = k,
         Kinds(Computes(r))[k] # Compare, Senders(Kinds(Computes(r))[k], Root(r), r) = Sources(r)
  PROVE  /\ Delivered(r) = [s \in Sources(r) |-> calls[s][k].out[r]]
         /\ \A s \in Sources(r) : /\ s \in Rank /\ k \in 1 .. Len(calls[s])
                                  /\ Root(s) = Root(r) /\ Computes(s) = Computes(r) /\ Sends(s)
<1>1. k \in 1 .. Len(calls[r]) /\ calls[r] # << >> /\ Last(calls[r]) = calls[r][k]
  BY DEF Last
<1>2. EntryOK(r, k, calls[r][k])
  BY <1>1 DEF ControlInv, TraceInv
<1>3. SendersOf(r) = Sources(r)
  BY <1>1, <1>2 DEF SendersOf, EntryOK
<1>4. Delivered(r) = [s \in Sources(r) |-> calls[s][k].out[r]]
  BY <1>3 DEF Delivered
<1>5. ASSUME NEW s \in Sources(r)
      PROVE  /\ s \in Rank /\ k \in 1 .. Len(calls[s])
             /\ Root(s) = Root(r) /\ Computes(s) = Computes(r) /\ Sends(s)
  <2>1. s \in Rank
    BY SourcesAre DEF ControlInv
  <2>2. k <= Len(calls[s]) /\ Len(calls[s]) \in Nat
    BY <1>3, <2>1 DEF CanLeave, ControlInv, TraceInv, IsSequence
  <2>3. Root(s) = Root(r) /\ Computes(s) = Computes(r)
    BY <1>1, <2>1, <2>2, Alike
  <2>4. op \in Scatters \cup Bcasts => s = Root(r)
    BY SourcesAre DEF ControlInv
  <2>5. Sends(s)
    BY <2>3, <2>4 DEF Sends, IsRoot
  <2> QED BY <2>1, <2>2, <2>3, <2>5
<1> QED BY <1>4, <1>5

(* The counts that were found are those of the messages.                    *)
LEMMA NumbersAre ==
  ASSUME ControlInv, DataInv, NEW r \in Rank, op \in Numbering, Computes(r),
         Len(calls[r]) = NumberAt, CanLeave(r)
  PROVE  Numbers(r) = [s \in Sources(r) |-> Number(s, r)]
<1> DEFINE k == NumberAt
           K == Kinds(Computes(r))
<1>1. /\ Len(K) \in Nat \ {0} /\ k \in 1 .. Len(K) - 1 /\ K[k] # Compare
      /\ Senders(K[k], Root(r), r) = Sources(r)
  BY ChainShape
<1>2. k \in Nat \ {0} /\ k < Len(K)
  <2>1. \A n, x : n \in Nat \ {0} /\ x \in 1 .. n - 1 => x \in Nat \ {0} /\ x < n
    OBVIOUS
  <2> QED BY <1>1, <2>1
<1>3. /\ Delivered(r) = [s \in Sources(r) |-> calls[s][k].out[r]]
      /\ \A s \in Sources(r) : /\ s \in Rank /\ k \in 1 .. Len(calls[s])
                               /\ Root(s) = Root(r) /\ Computes(s) = Computes(r) /\ Sends(s)
  BY <1>1, <1>2, Heard
<1>4. ASSUME NEW s \in Sources(r)
      PROVE  calls[s][k].out[r] = <<Number(s, r)>>
  <2>1. DataEntryOK(s, k, calls[s][k])
    BY <1>3 DEF DataInv, DataOK
  <2>2. k < Len(Kinds(Computes(s)))
    BY <1>2, <1>3
  <2> QED BY <1>3, <2>1, <2>2 DEF DataEntryOK
<1>5. \A s \in Sources(r) : Delivered(r)[s] = <<Number(s, r)>>
  BY <1>3, <1>4
<1>6. DOMAIN Delivered(r) = Sources(r)
  BY <1>3
<1>7. \A s \in Sources(r) : Delivered(r)[s][1] = Number(s, r)
  BY <1>5
<1> QED BY <1>6, <1>7, Zenon DEF Numbers

(* The data that arrives is what the promise names.                         *)
LEMMA DeliveredIs ==
  ASSUME ControlInv, DataInv, NEW r \in Rank, at[r] = "return", CanLeave(r)
  PROVE  Delivered(r) = [s \in Sources(r) |-> Payload(s, r)]
<1> DEFINE K == Kinds(Computes(r))
           k == Len(K)
<1>1. k \in Nat \ {0} /\ K[k] # Compare /\ Senders(K[k], Root(r), r) = Sources(r)
  BY ChainShape
<1>2. Len(calls[r]) = k
  BY DEF ControlInv, TraceInv, Failed, Position
<1>3. /\ Delivered(r) = [s \in Sources(r) |-> calls[s][k].out[r]]
      /\ \A s \in Sources(r) : /\ s \in Rank /\ k \in 1 .. Len(calls[s])
                               /\ Root(s) = Root(r) /\ Computes(s) = Computes(r) /\ Sends(s)
  BY <1>1, <1>2, Heard
<1>4. ASSUME NEW s \in Sources(r)
      PROVE  calls[s][k].out[r] = Payload(s, r)
  <2>1. DataEntryOK(s, k, calls[s][k])
    BY <1>3 DEF DataInv, DataOK
  <2>2. k = Len(Kinds(Computes(s)))
    BY <1>3
  <2> QED BY <1>3, <2>1, <2>2 DEF DataEntryOK
<1> QED BY <1>3, <1>4

(* Between any two ranks in the same collective.                            *)
LEMMA DataCounts ==
  ASSUME ControlInv, DataInv
  PROVE  CountsMatch
<1> SUFFICES ASSUME NEW r \in Rank, NEW k \in DOMAIN calls[r],
                    NEW s \in Senders(calls[r][k].kind, calls[r][k].root, r), k \in DOMAIN calls[s]
             PROVE  Len(calls[s][k].out[r]) = calls[r][k].want[s]
  BY DEF CountsMatch
<1> DEFINE K == Kinds(Computes(r))
           e == calls[r][k]
<1>1. /\ k \in 1 .. Len(calls[r]) /\ Len(calls[r]) \in Nat /\ Len(calls[r]) <= Len(K)
      /\ EntryOK(r, k, e) /\ DataEntryOK(r, k, e)
  <2>1. IsSequence(calls[r])
    BY DEF ControlInv, TraceInv
  <2>2. k \in 1 .. Len(calls[r]) /\ Len(calls[r]) \in Nat
    BY <2>1 DEF IsSequence
  <2> QED BY <2>2 DEF ControlInv, TraceInv, DataInv, DataOK
<1>2. /\ Len(K) \in Nat \ {0} /\ K[Len(K)] # Compare /\ Senders(K[Len(K)], Root(r), r) = Sources(r)
  BY ChainShape
<1>3. e.kind = K[k] /\ e.root = (IF K[k] = Compare THEN 0 ELSE Root(r))
  BY <1>1 DEF EntryOK
<1>4. s \in Rank
  <2>1. Root(r) \in Rank /\ 0 \in Rank /\ r \in Rank
    BY RankIs DEF ControlInv, ArgsInv
  <2>2. 0 .. r \subseteq Rank /\ 0 .. r - 1 \subseteq Rank
    BY RankIs
  <2>3. e.root \in Rank
    BY <1>3, <2>1
  <2> QED BY <2>1, <2>2, <2>3 DEF Senders
<1>5. k \in 1 .. Len(calls[s]) /\ DataEntryOK(s, k, calls[s][k]) /\ Len(calls[s]) <= Len(Kinds(Computes(s)))
  <2>1. IsSequence(calls[s])
    BY <1>4 DEF ControlInv, TraceInv
  <2>2. k \in 1 .. Len(calls[s])
    BY <2>1 DEF IsSequence
  <2> QED BY <1>4, <2>2 DEF ControlInv, TraceInv, DataInv, DataOK
<1>6. k <= Len(calls[s]) /\ Len(calls[s]) \in Nat /\ k \in Nat
  BY <1>1, <1>4, <1>5 DEF ControlInv, TraceInv, IsSequence
<1>7. /\ K[k] = Kinds(Computes(s))[k]
      /\ K[k] # Compare => Root(s) = Root(r) /\ Computes(s) = Computes(r)
  BY <1>1, <1>4, <1>6, KindsMatch, Alike
<1>8. /\ Len(Kinds(Computes(s))) \in Nat \ {0}
      /\ Kinds(Computes(s))[Len(Kinds(Computes(s)))] # Compare
  BY <1>4, ChainShape
<1>9. CASE k < Len(K)
  <2>1. e.want[s] = 1
    BY <1>1, <1>9 DEF DataEntryOK
  <2>2. k < Len(Kinds(Computes(s)))
    <3>1. CASE K[k] = Compare
      <4>1. k # Len(Kinds(Computes(s)))
        BY <1>7, <1>8, <3>1
      <4> QED BY <1>5, <1>6, <1>8, <4>1
    <3>2. CASE K[k] # Compare
      BY <1>7, <1>9, <3>2
    <3> QED BY <3>1, <3>2
  <2>3. Len(calls[s][k].out[r]) = 1
    BY <1>5, <2>2 DEF DataEntryOK
  <2> QED BY <2>1, <2>3
<1>10. CASE k = Len(K)
  <2>1. K[k] # Compare /\ Root(s) = Root(r) /\ Computes(s) = Computes(r)
    BY <1>2, <1>7, <1>10
  <2>2. s \in Sources(r)
    BY <1>2, <1>3, <1>10, <2>1
  <2>3. e.want[s] = amount[s][r]
    BY <1>1, <1>10, <2>2 DEF DataEntryOK
  <2>4. op \in Scatters \cup Bcasts => s = Root(r)
    BY <2>2, SourcesAre DEF ControlInv
  <2>5. Sends(s)
    BY <2>1, <2>4 DEF Sends, IsRoot
  <2>6. calls[s][k].out[r] = Payload(s, r)
    BY <1>5, <1>10, <2>1, <2>5 DEF DataEntryOK
  <2>7. Len(Payload(s, r)) = amount[s][r]
    BY <1>4, PayloadIs DEF ControlInv, DataInv
  <2> QED BY <2>3, <2>6, <2>7
<1> QED BY <1>1, <1>2, <1>9, <1>10

--------------------------------------------------------------------------------
(* The steps of one rank, as they change its local variables                *)

(* What a step of a rank leaves alone.                                      *)
Beside(r) ==
  /\ OthersStay(r)
  /\ DOMAIN counts' = Rank /\ DOMAIN displs' = Rank
  /\ \A s \in Rank \ {r} : counts'[s] = counts[s] /\ displs'[s] = displs[s]

(* What an entry has to be does not change.                                 *)
LEMMA EntriesStay ==
  ASSUME UNCHANGED <<op, light, amount, args>>
  PROVE  /\ NumberAt' = NumberAt /\ amount' = amount
         /\ \A r : /\ Kinds(Computes(r))' = Kinds(Computes(r)) /\ Len(Kinds(Computes(r)))' = Len(Kinds(Computes(r)))
                   /\ (Computes(r)' <=> Computes(r)) /\ (Sends(r)' <=> Sends(r)) /\ Sources(r)' = Sources(r)
                   /\ \A t : Number(r, t)' = Number(r, t) /\ Payload(r, t)' = Payload(r, t)
<1>1. NumberAt' = NumberAt /\ amount' = amount
  BY PromiseStays
<1>2. \A r : Kinds(Computes(r))' = Kinds(Computes(r)) /\ (Computes(r)' <=> Computes(r))
  BY ArgumentsStay
<1>3. \A r : Len(Kinds(Computes(r)))' = Len(Kinds(Computes(r)))
  BY <1>2
<1>4. \A r : /\ (Sends(r)' <=> Sends(r)) /\ Sources(r)' = Sources(r)
             /\ \A t : Number(r, t)' = Number(r, t) /\ Payload(r, t)' = Payload(r, t)
  BY PromiseStays
<1> QED BY <1>1, <1>2, <1>3, <1>4

(* The other ranks keep to their part.                                      *)
LEMMA OthersData ==
  ASSUME ControlInv, DataInv, NEW r \in Rank, Beside(r), DataOK(r)'
  PROVE  DataInv'
<1>1. UNCHANGED <<op, light, amount, args>>
  BY DEF Beside, OthersStay
<1>2. ASSUME NEW s \in Rank \ {r}
      PROVE  DataOK(s)'
  <2>1. DataOK(s)
    BY DEF DataInv
  <2>2. at'[s] = at[s] /\ calls'[s] = calls[s] /\ buf'[s] = buf[s] /\ counts'[s] = counts[s] /\ displs'[s] = displs[s]
    BY DEF Beside, OthersStay, BufsStay
  <2>3. \A k \in 1 .. Len(calls'[s]) : DataEntryOK(s, k, calls[s][k])'
    <3> SUFFICES ASSUME NEW k \in 1 .. Len(calls[s])
                 PROVE  DataEntryOK(s, k, calls[s][k])'
      BY <2>2
    <3>1. DataEntryOK(s, k, calls[s][k])
      BY <2>1 DEF DataOK
    <3> DEFINE e == calls[s][k]
    <3>2. e' = e
      BY <2>2
    <3>3. DataEntryOK(s, k, e)
      BY <3>1
    <3> HIDE DEF e
    <3>4. DataEntryOK(s, k, e)'
      BY <1>1, <3>2, <3>3, EntriesStay, Zenon DEF DataEntryOK
    <3> QED BY <3>4 DEF e
  <2>4. LocalInv(s)'
    <3>1. /\ InitialBuf(s)' = InitialBuf(s) /\ Due(s)' = Due(s) /\ Filled(s)' = Filled(s) /\ Done(s)' = Done(s)
          /\ Sources(s)' = Sources(s) /\ DueDispls(s)' = DueDispls(s)
          /\ Needed(s)' = Needed(s) /\ SizeAfter(s)' = SizeAfter(s) /\ op' = op
      BY <1>1, ArgumentsStay, PromiseStays, OutcomeStays
    <3>2. LocalInv(s)
      BY <2>1 DEF DataOK
    <3> QED BY <2>2, <3>1, <3>2 DEF LocalInv
  <2>5. FaultInv(s)'
    <3>1. (MayAbort(s)' <=> MayAbort(s)) /\ (MayReject' <=> MayReject)
      BY <1>1, OutcomeStays
    <3>2. FaultInv(s)
      BY <2>1 DEF DataOK
    <3> QED BY <2>2, <3>1, <3>2 DEF FaultInv
  <2> QED BY <2>3, <2>4, <2>5 DEF DataOK
<1>3. ShapeInv'
  BY <1>1, OutcomeStays DEF DataInv
<1> QED BY <1>2, <1>3 DEF DataInv, Beside

(* A rank that enters a collective adds one entry.                          *)
LEMMA EntriesGrow ==
  ASSUME ControlInv, DataInv, NEW r \in Rank, UNCHANGED <<op, light, amount, args>>,
         NEW e, calls'[r] = Append(calls[r], e), DataEntryOK(r, Len(calls[r]) + 1, e)
  PROVE  \A k \in 1 .. Len(calls'[r]) : DataEntryOK(r, k, calls[r][k])'
<1> DEFINE n == Len(calls[r])
<1>1. IsSequence(calls[r]) /\ n \in Nat
  BY DEF ControlInv, TraceInv, IsSequence
<1>2. /\ Len(calls'[r]) = n + 1 /\ \A k \in 1 .. n : calls'[r][k] = calls[r][k]
      /\ calls'[r][n + 1] = e
  BY <1>1, AppendSequence
<1>3. \A k \in 1 .. n + 1 : DataEntryOK(r, k, calls'[r][k])
  <2> SUFFICES ASSUME NEW k \in 1 .. n + 1
               PROVE  DataEntryOK(r, k, calls'[r][k])
    OBVIOUS
  <2>1. CASE k = n + 1
    BY <1>2, <2>1
  <2>2. CASE k # n + 1
    <3>1. k \in 1 .. n
      BY <1>1, <2>2
    <3>2. DataEntryOK(r, k, calls[r][k])
      BY <3>1 DEF DataInv, DataOK
    <3> QED BY <1>2, <3>1, <3>2
  <2> QED BY <2>1, <2>2
<1>4. ASSUME NEW k \in 1 .. n + 1
      PROVE  DataEntryOK(r, k, calls[r][k])'
  <2> DEFINE f == calls'[r][k]
  <2>1. DataEntryOK(r, k, f)
    BY <1>3
  <2> QED BY <2>1, EntriesStay, Zenon DEF DataEntryOK
<1> QED BY <1>2, <1>4

(* A step before the data is there: the rank may learn its receive counts,  *)
(* which then are those of the messages.                                    *)
CountsKept(r, next) ==
  /\ UNCHANGED <<op, light, amount, args, displs, buf>>
  /\ DOMAIN counts' = Rank /\ \A s \in Rank \ {r} : counts'[s] = counts[s]
  /\ op \in Vector /\ next \in {"recv displs", "data"} => counts'[r] = Due(r)

Before == Locations \ {"return"}

(* A step that changes nothing of a rank but its location.                  *)
LEMMA BesideGo ==
  ASSUME ControlInv, DataInv, NEW r \in Rank, NEW next, CountsKept(r, next),
         \/ Go(r, next) /\ UNCHANGED calls
         \/ \E e : Enter(r, e, next)
  PROVE  Beside(r) /\ at'[r] = next
<1>1. DOMAIN at = Rank /\ DOMAIN calls = Rank /\ DOMAIN buf = Rank /\ DOMAIN displs = Rank
  BY DEF ControlInv, DataInv
<1>2. DOMAIN at' = Rank /\ at'[r] = next /\ \A s \in Rank \ {r} : at'[s] = at[s]
  BY <1>1 DEF Go, Enter
<1>3. DOMAIN calls' = Rank /\ \A s \in Rank \ {r} : calls'[s] = calls[s]
  BY <1>1 DEF Enter
<1>4. BufsStay(r)
  BY <1>1 DEF BufsStay, CountsKept
<1>5. OthersStay(r)
  BY <1>2, <1>3, <1>4 DEF OthersStay, CountsKept
<1> QED BY <1>1, <1>2, <1>5 DEF Beside, CountsKept

(* Before the data is there, or when the rank has failed.                   *)
LEMMA QuietData ==
  ASSUME ControlInv, DataInv, NEW r \in Rank, NEW next, CountsKept(r, next), Beside(r), at'[r] = next,
         at[r] \in Before, next \in Before \cup Failed,
         next = "aborted" => MayAbort(r), next = "rejected" => MayReject,
         \A k \in 1 .. Len(calls'[r]) : DataEntryOK(r, k, calls[r][k])'
  PROVE  DataInv'
<1>1. UNCHANGED <<op, light, amount, args>> /\ buf' = buf /\ op' = op
  BY DEF CountsKept
<1>2. next \notin {"return", "returned"}
  BY DEF Before, Failed, Locations
<1>3. buf[r] = InitialBuf(r)
  BY DEF DataInv, DataOK, LocalInv, Before
<1>4. LocalInv(r)'
  <2>1. InitialBuf(r)' = InitialBuf(r) /\ Due(r)' = Due(r)
    BY <1>1, ArgumentsStay, PromiseStays
  <2>2. op \in Vector /\ next \in {"recv displs", "data"} => counts'[r] = Due(r)
    BY DEF CountsKept
  <2> QED BY <1>1, <1>2, <1>3, <2>1, <2>2 DEF LocalInv
<1>5. FaultInv(r)'
  <2>1. (MayAbort(r)' <=> MayAbort(r)) /\ (MayReject' <=> MayReject)
    BY <1>1, OutcomeStays
  <2> QED BY <2>1 DEF FaultInv
<1>6. DataOK(r)'
  BY <1>4, <1>5 DEF DataOK
<1> QED BY <1>6, OthersData

(* A step that enters no collective.                                        *)
LEMMA GoData ==
  ASSUME ControlInv, DataInv, NEW r \in Rank, NEW next, Go(r, next), UNCHANGED calls, CountsKept(r, next),
         at[r] \in Before, next \in Before \cup Failed,
         next = "aborted" => MayAbort(r), next = "rejected" => MayReject
  PROVE  DataInv'
<1>1. Beside(r) /\ at'[r] = next
  BY BesideGo
<1>2. UNCHANGED <<op, light, amount, args>>
  BY DEF CountsKept
<1>3. \A k \in 1 .. Len(calls'[r]) : DataEntryOK(r, k, calls[r][k])'
  <2> SUFFICES ASSUME NEW k \in 1 .. Len(calls[r])
               PROVE  DataEntryOK(r, k, calls[r][k])'
    OBVIOUS
  <2> DEFINE e == calls[r][k]
  <2>1. DataEntryOK(r, k, e) /\ e' = e
    BY DEF DataInv, DataOK
  <2> HIDE DEF e
  <2>2. DataEntryOK(r, k, e)'
    BY <1>2, <2>1, EntriesStay, Zenon DEF DataEntryOK
  <2> QED BY <2>2 DEF e
<1> QED BY <1>1, <1>3, QuietData

(* A step that enters one before the data.                                  *)
LEMMA EnterData ==
  ASSUME ControlInv, DataInv, NEW r \in Rank, NEW next, NEW e, Enter(r, e, next), CountsKept(r, next),
         at[r] \in Before, next \in Before, DataEntryOK(r, Len(calls[r]) + 1, e)
  PROVE  DataInv'
<1>1. Beside(r) /\ at'[r] = next
  BY BesideGo
<1>2. UNCHANGED <<op, light, amount, args>> /\ calls'[r] = Append(calls[r], e)
  BY DEF CountsKept, Enter, ControlInv
<1>3. \A k \in 1 .. Len(calls'[r]) : DataEntryOK(r, k, calls[r][k])'
  BY <1>2, EntriesGrow
<1>4. next # "aborted" /\ next # "rejected"
  BY DEF Before, Locations
<1> QED BY <1>1, <1>3, <1>4, QuietData

(* An assertion that fails, for a reason.                                   *)
LEMMA FailData ==
  ASSUME ControlInv, DataInv, NEW r \in Rank, at[r] \in Before,
         (Abort(r) /\ MayAbort(r)) \/ (Reject(r) /\ MayReject),
         UNCHANGED local, UNCHANGED <<op, light, amount, args>>
  PROVE  DataInv'
<1>1. PICK next \in Failed : /\ Go(r, next) /\ UNCHANGED calls
                             /\ next = "aborted" => MayAbort(r)
                             /\ next = "rejected" => MayReject
  BY DEF Abort, Reject, Failed
<1>2. next \notin {"recv displs", "data"}
  BY DEF Failed
<1>3. CountsKept(r, next)
  BY <1>2 DEF CountsKept, local, DataInv
<1> QED BY <1>1, <1>3, GoData

(* Positions of a rank that runs.                                           *)
LEMMA RunsAt ==
  ASSUME ControlInv, NEW r \in Rank, NEW l \in Locations, at[r] = l
  PROVE  Len(calls[r]) = Pos(r, l) /\ Pos(r, l) \in Nat
<1>1. l \notin Failed
  BY DEF Failed, Locations
<1> QED BY <1>1 DEF ControlInv, TraceInv, IsSequence, Pos

(* A comparison is of one value each, and not where the counts are found.   *)
LEMMA AssertSameData ==
  ASSUME ControlInv, DataInv, NEW r \in Rank, NEW l \in Before, Runs(r, l),
         NEW v, NEW next \in Before, AssertSame(r, v, next), Comparison(r, l, v, next), CountsKept(r, next)
  PROVE  DataInv'
<1> DEFINE K == Kinds(Computes(r))
           n == Len(calls[r])
<1>1. at[r] = l /\ n = Pos(r, l) /\ n \in Nat
  BY RunsAt DEF Runs, Before
<1>2. CASE light
  <2>1. Enter(r, Same(v), next)
    BY <1>2 DEF AssertSame
  <2>2. n + 1 <= Len(K) /\ K[n + 1] = Compare
    BY <1>1, <1>2 DEF Comparison
  <2>3. /\ Len(K) \in Nat \ {0} /\ K[Len(K)] # Compare
        /\ op \in Numbering /\ Computes(r) => K[NumberAt] # Compare
    BY ChainShape
  <2>4. n + 1 < Len(K)
    BY <1>1, <2>2, <2>3
  <2>5. Computes(r) /\ n + 1 = NumberAt => FALSE
    <3>1. n + 1 # 0
      BY <1>1
    <3>2. Computes(r) => op # "scatter_single"
      BY DEF ControlInv, ArgsInv
    <3>3. op \notin Numbering \cup {"scatter_single"} => NumberAt = 0
      BY DEF NumberAt, Numbering
    <3> QED BY <2>2, <2>3, <3>1, <3>2, <3>3
  <2>6. DataEntryOK(r, n + 1, Same(v))
    <3>1. \A s \in Senders(Same(v).kind, Same(v).root, r) : s \in Rank
      BY DEF Senders, Same, Collective
    <3>2. (\A s \in Rank : Same(v).want[s] = 1) /\ (\A t \in Rank : Same(v).out[t] = <<v>>)
      BY DEF Same, Collective, ToAll
    <3>3. Len(<<v>>) = 1
      OBVIOUS
    <3>4. n + 1 # Len(K)
      BY <1>1, <2>3, <2>4
    <3> QED BY <2>5, <3>1, <3>2, <3>3, <3>4 DEF DataEntryOK
  <2> QED BY <1>1, <2>1, <2>6, EnterData
<1>3. CASE ~light
  <2>1. Go(r, next) /\ UNCHANGED calls
    BY <1>3 DEF AssertSame
  <2>2. next # "aborted" /\ next # "rejected"
    BY DEF Before, Locations
  <2> QED BY <1>1, <2>1, <2>2, GoData
<1> QED BY <1>2, <1>3

--------------------------------------------------------------------------------
(* The last collective, and the return                                      *)

(* A rank that enters the last collective, with the buffer the data is to   *)
(* be written to.                                                           *)
LEMMA LastData ==
  ASSUME ControlInv, DataInv, NEW r \in Rank, NEW l \in Before, Runs(r, l),
         NEW kind, kind # Compare, Moves(r, l, kind, "return"), NEW out, NEW want,
         Enter(r, Collective(kind, Root(r), out, want), "return"),
         UNCHANGED <<op, light, amount, args>>,
         BufsStay(r), buf'[r] = Filled(r),
         DOMAIN counts' = Rank, DOMAIN displs' = Rank,
         \A s \in Rank \ {r} : counts'[s] = counts[s] /\ displs'[s] = displs[s],
         Sources(r) # {} => displs'[r] = DueDispls(r),
         \A s \in Sources(r) : want[s] = amount[s][r],
         Sends(r) => \A t \in Rank : out[t] = Payload(r, t),
         Needed(r) <= SizeAfter(r)
  PROVE  DataInv'
<1> DEFINE e == Collective(kind, Root(r), out, want)
           n == Len(calls[r])
           K == Kinds(Computes(r))
<1>1. DOMAIN at = Rank /\ DOMAIN calls = Rank
  BY DEF ControlInv
<1>2. at'[r] = "return" /\ calls'[r] = Append(calls[r], e)
  BY <1>1 DEF Enter, Go
<1>3. Beside(r)
  <2>1. DOMAIN at' = Rank /\ DOMAIN calls' = Rank /\ \A s \in Rank \ {r} : at'[s] = at[s] /\ calls'[s] = calls[s]
    BY <1>1 DEF Enter, Go
  <2> QED BY <2>1 DEF Beside, OthersStay
<1>4. n + 1 = Len(K)
  <2>1. n = Pos(r, l)
    BY RunsAt DEF Runs, Before
  <2>2. Pos(r, "return") = Len(K)
    BY DEF Pos, Position
  <2> QED BY <2>1, <2>2 DEF Moves
<1>5. DataEntryOK(r, n + 1, e)
  <2>1. ~(n + 1 < Len(K))
    BY <1>4, KindsLength
  <2>2. e.want = want /\ e.out = out
    BY DEF Collective
  <2> QED BY <1>4, <2>1, <2>2 DEF DataEntryOK
<1>6. \A k \in 1 .. Len(calls'[r]) : DataEntryOK(r, k, calls[r][k])'
  BY <1>2, <1>5, EntriesGrow
<1>7. LocalInv(r)'
  <2>1. /\ Filled(r)' = Filled(r) /\ Sources(r)' = Sources(r) /\ DueDispls(r)' = DueDispls(r)
        /\ Needed(r)' = Needed(r) /\ SizeAfter(r)' = SizeAfter(r)
    BY PromiseStays, OutcomeStays
  <2>2. "return" \notin Locations \ {"return"} /\ "return" \notin {"recv displs", "data"} /\ "return" # "returned"
    OBVIOUS
  <2> QED BY <1>2, <2>1, <2>2 DEF LocalInv
<1>8. FaultInv(r)'
  BY <1>2 DEF FaultInv
<1> QED BY <1>3, <1>6, <1>7, <1>8, OthersData DEF DataOK

(* The buffer is resized as its policy says, or found to be too small.      *)
LEMMA ReceiveData ==
  ASSUME ControlInv, DataInv, NEW r \in Rank, NEW l \in Before, Runs(r, l), Receives(r),
         NEW kind, kind # Compare, Moves(r, l, kind, "return"), NEW out,
         NEW cs, cs = Due(r), NEW ds, ds = DueDispls(r), NEW need, need = Needed(r),
         Receive(r, cs, ds, need, Collective(kind, Root(r), out, cs)),
         Sends(r) => \A t \in Rank : out[t] = Payload(r, t),
         UNCHANGED <<op, light, amount, args>>
  PROVE  DataInv'
<1> DEFINE cells == ResizeIfRequested(buf[r], args[r].policy, need)
<1>1. ArgsInv /\ ShapeInv /\ at[r] = l
  BY DEF ControlInv, DataInv, Runs
<1>2. cells = Filled(r)
  <2>1. buf[r] = InitialBuf(r)
    BY <1>1 DEF DataInv, DataOK, LocalInv, Before
  <2> QED BY <2>1 DEF Filled
<1>3. Len(cells) = SizeAfter(r) /\ SizeAfter(r) \in Nat /\ Needed(r) \in Nat
  <2>1. IsSequence(Filled(r)) /\ Len(Filled(r)) = SizeAfter(r)
    BY <1>1, FilledIs
  <2>2. Needed(r) \in Nat
    BY <1>1, Layout
  <2> QED BY <1>2, <2>1, <2>2 DEF IsSequence
<1>4. \/ Len(cells) < need /\ Abort(r) /\ UNCHANGED local
      \/ /\ ~(Len(cells) < need)
         /\ counts' = [counts EXCEPT ![r] = cs]
         /\ displs' = [displs EXCEPT ![r] = ds]
         /\ buf' = [buf EXCEPT ![r] = cells]
         /\ Enter(r, Collective(kind, Root(r), out, cs), "return")
  BY DEF Receive
<1> HIDE DEF cells
<1>5. CASE Len(cells) < need /\ Abort(r) /\ UNCHANGED local
  <2>1. MayAbort(r)
    BY <1>3, <1>5 DEF MayAbort
  <2>2. at[r] \in Before
    BY <1>1
  <2>3. (Abort(r) /\ MayAbort(r)) \/ (Reject(r) /\ MayReject)
    BY <1>5, <2>1
  <2>4. UNCHANGED local
    BY <1>5
  <2> QED BY <2>2, <2>3, <2>4, FailData
<1>6. CASE /\ ~(Len(cells) < need)
           /\ counts' = [counts EXCEPT ![r] = cs]
           /\ displs' = [displs EXCEPT ![r] = ds]
           /\ buf' = [buf EXCEPT ![r] = cells]
           /\ Enter(r, Collective(kind, Root(r), out, cs), "return")
  <2>1. DOMAIN counts = Rank /\ DOMAIN displs = Rank /\ DOMAIN buf = Rank
    BY DEF ControlInv, DataInv
  <2>2. BufsStay(r) /\ buf'[r] = Filled(r)
    BY <1>2, <1>6, <2>1 DEF BufsStay
  <2>3. /\ DOMAIN counts' = Rank /\ DOMAIN displs' = Rank /\ displs'[r] = DueDispls(r)
        /\ \A s \in Rank \ {r} : counts'[s] = counts[s] /\ displs'[s] = displs[s]
    BY <1>6, <2>1
  <2>4. \A s \in Sources(r) : cs[s] = amount[s][r]
    BY <1>1, DueIs
  <2>5. Needed(r) <= SizeAfter(r)
    BY <1>3, <1>6
  <2> QED BY <1>6, <2>2, <2>3, <2>4, <2>5, LastData
<1> QED BY <1>4, <1>5, <1>6

(* Who receives from ranks is not the root of a broadcast.                  *)
LEMMA ReceivesFrom ==
  ASSUME ArgsInv, NEW r \in Rank
  PROVE  Receives(r) <=> Sources(r) # {} /\ ~(op \in Bcasts /\ IsRoot(r))
BY PromisedIs DEF Receives

(* The same number of elements from every rank.                             *)
LEMMA ReceiveEqualData ==
  ASSUME ControlInv, DataInv, NEW r \in Rank, NEW l \in Before, Runs(r, l),
         op \notin Scatters \cup Bcasts, Sources(r) = Rank, args[r].recv_displs = "omitted",
         NEW n \in Nat, \A s \in Rank : amount[s][r] = n,
         NEW kind, kind # Compare, Moves(r, l, kind, "return"), NEW out,
         ReceiveEqual(r, kind, out, n),
         Sends(r) => \A t \in Rank : out[t] = Payload(r, t),
         UNCHANGED <<op, light, amount, args>>
  PROVE  DataInv'
<1> DEFINE cs == [s \in Rank |-> n]
           ds == [s \in Rank |-> s * n]
<1>1. ArgsInv /\ ShapeInv
  BY DEF ControlInv, DataInv
<1>2. Receives(r)
  BY <1>1, ReceivesFrom, RankIs
<1>3. cs = Due(r)
  BY DEF Due
<1>4. \A s \in Rank : cs[s] = n
  OBVIOUS
<1>5. Receive(r, cs, ds, n * P, Collective(kind, Root(r), out, cs))
  BY DEF ReceiveEqual
<1> HIDE DEF cs
<1>6. /\ \A s \in Rank : Scan(cs)[s] = s * n
      /\ Sum(cs, Rank) = P * n /\ P * n \in Nat
  <2>1. \A s \in Rank : Scan(cs)[s] = s * n /\ s * n \in Nat
    BY <1>4, ScanConstant
  <2>2. Sum(cs, Rank) = P * n /\ P * n \in Nat
    BY <1>4, ScanConstant
  <2> QED BY <2>1, <2>2
<1>7. ds = DueDispls(r)
  BY <1>3, <1>6 DEF DueDispls, Scan
<1>8. n * P = Needed(r)
  <2>1. Needed(r) = P * n
    BY <1>1, <1>3, <1>6, Layout
  <2> QED BY <2>1, RankIs
<1> HIDE DEF ds
<1> QED BY <1>2, <1>3, <1>5, <1>7, <1>8, ReceiveData

(* A different number from each, where the displacements say.               *)
LEMMA ReceiveVectorData ==
  ASSUME ControlInv, DataInv, NEW r \in Rank, NEW l \in Before, Runs(r, l),
         op \notin Scatters \cup Bcasts, Sources(r) = Rank,
         NEW kind, kind # Compare, Moves(r, l, kind, "return"), NEW out, NEW cs, cs = Due(r),
         ReceiveVector(r, kind, out, cs),
         Sends(r) => \A t \in Rank : out[t] = Payload(r, t),
         UNCHANGED <<op, light, amount, args>>
  PROVE  DataInv'
<1> DEFINE computed == args[r].recv_displs = "omitted"
           ds == IF computed THEN ExclusiveScan(cs) ELSE GivenRecvDispls(cs)
           need == RequiredSize(cs, ds, computed)
<1>1. ArgsInv /\ ShapeInv
  BY DEF ControlInv, DataInv
<1>2. Receives(r)
  BY <1>1, ReceivesFrom, RankIs
<1>3. Receive(r, cs, ds, need, Collective(kind, Root(r), out, cs))
  BY DEF ReceiveVector
<1>4. ds = DueDispls(r)
  BY ScanIs, RevIs DEF DueDispls, GivenRecvDispls
<1>5. /\ \A s \in Rank : cs[s] \in Nat /\ ds[s] \in Nat /\ ds[s] + cs[s] <= Needed(r)
      /\ Needed(r) \in Nat
      /\ computed => Needed(r) = Sum(cs, Rank)
      /\ ~computed => Needed(r) = 1 + Sum(cs, Rank)
  <2>1. \A s \in Rank : cs[s] \in Nat
    BY <1>1, DueIs
  <2>2. \A s \in Rank : ds[s] \in Nat /\ ds[s] + cs[s] <= Needed(r)
    BY <1>1, <1>4, Layout
  <2> QED BY <1>1, <2>1, <2>2, Layout
<1> HIDE DEF ds
<1>6. need = Needed(r)
  <2>1. CASE computed
    <3>1. ds = Scan(cs)
      BY <1>4, <2>1 DEF DueDispls
    <3>2. ds[P - 1] + cs[P - 1] = Sum(cs, Rank)
      BY <1>5, <3>1, ScanOffsets
    <3>3. need = cs[P - 1] + ds[P - 1]
      BY <2>1 DEF RequiredSize
    <3>4. cs[P - 1] \in Nat /\ ds[P - 1] \in Nat
      BY <1>5, RankIs
    <3> QED BY <1>5, <2>1, <3>2, <3>3, <3>4
  <2>2. CASE ~computed
    <3> DEFINE S == {0} \cup {cs[s] + ds[s] : s \in Rank}
    <3>1. need = CHOOSE n \in S : \A s \in Rank : cs[s] + ds[s] <= n
      BY <2>2 DEF RequiredSize
    <3>2. ds[0] + cs[0] = 1 + Sum(cs, Rank)
      <4>1. Rev(cs)[0] + cs[0] = Sum(cs, Rank) /\ Rev(cs)[0] \in Nat
        BY <1>5, RankIs, RevOffsets
      <4>2. ds[0] = 1 + Rev(cs)[0]
        BY <1>4, <2>2, RankIs DEF DueDispls
      <4> QED BY <1>5, <4>1, <4>2, RankIs
    <3>3. cs[0] + ds[0] = Needed(r) /\ 0 \in Rank
      BY <1>5, <2>2, <3>2, RankIs
    <3>4. Needed(r) \in S /\ \A s \in Rank : cs[s] + ds[s] <= Needed(r)
      <4>1. \A s \in Rank : cs[s] + ds[s] = ds[s] + cs[s]
        BY <1>5
      <4> QED BY <1>5, <3>3, <4>1
    <3>5. \A n \in S : (\A s \in Rank : cs[s] + ds[s] <= n) => n = Needed(r)
      <4> SUFFICES ASSUME NEW n \in S, \A s \in Rank : cs[s] + ds[s] <= n
                   PROVE  n = Needed(r)
        OBVIOUS
      <4>1. n \in Nat /\ (n = 0 \/ n <= Needed(r))
        BY <1>5, <3>4
      <4>2. Needed(r) <= n
        BY <3>3
      <4> QED BY <1>5, <4>1, <4>2
    <3> HIDE DEF S
    <3> QED BY <3>1, <3>4, <3>5
  <2> QED BY <2>1, <2>2
<1> HIDE DEF need
<1> QED BY <1>2, <1>3, <1>4, <1>6, ReceiveData

(* A number of elements from the root.                                      *)
LEMMA ReceiveFromRootData ==
  ASSUME ControlInv, DataInv, NEW r \in Rank, NEW l \in Before, Runs(r, l),
         op \in Scatters \cup Bcasts, ~(op \in Bcasts /\ IsRoot(r)),
         NEW n, n = amount[Root(r)][r],
         NEW kind, kind # Compare, Moves(r, l, kind, "return"), NEW out,
         ReceiveFromRoot(r, kind, out, n),
         Sends(r) => \A t \in Rank : out[t] = Payload(r, t),
         UNCHANGED <<op, light, amount, args>>
  PROVE  DataInv'
<1> DEFINE cs == [s \in {Root(r)} |-> n]
           ds == [s \in {Root(r)} |-> 0]
<1>1. ArgsInv /\ ShapeInv
  BY DEF ControlInv, DataInv
<1>2. Sources(r) = {Root(r)}
  BY <1>1, SourcesAre
<1>3. Receives(r)
  BY <1>1, <1>2, ReceivesFrom
<1>4. cs = Due(r) /\ ds = DueDispls(r)
  BY <1>2 DEF Due, DueDispls
<1>5. n = Needed(r)
  BY <1>1, Layout
<1>6. Receive(r, cs, ds, n, Collective(kind, Root(r), out, cs))
  BY DEF ReceiveFromRoot
<1> HIDE DEF cs, ds
<1> QED BY <1>3, <1>4, <1>5, <1>6, ReceiveData

(* Who receives nothing needs no room.                                      *)
LEMMA SendOnlyData ==
  ASSUME ControlInv, DataInv, NEW r \in Rank, NEW l \in Before, Runs(r, l), Sources(r) = {},
         NEW kind, kind # Compare, Moves(r, l, kind, "return"), NEW out, SendOnly(r, kind, out),
         Sends(r) => \A t \in Rank : out[t] = Payload(r, t),
         UNCHANGED <<op, light, amount, args>>
  PROVE  DataInv'
<1>1. ArgsInv /\ ShapeInv /\ at[r] = l
  BY DEF ControlInv, DataInv, Runs
<1>2. ~Receives(r)
  BY <1>1, ReceivesFrom
<1>3. buf[r] = Filled(r)
  BY <1>1, <1>2 DEF DataInv, DataOK, LocalInv, Before, Filled
<1>4. Needed(r) = 0 /\ SizeAfter(r) = Size(r) /\ Size(r) \in Nat
  BY <1>1, <1>2, Layout, FilledIs DEF SizeAfter
<1>5. DOMAIN counts = Rank /\ DOMAIN displs = Rank /\ UNCHANGED <<counts, displs, buf>>
  BY DEF DataInv, SendOnly, local
<1>6. BufsStay(r) /\ buf'[r] = Filled(r)
  BY <1>3, <1>5, LocalStays
<1>7. Enter(r, Collective(kind, Root(r), out, None), "return")
  BY DEF SendOnly
<1>8. Needed(r) <= SizeAfter(r)
  BY <1>4
<1>9. \A s \in Sources(r) : None[s] = amount[s][r]
  OBVIOUS
<1> QED BY <1>5, <1>6, <1>7, <1>8, <1>9, LastData

(* Locations before the data.                                               *)
LEMMA BeforeIs ==
  /\ Before = {"call", "computes", "counts", "counts given", "exchange", "displs", "data", "buffer", "flag",
               "bcast", "bcast count", "value", "send displs", "recv displs", "root", "count", "given"}
  /\ Before \subseteq Locations
BY DEF Before, Locations

(* A step that leaves the local variables of all ranks alone keeps the counts known. *)
LEMMA KeepsCounts ==
  ASSUME ControlInv, DataInv, NEW r \in Rank, NEW next, UNCHANGED local,
         UNCHANGED <<op, light, amount, args>>,
         op \notin Vector \/ next \notin {"recv displs", "data"} \/ at[r] = "recv displs"
  PROVE  CountsKept(r, next)
<1>1. DOMAIN counts = Rank /\ UNCHANGED <<counts, displs, buf>>
  BY DEF DataInv, local
<1>2. op \in Vector /\ at[r] = "recv displs" => counts[r] = Due(r)
  BY DEF DataInv, DataOK, LocalInv
<1> QED BY <1>1, <1>2 DEF CountsKept

(* A step that sets the counts to those due keeps the counts known. *)
LEMMA SetsCounts ==
  ASSUME ControlInv, DataInv, NEW r \in Rank, NEW next, NEW cs, cs = Due(r),
         counts' = [counts EXCEPT ![r] = cs], UNCHANGED <<displs, buf>>,
         UNCHANGED <<op, light, amount, args>>
  PROVE  CountsKept(r, next)
BY DEF CountsKept, DataInv

(* The messages of the uniform wrappers.                                    *)
LEMMA UniformIs ==
  ASSUME ShapeInv
  PROVE  /\ op \in Uniform => \A s, t \in Rank : amount[s][t] = amount[0][0]
         /\ amount[0][0] \in Nat
         /\ \A s, t \in Rank : Len(Msg(s, t)) = amount[s][t] /\ amount[s][t] \in Nat
<1>1. amount \in [Rank -> [Rank -> Nat]]
  BY DEF ShapeInv
<1>2. op \in Uniform => \A s, t \in Rank : amount[s][t] = amount[0][0]
  BY DEF ShapeInv
<1> QED BY <1>1, <1>2, RankIs, MsgIs

(* A send buffer of equal blocks.                                           *)
LEMMA EqualBlocksOf ==
  ASSUME ShapeInv, ArgsInv, op \in {"alltoall", "scatter", "scatter_single"}, NEW s \in Rank
  PROVE  /\ Len(SendBuf(s)) \div P = amount[0][0] /\ Len(SendBuf(s)) % P = 0
         /\ EqualBlocks(s) = [t \in Rank |-> Msg(s, t)]
         /\ op = "scatter_single" => SingleBuffer(s)
<1> DEFINE m == [t \in Rank |-> Msg(s, t)]
           n == amount[0][0]
<1>1. op \in Uniform /\ op \notin Bcasts /\ op \notin {"alltoallv", "scatterv"}
  BY DEF Uniform, Bcasts
<1>2. amount \in [Rank -> [Rank -> Nat]] /\ n \in Nat /\ \A t \in Rank : amount[s][t] = n
  BY <1>1, UniformIs DEF ShapeInv
<1>3. \A t \in Rank : m[t] = Msg(s, t) /\ m[t] \in Seq(Cell) /\ Len(m[t]) = n
  BY <1>2, MsgIs
<1>4. args[s].send_displs = "omitted" /\ args[s].buffer
  BY <1>1 DEF ShapeInv
<1>5. SendBuf(s) = Ascending(m)
  BY <1>4, Zenon DEF SendBuf
<1>6. op = "scatter_single" => n = 1
  BY DEF ShapeInv
<1> HIDE DEF m, n
<1>7. /\ Len(Ascending(m)) = P * n
      /\ Len(Ascending(m)) \div P = n /\ Len(Ascending(m)) % P = 0
      /\ \A t \in Rank : Slice(Ascending(m), t * n, n) = m[t]
  BY <1>2, <1>3, EqualBlocksAre
<1>8. EqualBlocks(s) = [t \in Rank |-> Msg(s, t)]
  <2> DEFINE b == SendBuf(s)
             c == [t \in Rank |-> n]
             d == [t \in Rank |-> t * n]
  <2>1. EqualBlocks(s) = Blocks(s, c, d)
    BY <1>5, <1>7 DEF EqualBlocks
  <2>2. \A t \in Rank : c[t] = n /\ d[t] = t * n
    OBVIOUS
  <2> HIDE DEF c, d
  <2>3. \A t \in Rank : Slice(b, d[t], c[t]) = Msg(s, t)
    BY <1>3, <1>5, <1>7, <2>2
  <2> QED BY <2>1, <2>3, Zenon DEF Blocks
<1>9. op = "scatter_single" => SingleBuffer(s)
  BY <1>4, <1>5, <1>6, <1>7, RankIs DEF SingleBuffer
<1> QED BY <1>5, <1>7, <1>8, <1>9 DEF n

(* A message for all is the payload of every wrapper that sends one.        *)
LEMMA ToAllIs ==
  ASSUME op \notin Scatters \cup Exchanges, NEW r \in Rank
  PROVE  \A t \in Rank : ToAll(Msg(r, r))[t] = Payload(r, t)
BY DEF ToAll, Payload

(* The steps of gather.                                                     *)
LEMMA GatherData ==
  ASSUME ControlInv, DataInv, NEW r \in Rank, Gather(r), UNCHANGED <<op, light, amount, args>>
  PROVE  DataInv'
<1>1. op = "gather" /\ ArgsInv /\ ShapeInv
  BY DEF Gather, ControlInv, DataInv
<1>2. /\ op \notin Vector /\ op \notin Scatters \cup Bcasts /\ op \notin Scatters \cup Exchanges /\ op \in Uniform
      /\ op \in Gathers /\ op \notin {"gatherv", "allgatherv", "alltoallv"} /\ op \in Gathers
  BY <1>1 DEF Vector, Scatters, Bcasts, Exchanges, Uniform, Gathers
<1>3. "MPI_Gather" # Compare /\ {"call", "data"} \subseteq Before
  BY BeforeIs DEF Compare
<1>4. \A t \in Rank : ToAll(Msg(r, r))[t] = Payload(r, t)
  BY <1>2, ToAllIs
<1>5. CASE Runs(r, "call") /\ AssertSame(r, Root(r), "data") /\ UNCHANGED local
  BY <1>1, <1>2, <1>3, <1>5, GatherChain, KeepsCounts, AssertSameData
<1>6. CASE Runs(r, "data") /\ IsRoot(r) /\ ReceiveEqual(r, "MPI_Gather", ToAll(Msg(r, r)), Len(Msg(r, r)))
  <2>1. Sources(r) = Rank
    BY <1>2, <1>6 DEF Sources
  <2>2. args[r].recv_displs = "omitted"
    BY <1>1, <1>2 DEF ShapeInv
  <2>3. Len(Msg(r, r)) \in Nat /\ \A s \in Rank : amount[s][r] = Len(Msg(r, r))
    BY <1>1, <1>2, UniformIs
  <2> DEFINE n == Len(Msg(r, r))
             out == ToAll(Msg(r, r))
  <2>4. /\ n \in Nat /\ \A s \in Rank : amount[s][r] = n
        /\ \A t \in Rank : out[t] = Payload(r, t)
        /\ Runs(r, "data") /\ ReceiveEqual(r, "MPI_Gather", out, n)
    BY <1>4, <1>6, <2>3
  <2>5. Moves(r, "data", "MPI_Gather", "return") /\ "data" \in Before
    BY <1>1, <1>3, GatherChain
  <2> HIDE DEF n, out
  <2> QED BY <1>2, <1>3, <2>1, <2>2, <2>4, <2>5, ReceiveEqualData
<1>7. CASE Runs(r, "data") /\ ~IsRoot(r) /\ SendOnly(r, "MPI_Gather", ToAll(Msg(r, r)))
  <2>1. Sources(r) = {}
    BY <1>2, <1>7 DEF Sources
  <2> QED BY <1>1, <1>3, <1>4, <1>7, <2>1, GatherChain, SendOnlyData
<1> QED BY <1>5, <1>6, <1>7 DEF Gather

--------------------------------------------------------------------------------
(* How the counts nobody gave are found                                     *)

(* The collective by which the counts are found.                            *)
LEMMA NumberData ==
  ASSUME ControlInv, DataInv, NEW r \in Rank, NEW l \in Before, Runs(r, l), NEW next \in Before,
         op \in Numbering, Computes(r), NEW kind, NEW out, NEW want, NEW root,
         Pos(r, l) + 1 = NumberAt, Enter(r, Collective(kind, root, out, want), next),
         CountsKept(r, next),
         \A s \in Senders(kind, root, r) : want[s] = 1,
         \A t \in Rank : Len(out[t]) = 1,
         Sends(r) => \A t \in Rank : out[t] = <<Number(r, t)>>
  PROVE  DataInv'
<1> DEFINE e == Collective(kind, root, out, want)
           n == Len(calls[r])
           K == Kinds(Computes(r))
<1>1. at[r] = l /\ n = Pos(r, l)
  BY BeforeIs, RunsAt DEF Runs
<1>2. Len(K) \in Nat \ {0} /\ NumberAt \in 1 .. Len(K) - 1
  BY ChainShape
<1>3. n + 1 < Len(K) /\ n + 1 # Len(K)
  <2>1. \A m, x : m \in Nat \ {0} /\ x \in 1 .. m - 1 => x < m /\ x # m
    OBVIOUS
  <2> QED BY <1>1, <1>2, <2>1
<1>4. e.kind = kind /\ e.root = root /\ e.out = out /\ e.want = want
  BY DEF Collective
<1> HIDE DEF e
<1>5. DataEntryOK(r, n + 1, e)
  BY <1>3, <1>4 DEF DataEntryOK
<1> QED BY <1>1, <1>5, EnterData DEF e

(* A broadcast only the assertions make.                                    *)
LEMMA FlagData ==
  ASSUME ControlInv, DataInv, NEW r \in Rank, NEW l \in Before, Runs(r, l), NEW next \in Before,
         NEW x, UNCHANGED local, UNCHANGED <<op, light, amount, args>>, op \notin Vector,
         IF light
         THEN Enter(r, Collective("MPI_Bcast", Root(r), ToAll(<<x>>), [s \in {Root(r)} |-> 1]), next)
         ELSE Go(r, next) /\ UNCHANGED calls,
         light => Pos(r, l) + 1 < Len(Kinds(Computes(r))),
         light /\ Computes(r) => Pos(r, l) + 1 # NumberAt
  PROVE  DataInv'
<1> DEFINE out == ToAll(<<x>>)
           want == [s \in {Root(r)} |-> 1]
           e == Collective("MPI_Bcast", Root(r), out, want)
           n == Len(calls[r])
           K == Kinds(Computes(r))
<1>1. at[r] = l /\ n = Pos(r, l) /\ n \in Nat
  BY BeforeIs, RunsAt DEF Runs
<1>2. CountsKept(r, next)
  BY KeepsCounts
<1>3. CASE light
  <2>1. \A s \in Senders("MPI_Bcast", Root(r), r) : want[s] = 1
    BY DEF Senders
  <2>2. \A t \in Rank : Len(out[t]) = 1
    BY DEF ToAll
  <2>3. e.kind = "MPI_Bcast" /\ e.root = Root(r) /\ e.out = out /\ e.want = want
    BY DEF Collective
  <2>4. Enter(r, e, next) /\ n + 1 < Len(K) /\ (Computes(r) => n + 1 # NumberAt)
    BY <1>1, <1>3
  <2> HIDE DEF e, want, out
  <2>5. n + 1 # Len(K)
    BY <1>1, <2>4, KindsLength
  <2>6. DataEntryOK(r, n + 1, e)
    BY <2>1, <2>2, <2>3, <2>4, <2>5 DEF DataEntryOK
  <2> QED BY <1>1, <1>2, <2>4, <2>6, EnterData
<1>4. CASE ~light
  <2>1. next # "aborted" /\ next # "rejected"
    BY BeforeIs
  <2> QED BY <1>1, <1>2, <1>4, <2>1, GoData
<1> QED BY <1>3, <1>4

(* The steps of gatherv, and of the gather in it.                           *)
LEMMA GathervData ==
  ASSUME ControlInv, DataInv, NEW r \in Rank, Gatherv(r), UNCHANGED <<op, light, amount, args>>
  PROVE  DataInv'
<1> DEFINE out == ToAll(Msg(r, r))
           cs == IF Computes(r) THEN Numbers(r) ELSE [s \in Rank |-> amount[s][s]]
<1>1. op = "gatherv" /\ ArgsInv /\ ShapeInv
  BY DEF Gatherv, ControlInv, DataInv
<1>2. /\ op \notin Vector /\ op \notin Scatters \cup Bcasts /\ op \notin Scatters \cup Exchanges
      /\ op \in Gathers /\ op \in Numbering
  BY <1>1 DEF Vector, Scatters, Bcasts, Exchanges, Gathers, Numbering
<1>3. /\ "MPI_Gather" # Compare /\ "MPI_Gatherv" # Compare
      /\ {"call", "computes", "counts", "exchange", "data"} \subseteq Before
  BY BeforeIs DEF Compare
<1>4. \A t \in Rank : out[t] = Payload(r, t)
  BY <1>2, ToAllIs
<1>5. CASE Runs(r, "call") /\ AssertSame(r, Root(r), "computes") /\ UNCHANGED local
  BY <1>1, <1>2, <1>3, <1>5, GathervChain, KeepsCounts, AssertSameData
<1>6. CASE /\ Runs(r, "computes")
           /\ AssertSame(r, Computes(r), IF Computes(r) THEN "counts" ELSE "data")
           /\ UNCHANGED local
  <2>1. CASE Computes(r)
    BY <1>1, <1>2, <1>3, <1>6, <2>1, GathervChain, KeepsCounts, AssertSameData
  <2>2. CASE ~Computes(r)
    BY <1>1, <1>2, <1>3, <1>6, <2>2, GathervChain, KeepsCounts, AssertSameData
  <2> QED BY <2>1, <2>2
<1>7. CASE Runs(r, "counts") /\ AssertSame(r, Root(r), "exchange") /\ UNCHANGED local
  <2>1. Computes(r)
    BY <1>7, FindingComputes DEF Finding
  <2> QED BY <1>1, <1>2, <1>3, <1>7, <2>1, GathervChain, KeepsCounts, AssertSameData
<1>8. CASE /\ Runs(r, "exchange")
           /\ Enter(r, Collective("MPI_Gather", Root(r), ToAll(<<Len(Msg(r, r))>>),
                                  IF IsRoot(r) THEN [s \in Rank |-> 1] ELSE None), "data")
           /\ UNCHANGED local
  <2> DEFINE o == ToAll(<<Len(Msg(r, r))>>)
             w == IF IsRoot(r) THEN [s \in Rank |-> 1] ELSE None
  <2>1. Computes(r)
    BY <1>8, FindingComputes DEF Finding
  <2>2. \A s \in Senders("MPI_Gather", Root(r), r) : w[s] = 1
    BY DEF Senders, IsRoot
  <2>3. \A t \in Rank : Len(o[t]) = 1 /\ o[t] = <<Len(Msg(r, r))>>
    BY DEF ToAll
  <2>4. \A t \in Rank : Len(Msg(r, r)) = Number(r, t)
    <3>1. \A t \in Rank : amount[r][t] = amount[r][r]
      BY <1>1 DEF ShapeInv
    <3>2. op # "bcast"
      BY <1>1
    <3> QED BY <1>1, <3>1, <3>2, UniformIs DEF Number
  <2>5. Pos(r, "exchange") + 1 = NumberAt
    BY <1>1 DEF Pos, Position, NumberAt
  <2>6. CountsKept(r, "data")
    BY <1>2, <1>8, KeepsCounts
  <2>7. \A t \in Rank : o[t] = <<Number(r, t)>>
    BY <2>3, <2>4
  <2>8. Runs(r, "exchange") /\ Enter(r, Collective("MPI_Gather", Root(r), o, w), "data")
    BY <1>8
  <2> HIDE DEF o, w
  <2> QED BY <1>2, <1>3, <2>1, <2>2, <2>3, <2>5, <2>6, <2>7, <2>8, NumberData
<1>9. CASE Runs(r, "data") /\ IsRoot(r) /\ ReceiveVector(r, "MPI_Gatherv", out, cs)
  <2>1. Sources(r) = Rank
    BY <1>2, <1>9 DEF Sources
  <2>2. ASSUME Computes(r)
        PROVE  cs = Due(r)
    <3>1. Len(calls[r]) = NumberAt /\ CanLeave(r)
      <4>1. Pos(r, "data") = NumberAt
        BY <1>1, <2>2 DEF Pos, Position, NumberAt
      <4> QED BY <1>3, <1>9, <4>1, BeforeIs, RunsAt DEF Runs
    <3>2. Numbers(r) = [s \in Sources(r) |-> Number(s, r)]
      BY <1>2, <2>2, <3>1, NumbersAre
    <3> QED BY <1>1, <2>1, <2>2, <3>2 DEF Due, Number
  <2>3. ASSUME ~Computes(r)
        PROVE  cs = Due(r)
    <3>1. \A s \in Rank : amount[s][s] = amount[s][r]
      BY <1>1 DEF ShapeInv
    <3> QED BY <2>1, <2>3, <3>1 DEF Due
  <2>4. Moves(r, "data", "MPI_Gatherv", "return") /\ "data" \in Before
    BY <1>1, <1>3, GathervChain
  <2> HIDE DEF out, cs
  <2>5. cs = Due(r)
    BY <2>2, <2>3
  <2> QED BY <1>2, <1>3, <1>4, <1>9, <2>1, <2>4, <2>5, ReceiveVectorData
<1>10. CASE Runs(r, "data") /\ ~IsRoot(r) /\ SendOnly(r, "MPI_Gatherv", out)
  <2>1. Sources(r) = {}
    BY <1>2, <1>10 DEF Sources
  <2> HIDE DEF out
  <2> QED BY <1>1, <1>3, <1>4, <1>10, <2>1, GathervChain, SendOnlyData
<1>11. ~(IsRoot(r) /\ args[r].counts = "ignored")
  BY <1>1 DEF ShapeInv
<1> QED BY <1>5, <1>6, <1>7, <1>8, <1>9, <1>10, <1>11 DEF Gatherv

(* The counts that were found are those of the messages.                    *)
LEMMA FoundCounts ==
  ASSUME ControlInv, DataInv, NEW r \in Rank, NEW l \in Before, Runs(r, l), op \in Numbering \ {"bcast"},
         Computes(r), Pos(r, l) = NumberAt
  PROVE  Numbers(r) = Due(r)
<1>1. Len(calls[r]) = NumberAt /\ CanLeave(r)
  BY BeforeIs, RunsAt DEF Runs
<1>2. Numbers(r) = [s \in Sources(r) |-> Number(s, r)]
  BY <1>1, NumbersAre
<1>3. op # "bcast"
  OBVIOUS
<1> QED BY <1>2, <1>3 DEF Due, Number

(* The steps of allgather: the sizes are compared, if the ranks can differ. *)
LEMMA AllgatherData ==
  ASSUME ControlInv, DataInv, NEW r \in Rank, Allgather(r), UNCHANGED <<op, light, amount, args>>
  PROVE  DataInv'
<1> DEFINE out == ToAll(Msg(r, r))
           n == Len(Msg(r, r))
<1>1. op = "allgather" /\ ArgsInv /\ ShapeInv
  BY DEF Allgather, ControlInv, DataInv
<1>2. /\ op \notin Vector /\ op \notin Scatters \cup Bcasts /\ op \notin Scatters \cup Exchanges
      /\ op \notin {"gatherv", "allgatherv", "alltoallv"} /\ op \notin Scatters \cup Bcasts \cup Gathers
  BY <1>1 DEF Vector, Scatters, Bcasts, Exchanges, Gathers
<1>3. "MPI_Allgather" # Compare /\ {"call", "data"} \subseteq Before
  BY BeforeIs DEF Compare
<1>4. \A t \in Rank : out[t] = Payload(r, t)
  BY <1>2, ToAllIs
<1>5. CASE Runs(r, "call") /\ AssertSame(r, n, "data") /\ UNCHANGED local
  BY <1>1, <1>2, <1>3, <1>5, AllgatherChain, KeepsCounts, AssertSameData
<1>6. CASE Runs(r, "data") /\ ReceiveEqual(r, "MPI_Allgather", out, n)
  <2>1. Sources(r) = Rank
    BY <1>1, <1>2, SourcesAre
  <2>2. args[r].recv_displs = "omitted"
    BY <1>1, <1>2 DEF ShapeInv
  <2>3. n \in Nat /\ n = amount[r][r]
    BY <1>1, UniformIs
  <2>4. \A s \in Rank : amount[s][s] = amount[r][r]
    <3>1. CASE light
      <4>1. Len(calls[r]) = 1
        <5>1. Pos(r, "data") = 1
          BY <1>1, <3>1 DEF Pos, Position, Unit
        <5> QED BY <1>3, <1>6, <5>1, BeforeIs, RunsAt DEF Runs
      <4>2. Kinds(Computes(r))[1] = Compare
        BY <1>1, <3>1 DEF Kinds
      <4>3. Known(r, 1)
        <5>1. 1 \in 1 .. Len(calls[r]) /\ CanLeave(r) /\ Agreed(r)
          BY <1>6, <4>1 DEF Runs
        <5> QED BY <4>2, <5>1, Met
      <4>4. \A s \in Rank : Value(s, 1) = Len(Msg(s, s))
        BY <1>1 DEF Value
      <4>5. \A s \in Rank : Len(Msg(s, s)) = amount[s][s]
        BY <1>1, UniformIs
      <4> QED BY <4>3, <4>4, <4>5 DEF Known
    <3>2. CASE ~light
      <4>1. \A s \in Rank : amount[s] = amount[r]
        BY <1>1, <3>2 DEF ArgsInv
      <4>2. \A s \in Rank : amount[r][s] = amount[r][r]
        BY <1>1 DEF ShapeInv
      <4> QED BY <4>1, <4>2
    <3> QED BY <3>1, <3>2
  <2>5. \A s \in Rank : amount[s][r] = n
    <3>1. \A s \in Rank : amount[s][r] = amount[s][s]
      BY <1>1 DEF ShapeInv
    <3> QED BY <2>3, <2>4, <3>1
  <2>6. Moves(r, "data", "MPI_Allgather", "return") /\ "data" \in Before
    BY <1>1, <1>3, AllgatherChain
  <2> HIDE DEF n, out
  <2> QED BY <1>2, <1>3, <1>4, <1>6, <2>1, <2>2, <2>3, <2>5, <2>6, ReceiveEqualData
<1> QED BY <1>5, <1>6 DEF Allgather

(* The buffer of a rank that has not received yet is the one it came with.  *)
LEMMA StillInitial ==
  ASSUME DataInv, NEW r \in Rank, at[r] \in Before
  PROVE  buf[r] = InitialBuf(r)
BY DEF DataInv, DataOK, LocalInv, Before

(* The steps of the in-place allgather.                                     *)
LEMMA AllgatherInplaceData ==
  ASSUME ControlInv, DataInv, NEW r \in Rank, AllgatherInplace(r), UNCHANGED <<op, light, amount, args>>
  PROVE  DataInv'
<1> DEFINE n == IF Computes(r) THEN Len(buf[r]) \div P ELSE amount[r][r]
           out == ToAll(Slice(buf[r], r * n, n))
<1>1. op = "allgather_inplace" /\ ArgsInv /\ ShapeInv
  BY DEF AllgatherInplace, ControlInv, DataInv
<1>2. /\ op \notin Vector /\ op \notin Scatters \cup Bcasts /\ op \notin Scatters \cup Exchanges /\ op \in Uniform
      /\ op \notin {"gatherv", "allgatherv", "alltoallv"} /\ op \notin Scatters \cup Bcasts \cup Gathers
      /\ op \in Inplace
  BY <1>1 DEF Vector, Scatters, Bcasts, Exchanges, Gathers, Uniform, Inplace
<1>3. "MPI_Allgather" # Compare /\ {"call", "data"} \subseteq Before
  BY BeforeIs DEF Compare
<1>4. at[r] \in {"call", "data"} /\ buf[r] = InitialBuf(r)
  <2>1. at[r] \in {"call", "data"}
    BY DEF AllgatherInplace, Runs
  <2> QED BY <1>3, <2>1, StillInitial
<1>5. CASE Runs(r, "call") /\ AssertSame(r, Len(buf[r]), "data") /\ UNCHANGED local
  BY <1>1, <1>2, <1>3, <1>4, <1>5, AllgatherInplaceChain, KeepsCounts, AssertSameData
<1>6. CASE /\ Runs(r, "data")
           /\ IF Computes(r) /\ Len(buf[r]) % P # 0
              THEN Abort(r) /\ UNCHANGED local
              ELSE ReceiveEqual(r, "MPI_Allgather", out, n)
  <2>1. Sources(r) = Rank
    BY <1>1, <1>2, SourcesAre
  <2>2. args[r].recv_displs = "omitted"
    BY <1>1, <1>2 DEF ShapeInv
  <2>3. /\ Len(buf[r]) % P = 0 /\ Len(buf[r]) \div P = amount[0][0]
        /\ Slice(buf[r], r * amount[0][0], amount[0][0]) = Msg(r, r)
    BY <1>1, <1>2, <1>4, InitialBufIs
  <2>4. n = amount[0][0] /\ n \in Nat
    BY <1>1, <1>2, <2>3, UniformIs
  <2>5. \A s \in Rank : amount[s][r] = n
    BY <1>1, <1>2, <2>4, UniformIs
  <2>6. out = ToAll(Msg(r, r))
    <3> HIDE DEF n
    <3> QED BY <2>3, <2>4
  <2>7. \A t \in Rank : out[t] = Payload(r, t)
    <3> HIDE DEF out
    <3> QED BY <1>2, <2>6, ToAllIs
  <2>8. ReceiveEqual(r, "MPI_Allgather", out, n)
    BY <1>6, <2>3, Zenon
  <2>9. Moves(r, "data", "MPI_Allgather", "return") /\ "data" \in Before
    BY <1>1, <1>3, AllgatherInplaceChain
  <2> HIDE DEF n, out
  <2> QED BY <1>2, <1>3, <1>6, <2>1, <2>2, <2>4, <2>5, <2>7, <2>8, <2>9, ReceiveEqualData
<1> QED BY <1>5, <1>6 DEF AllgatherInplace

(* The steps of allgatherv, and of the allgather in it.                     *)
LEMMA AllgathervData ==
  ASSUME ControlInv, DataInv, NEW r \in Rank, Allgatherv(r), UNCHANGED <<op, light, amount, args>>
  PROVE  DataInv'
<1> DEFINE out == ToAll(Msg(r, r))
           cs == IF Computes(r) THEN Numbers(r) ELSE [s \in Rank |-> amount[s][s]]
<1>1. op = "allgatherv" /\ ArgsInv /\ ShapeInv
  BY DEF Allgatherv, ControlInv, DataInv
<1>2. /\ op \notin Scatters \cup Bcasts /\ op \notin Scatters \cup Exchanges
      /\ op \notin Scatters \cup Bcasts \cup Gathers /\ op \in Numbering \ {"bcast"} /\ op \in Numbering /\ op \in Vector
  BY <1>1 DEF Vector, Scatters, Bcasts, Exchanges, Gathers, Numbering
<1> DEFINE late == {"recv displs", "data"}
<1>11. "displs" \notin late /\ "exchange" \notin late /\ "counts" \notin late
  OBVIOUS
<1>3. /\ "MPI_Allgather" # Compare /\ "MPI_Allgatherv" # Compare
      /\ {"call", "counts", "exchange", "displs", "data"} \subseteq Before
  BY BeforeIs DEF Compare
<1>4. \A t \in Rank : out[t] = Payload(r, t)
  BY <1>2, ToAllIs
<1>5. Sources(r) = Rank
  BY <1>1, <1>2, SourcesAre
<1>6. CASE /\ Runs(r, "call")
           /\ AssertSame(r, Computes(r), IF Computes(r) THEN "counts" ELSE "displs")
           /\ UNCHANGED local
  <2>1. CASE Computes(r)
    BY <1>1, <1>3, <1>6, <2>1, AllgathervChain, KeepsCounts, AssertSameData
  <2>2. CASE ~Computes(r)
    <3>1. CountsKept(r, "displs")
      BY <1>6, <1>11, KeepsCounts
    <3> QED BY <1>1, <1>3, <1>6, <2>2, <3>1, AllgathervChain, AssertSameData
  <2> QED BY <2>1, <2>2
<1>7. CASE Runs(r, "counts") /\ AssertSame(r, 1, "exchange") /\ UNCHANGED local
  <2>1. Computes(r)
    BY <1>7, FindingComputes DEF Finding
  <2>2. CountsKept(r, "exchange")
    BY <1>7, <1>11, KeepsCounts
  <2> QED BY <1>1, <1>3, <1>7, <2>1, <2>2, AllgathervChain, AssertSameData
<1>8. CASE /\ Runs(r, "exchange")
           /\ Enter(r, Collective("MPI_Allgather", 0, ToAll(<<Len(Msg(r, r))>>), [s \in Rank |-> 1]), "displs")
           /\ UNCHANGED local
  <2> DEFINE o == ToAll(<<Len(Msg(r, r))>>)
             w == [s \in Rank |-> 1]
  <2>1. Computes(r)
    BY <1>8, FindingComputes DEF Finding
  <2>2. \A s \in Senders("MPI_Allgather", 0, r) : w[s] = 1
    BY DEF Senders
  <2>3. \A t \in Rank : Len(o[t]) = 1 /\ o[t] = <<Len(Msg(r, r))>>
    BY DEF ToAll
  <2>4. \A t \in Rank : Len(Msg(r, r)) = Number(r, t)
    <3>1. \A t \in Rank : amount[r][t] = amount[r][r]
      BY <1>1 DEF ShapeInv
    <3>2. op # "bcast"
      BY <1>1
    <3> QED BY <1>1, <3>1, <3>2, UniformIs DEF Number
  <2>5. Pos(r, "exchange") + 1 = NumberAt
    BY <1>1 DEF Pos, Position, NumberAt
  <2>6. CountsKept(r, "displs")
    BY <1>8, <1>11, KeepsCounts
  <2>7. \A t \in Rank : o[t] = <<Number(r, t)>>
    BY <2>3, <2>4
  <2>8. Runs(r, "exchange") /\ Enter(r, Collective("MPI_Allgather", 0, o, w), "displs")
    BY <1>8
  <2> HIDE DEF o, w
  <2> QED BY <1>2, <1>3, <2>1, <2>2, <2>3, <2>5, <2>6, <2>7, <2>8, NumberData
<1>9. CASE /\ Runs(r, "displs")
           /\ counts' = [counts EXCEPT ![r] = cs]
           /\ AssertSame(r, args[r].recv_displs = "omitted", "data")
           /\ UNCHANGED <<displs, buf>>
  <2>1. ASSUME Computes(r)
        PROVE  cs = Due(r)
    <3>1. Pos(r, "displs") = NumberAt
      BY <1>1, <2>1 DEF Pos, Position, NumberAt
    <3>2. Numbers(r) = Due(r)
      BY <1>2, <1>3, <1>9, <2>1, <3>1, FoundCounts
    <3> QED BY <2>1, <3>2
  <2>2. ASSUME ~Computes(r)
        PROVE  cs = Due(r)
    <3>1. \A s \in Rank : amount[s][s] = amount[s][r]
      BY <1>1 DEF ShapeInv
    <3> QED BY <1>5, <2>2, <3>1 DEF Due
  <2>3. cs = Due(r)
    BY <2>1, <2>2
  <2>4. CountsKept(r, "data")
    BY <1>9, <2>3, SetsCounts
  <2> QED BY <1>1, <1>3, <1>9, <2>4, AllgathervChain, AssertSameData
<1>10. CASE Runs(r, "data") /\ ReceiveVector(r, "MPI_Allgatherv", out, counts[r])
  <2>1. counts[r] = Due(r)
    BY <1>2, <1>10 DEF DataInv, DataOK, LocalInv, Runs
  <2>2. Moves(r, "data", "MPI_Allgatherv", "return") /\ "data" \in Before
    BY <1>1, <1>3, AllgathervChain
  <2> HIDE DEF out
  <2> QED BY <1>2, <1>3, <1>4, <1>5, <1>10, <2>1, <2>2, ReceiveVectorData
<1> QED BY <1>6, <1>7, <1>8, <1>9, <1>10 DEF Allgatherv

--------------------------------------------------------------------------------
(* The steps of scatter, and of the exchanges                               *)

(* The broadcast of the number a scatter expects.                           *)
LEMMA BroadcastNumberData ==
  ASSUME ControlInv, DataInv, NEW r \in Rank, op \in {"scatter", "scatter_single"}, NEW number,
         BroadcastNumber(r, number, "data"), UNCHANGED <<op, light, amount, args>>,
         Sends(r) => \A t \in Rank : number = Number(r, t)
  PROVE  DataInv'
<1> DEFINE w == [s \in {Root(r)} |-> 1]
           o == ToAll(<<number>>)
<1>1. UNCHANGED local /\ ArgsInv
  BY DEF BroadcastNumber, ControlInv
<1>2. \A l \in {"flag", "bcast", "bcast count", "value"} : Runs(r, l) => Computes(r)
  BY FindingComputes DEF Finding
<1>3. \A l : Runs(r, l) /\ l \in {"flag", "bcast", "bcast count", "value"} => op = "scatter"
  BY <1>1, <1>2 DEF ArgsInv
<1>4. /\ op \notin Vector /\ "MPI_Bcast" # Compare
      /\ {"flag", "bcast", "bcast count", "value", "data"} \subseteq Before
  BY BeforeIs DEF Vector, Compare
<1>5. \A next : CountsKept(r, next)
  BY <1>1, <1>4, KeepsCounts
<1>6. CASE /\ Runs(r, "flag")
           /\ IF light THEN Enter(r, Collective("MPI_Bcast", Root(r), ToAll(<<TRUE>>), w), "bcast")
              ELSE Go(r, "bcast") /\ UNCHANGED calls
  <2>1. Computes(r) /\ op = "scatter"
    BY <1>2, <1>3, <1>6
  <2>2. light => Pos(r, "flag") = 2 /\ NumberAt = 6
    BY <2>1 DEF Pos, Position, NumberAt, Unit
  <2>3. light => Len(Kinds(Computes(r))) = 7
    <3>1. light => Kinds(Computes(r)) = <<Compare, Compare, "MPI_Bcast", Compare, Compare, "MPI_Bcast", "MPI_Scatter">>
      BY <2>1 DEF Kinds
    <3> QED BY <3>1
  <2>4. /\ light => Pos(r, "flag") + 1 < Len(Kinds(Computes(r)))
        /\ light /\ Computes(r) => Pos(r, "flag") + 1 # NumberAt
    <3> DEFINE p == Pos(r, "flag")
               m == Len(Kinds(Computes(r)))
    <3>1. light => p = 2 /\ m = 7 /\ NumberAt = 6
      BY <2>2, <2>3
    <3> HIDE DEF p, m
    <3>2. (light => p + 1 < m) /\ (light /\ Computes(r) => p + 1 # NumberAt)
      BY <3>1
    <3> QED BY <3>2 DEF p, m
  <2> QED BY <1>1, <1>4, <1>6, <2>4, FlagData
<1>7. CASE Runs(r, "bcast") /\ AssertSame(r, Root(r), "bcast count")
  <2>1. Comparison(r, "bcast", Root(r), "bcast count")
    BY <1>2, <1>7, ScatterChain
  <2> QED BY <1>4, <1>5, <1>7, <2>1, AssertSameData
<1>8. CASE Runs(r, "bcast count") /\ AssertSame(r, FALSE, "value")
  <2>1. Comparison(r, "bcast count", FALSE, "value")
    BY <1>2, <1>8, ScatterChain
  <2> QED BY <1>4, <1>5, <1>8, <2>1, AssertSameData
<1>9. CASE Runs(r, "value") /\ Enter(r, Collective("MPI_Bcast", Root(r), o, w), "data")
  <2>1. Computes(r) /\ op = "scatter"
    BY <1>2, <1>3, <1>9
  <2>2. op \in Numbering /\ Pos(r, "value") + 1 = NumberAt
    BY <2>1 DEF Numbering, Pos, Position, NumberAt
  <2>3. \A s \in Senders("MPI_Bcast", Root(r), r) : w[s] = 1
    BY DEF Senders
  <2>4. \A t \in Rank : o[t] = <<number>>
    BY DEF ToAll
  <2>5. \A t \in Rank : Len(o[t]) = 1
    BY <2>4
  <2>6. Sends(r) => \A t \in Rank : o[t] = <<Number(r, t)>>
    BY <2>4
  <2> HIDE DEF o, w
  <2>7. /\ Runs(r, "value") /\ Enter(r, Collective("MPI_Bcast", Root(r), o, w), "data") /\ CountsKept(r, "data")
        /\ "value" \in Before /\ "data" \in Before
    BY <1>4, <1>5, <1>9
  <2> QED BY <2>1, <2>2, <2>3, <2>5, <2>6, <2>7, NumberData
<1> QED BY <1>6, <1>7, <1>8, <1>9 DEF BroadcastNumber

(* A scatter aborts only if a send buffer has no data.                      *)
LEMMA NoData ==
  ASSUME ShapeInv, op \in {"scatter", "scatterv"}, NEW r \in Rank, ~HasData(r)
  PROVE  MayAbort(r)
<1>1. op \notin Bcasts
  BY DEF Bcasts
<1>2. args[r].buffer
  BY <1>1 DEF ShapeInv
<1> QED BY <1>2 DEF HasData, MayAbort, NonEmpty

(* The steps of scatter, and of scatter_single.                             *)
LEMMA ScatterData ==
  ASSUME ControlInv, DataInv, NEW r \in Rank, Scatter(r), UNCHANGED <<op, light, amount, args>>
  PROVE  DataInv'
<1> DEFINE n == IF Computes(r) THEN Numbers(r)[Root(r)] ELSE amount[Root(r)][r]
           number == Len(SendBuf(r)) \div P
           out == EqualBlocks(r)
<1>1. op \in {"scatter", "scatter_single"} /\ ArgsInv /\ ShapeInv
  BY DEF Scatter, ControlInv, DataInv
<1>2. /\ op \notin Vector /\ op \in Scatters \cup Bcasts /\ op \in Scatters \cup Exchanges /\ op \in Scatters
      /\ op \notin Bcasts /\ op \in Uniform /\ op # "bcast"
  BY <1>1 DEF Vector, Scatters, Bcasts, Exchanges, Uniform
<1>3. "MPI_Scatter" # Compare /\ {"call", "buffer", "flag", "data"} \subseteq Before
  BY BeforeIs DEF Compare
<1>4. UNCHANGED local => \A next : CountsKept(r, next)
  BY <1>2, KeepsCounts
<1>5. /\ number = amount[0][0] /\ Len(SendBuf(r)) % P = 0
      /\ out = [t \in Rank |-> Msg(r, t)]
      /\ op = "scatter_single" => SingleBuffer(r)
  BY <1>1, EqualBlocksOf
<1>6. CASE Runs(r, "call") /\ AssertSame(r, Root(r), "buffer") /\ UNCHANGED local
  BY <1>1, <1>3, <1>4, <1>6, ScatterChain, AssertSameData
<1>7. CASE Runs(r, "buffer") /\ IsRoot(r) /\ ~HasData(r) /\ Abort(r) /\ UNCHANGED local
  <2>1. MayAbort(r)
    <3>1. CASE op = "scatter"
      BY <1>1, <1>7, <3>1, NoData
    <3>2. CASE op = "scatter_single"
      <4>1. args[r].buffer /\ Len(SendBuf(r)) = P
        BY <1>5, <3>2 DEF SingleBuffer
      <4>2. SendBuf(r) # << >>
        BY <4>1, RankIs
      <4> QED BY <1>7, <4>1, <4>2 DEF HasData
    <3> QED BY <1>1, <3>1, <3>2
  <2>2. at[r] \in Before
    BY <1>3, <1>7 DEF Runs
  <2> QED BY <1>7, <2>1, <2>2, FailData
<1>8. CASE /\ Runs(r, "buffer")
           /\ AssertSame(r, Computes(r), IF Computes(r) THEN "flag" ELSE "data")
           /\ UNCHANGED local
  <2>1. CASE Computes(r)
    BY <1>1, <1>3, <1>4, <1>8, <2>1, ScatterChain, AssertSameData
  <2>2. CASE ~Computes(r)
    BY <1>1, <1>3, <1>4, <1>8, <2>2, ScatterChain, AssertSameData
  <2> QED BY <2>1, <2>2
<1>9. CASE BroadcastNumber(r, number, "data")
  <2>1. \A t \in Rank : number = Number(r, t)
    <3>1. \A t \in Rank : amount[r][t] = amount[0][0]
      BY <1>1, <1>2, UniformIs
    <3> HIDE DEF number
    <3> QED BY <1>2, <1>5, <3>1 DEF Number
  <2> HIDE DEF number
  <2> QED BY <1>1, <1>9, <2>1, BroadcastNumberData
<1>10. CASE Runs(r, "data") /\ ReceiveFromRoot(r, "MPI_Scatter", out, n)
  <2>1. \A t \in Rank : out[t] = Payload(r, t)
    <3> HIDE DEF out
    <3> QED BY <1>2, <1>5 DEF Payload
  <2>2. n = amount[Root(r)][r]
    <3>1. ASSUME Computes(r)
          PROVE  Numbers(r)[Root(r)] = amount[Root(r)][r]
      <4>1. op = "scatter"
        BY <1>1, <3>1 DEF ArgsInv
      <4>2. op \in Numbering \ {"bcast"} /\ Pos(r, "data") = NumberAt
        BY <3>1, <4>1 DEF Numbering, Pos, Position, NumberAt
      <4>3. Numbers(r) = Due(r)
        BY <1>3, <1>10, <3>1, <4>2, FoundCounts
      <4>4. Root(r) \in Sources(r)
        BY <1>2 DEF Sources, Gathers, Scatters
      <4> QED BY <4>3, <4>4 DEF Due
    <3> QED BY <3>1
  <2>3. Moves(r, "data", "MPI_Scatter", "return") /\ "data" \in Before
    BY <1>1, <1>3, ScatterChain
  <2> HIDE DEF n, out
  <2> QED BY <1>2, <1>3, <1>10, <2>1, <2>2, <2>3, ReceiveFromRootData
<1> QED BY <1>5, <1>6, <1>7, <1>8, <1>9, <1>10 DEF Scatter

(* The steps of scatterv, and of the scatter in it.                         *)
LEMMA ScattervData ==
  ASSUME ControlInv, DataInv, NEW r \in Rank, Scatterv(r), UNCHANGED <<op, light, amount, args>>
  PROVE  DataInv'
<1> DEFINE n == IF Computes(r) THEN Numbers(r)[Root(r)] ELSE amount[Root(r)][r]
           out == Blocks(r, amount[r], SendDisplsOf(r))
<1>1. op = "scatterv" /\ ArgsInv /\ ShapeInv
  BY DEF Scatterv, ControlInv, DataInv
<1>2. /\ op \notin Vector /\ op \in Scatters \cup Bcasts /\ op \in Scatters \cup Exchanges /\ op \in Scatters
      /\ op \notin Bcasts /\ op \in Numbering \ {"bcast"} /\ op \in Numbering /\ op # "bcast"
  BY <1>1 DEF Vector, Scatters, Bcasts, Exchanges, Numbering
<1>3. /\ "MPI_Scatter" # Compare /\ "MPI_Scatterv" # Compare
      /\ {"call", "buffer", "counts", "counts given", "exchange", "data"} \subseteq Before
  BY BeforeIs DEF Compare
<1>4. UNCHANGED local => \A next : CountsKept(r, next)
  BY <1>2, KeepsCounts
<1>5. \A l \in {"counts", "counts given", "exchange"} : Runs(r, l) => Computes(r)
  BY FindingComputes DEF Finding
<1>6. CASE Runs(r, "call") /\ AssertSame(r, Root(r), "buffer") /\ UNCHANGED local
  BY <1>1, <1>3, <1>4, <1>6, ScattervChain, AssertSameData
<1>7. CASE Runs(r, "buffer") /\ ~HasData(r) /\ Abort(r) /\ UNCHANGED local
  <2>1. MayAbort(r)
    BY <1>1, <1>7, NoData
  <2>2. at[r] \in Before
    BY <1>3, <1>7 DEF Runs
  <2> QED BY <1>7, <2>1, <2>2, FailData
<1>8. CASE /\ Runs(r, "buffer")
           /\ AssertSame(r, Computes(r), IF Computes(r) THEN "counts" ELSE "data")
           /\ UNCHANGED local
  <2>1. CASE Computes(r)
    BY <1>1, <1>3, <1>4, <1>8, <2>1, ScattervChain, AssertSameData
  <2>2. CASE ~Computes(r)
    BY <1>1, <1>3, <1>4, <1>8, <2>2, ScattervChain, AssertSameData
  <2> QED BY <2>1, <2>2
<1>9. CASE Runs(r, "counts") /\ AssertSame(r, Root(r), "counts given") /\ UNCHANGED local
  BY <1>1, <1>3, <1>4, <1>5, <1>9, ScattervChain, AssertSameData
<1>10. CASE /\ Runs(r, "counts given") /\ (P + args[r].slack) % P # 0
            /\ Abort(r) /\ UNCHANGED local
  <2>1. args[r].slack # 0
    <3>1. (P * 1) % P = 0 /\ P * 1 = P /\ P + 0 = P
      BY RankIs, Multiples
    <3> QED BY <1>10, <3>1
  <2>2. MayAbort(r)
    BY <2>1 DEF MayAbort
  <2>3. at[r] \in Before
    BY <1>3, <1>10 DEF Runs
  <2> QED BY <1>10, <2>2, <2>3, FailData
<1>11. CASE Runs(r, "counts given") /\ AssertSame(r, FALSE, "exchange") /\ UNCHANGED local
  BY <1>1, <1>3, <1>4, <1>5, <1>11, ScattervChain, AssertSameData
<1>12. CASE /\ Runs(r, "exchange")
            /\ Enter(r, Collective("MPI_Scatter", Root(r), OneEach(r), [s \in {Root(r)} |-> 1]), "data")
            /\ UNCHANGED local
  <2> DEFINE o == OneEach(r)
             w == [s \in {Root(r)} |-> 1]
  <2>1. Computes(r)
    BY <1>5, <1>12
  <2>2. \A s \in Senders("MPI_Scatter", Root(r), r) : w[s] = 1
    BY DEF Senders
  <2>3. \A t \in Rank : Len(o[t]) = 1 /\ o[t] = <<amount[r][t]>>
    BY DEF OneEach
  <2>4. \A t \in Rank : amount[r][t] = Number(r, t)
    BY <1>2 DEF Number
  <2>5. Pos(r, "exchange") + 1 = NumberAt
    BY <1>1 DEF Pos, Position, NumberAt
  <2>6. CountsKept(r, "data")
    BY <1>4, <1>12
  <2>7. \A t \in Rank : o[t] = <<Number(r, t)>>
    BY <2>3, <2>4
  <2>8. Runs(r, "exchange") /\ Enter(r, Collective("MPI_Scatter", Root(r), o, w), "data")
    BY <1>12
  <2> HIDE DEF o, w
  <2>9. op \in Numbering /\ "exchange" \in Before /\ "data" \in Before /\ \A t \in Rank : Len(o[t]) = 1
    BY <1>2, <1>3, <2>3
  <2> QED BY <2>1, <2>2, <2>5, <2>6, <2>7, <2>8, <2>9, NumberData
<1>13. CASE Runs(r, "data") /\ ReceiveFromRoot(r, "MPI_Scatterv", out, n)
  <2>1. \A t \in Rank : out[t] = Payload(r, t)
    <3>1. out = [t \in Rank |-> Msg(r, t)]
      BY <1>1, BlocksAre
    <3> HIDE DEF out
    <3> QED BY <1>2, <3>1 DEF Payload
  <2>2. n = amount[Root(r)][r]
    <3>1. ASSUME Computes(r)
          PROVE  Numbers(r)[Root(r)] = amount[Root(r)][r]
      <4>1. Pos(r, "data") = NumberAt
        BY <1>1, <3>1 DEF Pos, Position, NumberAt
      <4>2. Numbers(r) = Due(r)
        BY <1>2, <1>3, <1>13, <3>1, <4>1, FoundCounts
      <4>3. Root(r) \in Sources(r)
        BY <1>2 DEF Sources, Gathers, Scatters
      <4> QED BY <4>2, <4>3 DEF Due
    <3> QED BY <3>1
  <2>3. Moves(r, "data", "MPI_Scatterv", "return") /\ "data" \in Before
    BY <1>1, <1>3, ScattervChain
  <2> HIDE DEF n, out
  <2> QED BY <1>2, <1>3, <1>13, <2>1, <2>2, <2>3, ReceiveFromRootData
<1> QED BY <1>6, <1>7, <1>8, <1>9, <1>10, <1>11, <1>12, <1>13 DEF Scatterv

(* The step of alltoall: an empty send buffer is refused.                   *)
LEMMA AlltoallData ==
  ASSUME ControlInv, DataInv, NEW r \in Rank, Alltoall(r), UNCHANGED <<op, light, amount, args>>
  PROVE  DataInv'
<1> DEFINE n == Len(SendBuf(r)) \div P
           out == EqualBlocks(r)
<1>1. op = "alltoall" /\ ArgsInv /\ ShapeInv
  BY DEF Alltoall, ControlInv, DataInv
<1>2. /\ op \notin Scatters \cup Bcasts /\ op \in Scatters \cup Exchanges /\ op \in Uniform
      /\ op \notin {"gatherv", "allgatherv", "alltoallv"} /\ op \notin Scatters \cup Bcasts \cup Gathers
  BY <1>1 DEF Scatters, Bcasts, Exchanges, Gathers, Uniform
<1>3. "MPI_Alltoall" # Compare /\ "call" \in Before
  BY BeforeIs DEF Compare
<1>4. n = amount[0][0] /\ out = [t \in Rank |-> Msg(r, t)]
  BY <1>1, EqualBlocksOf
<1>5. CASE Runs(r, "call") /\ SendBuf(r) = << >> /\ Abort(r) /\ UNCHANGED local
  <2>1. MayAbort(r)
    BY <1>1, <1>5 DEF MayAbort, NonEmpty
  <2>2. at[r] \in Before
    BY <1>3, <1>5 DEF Runs
  <2> QED BY <1>5, <2>1, <2>2, FailData
<1>6. CASE Runs(r, "call") /\ ReceiveEqual(r, "MPI_Alltoall", out, n)
  <2>1. Sources(r) = Rank
    BY <1>1, <1>2, SourcesAre
  <2>2. args[r].recv_displs = "omitted"
    BY <1>1, <1>2 DEF ShapeInv
  <2> HIDE DEF n, out
  <2>3. n \in Nat /\ \A s \in Rank : amount[s][r] = n
    BY <1>1, <1>2, <1>4, UniformIs
  <2>4. \A t \in Rank : out[t] = Payload(r, t)
    BY <1>2, <1>4 DEF Payload
  <2>5. Moves(r, "call", "MPI_Alltoall", "return")
    BY <1>1, AlltoallChain
  <2> QED BY <1>2, <1>3, <1>6, <2>1, <2>2, <2>3, <2>4, <2>5, ReceiveEqualData
<1> QED BY <1>5, <1>6 DEF Alltoall

(* The step of the in-place alltoall.                                       *)
LEMMA AlltoallInplaceData ==
  ASSUME ControlInv, DataInv, NEW r \in Rank, AlltoallInplace(r), UNCHANGED <<op, light, amount, args>>
  PROVE  DataInv'
<1> DEFINE n == IF Computes(r) THEN Len(buf[r]) \div P ELSE amount[r][r]
           out == [t \in Rank |-> Slice(buf[r], t * n, n)]
<1>1. op = "alltoall_inplace" /\ ArgsInv /\ ShapeInv
  BY DEF AlltoallInplace, ControlInv, DataInv
<1>2. /\ op \notin Scatters \cup Bcasts /\ op \in Scatters \cup Exchanges /\ op \in Uniform
      /\ op \notin {"gatherv", "allgatherv", "alltoallv"} /\ op \notin Scatters \cup Bcasts \cup Gathers
      /\ op \in Inplace
  BY <1>1 DEF Scatters, Bcasts, Exchanges, Gathers, Uniform, Inplace
<1>3. "MPI_Alltoall" # Compare /\ "call" \in Before
  BY BeforeIs DEF Compare
<1>4. Runs(r, "call") /\ buf[r] = InitialBuf(r)
  BY <1>3, StillInitial DEF AlltoallInplace, Runs
<1>5. /\ Len(buf[r]) % P = 0 /\ Len(buf[r]) \div P = amount[0][0]
      /\ \A t \in Rank : Slice(buf[r], t * amount[0][0], amount[0][0]) = Msg(r, t)
  BY <1>1, <1>2, <1>4, InitialBufIs
<1>6. n = amount[0][0] /\ n \in Nat /\ \A s \in Rank : amount[s][r] = n
  BY <1>1, <1>2, <1>5, UniformIs
<1>7. ReceiveEqual(r, "MPI_Alltoall", out, n)
  BY <1>5, Zenon DEF AlltoallInplace
<1>8. \A t \in Rank : out[t] = Payload(r, t)
  <2> HIDE DEF n
  <2> QED BY <1>2, <1>5, <1>6 DEF Payload
<1>9. Sources(r) = Rank
  BY <1>1, <1>2, SourcesAre
<1>10. args[r].recv_displs = "omitted"
  BY <1>1, <1>2 DEF ShapeInv
<1>11. Moves(r, "call", "MPI_Alltoall", "return")
  BY <1>1, AlltoallChain
<1> HIDE DEF n, out
<1> QED BY <1>2, <1>3, <1>4, <1>6, <1>7, <1>8, <1>9, <1>10, <1>11, ReceiveEqualData

(* The steps of alltoallv, and of the alltoall in it.                       *)
LEMMA AlltoallvData ==
  ASSUME ControlInv, DataInv, NEW r \in Rank, Alltoallv(r), UNCHANGED <<op, light, amount, args>>
  PROVE  DataInv'
<1> DEFINE out == Blocks(r, amount[r], SendDisplsOf(r))
           cs == IF Computes(r) THEN Numbers(r) ELSE [s \in Rank |-> amount[s][r]]
           late == {"recv displs", "data"}
<1>1. op = "alltoallv" /\ ArgsInv /\ ShapeInv
  BY DEF Alltoallv, ControlInv, DataInv
<1>2. /\ op \notin Scatters \cup Bcasts /\ op \in Scatters \cup Exchanges
      /\ op \notin Scatters \cup Bcasts \cup Gathers /\ op \in Numbering \ {"bcast"} /\ op \in Numbering /\ op \in Vector
      /\ op # "bcast"
  BY <1>1 DEF Vector, Scatters, Bcasts, Exchanges, Gathers, Numbering
<1>3. /\ "MPI_Alltoall" # Compare /\ "MPI_Alltoallv" # Compare
      /\ {"call", "exchange", "send displs", "recv displs", "data"} \subseteq Before
  BY BeforeIs DEF Compare
<1>4. "exchange" \notin late /\ "send displs" \notin late
  OBVIOUS
<1>5. Sources(r) = Rank
  BY <1>1, <1>2, SourcesAre
<1>6. CASE /\ Runs(r, "call")
           /\ AssertSame(r, Computes(r), IF Computes(r) THEN "exchange" ELSE "send displs")
           /\ UNCHANGED local
  <2>1. CountsKept(r, "exchange")
    BY <1>4, <1>6, KeepsCounts
  <2>2. CountsKept(r, "send displs")
    BY <1>4, <1>6, KeepsCounts
  <2>3. CASE Computes(r)
    BY <1>1, <1>3, <1>6, <2>1, <2>3, AlltoallvChain, AssertSameData
  <2>4. CASE ~Computes(r)
    BY <1>1, <1>3, <1>6, <2>2, <2>4, AlltoallvChain, AssertSameData
  <2> QED BY <2>3, <2>4
<1>7. CASE /\ Runs(r, "exchange")
           /\ ((P + args[r].slack) % P # 0) \/ (P + args[r].slack > P)
           /\ Abort(r) /\ UNCHANGED local
  <2>1. args[r].slack # 0
    <3>1. (P * 1) % P = 0 /\ P * 1 = P /\ P + 0 = P /\ ~(P > P)
      BY RankIs, Multiples
    <3> QED BY <1>7, <3>1
  <2>2. MayAbort(r)
    BY <2>1 DEF MayAbort
  <2>3. at[r] \in Before
    BY <1>3, <1>7 DEF Runs
  <2> QED BY <1>7, <2>2, <2>3, FailData
<1>8. CASE /\ Runs(r, "exchange")
           /\ Enter(r, Collective("MPI_Alltoall", 0, OneEach(r), [s \in Rank |-> 1]), "send displs")
           /\ UNCHANGED local
  <2> DEFINE o == OneEach(r)
             w == [s \in Rank |-> 1]
  <2>1. Computes(r)
    BY <1>8, FindingComputes DEF Finding
  <2>2. \A s \in Senders("MPI_Alltoall", 0, r) : w[s] = 1
    BY DEF Senders
  <2>3. \A t \in Rank : Len(o[t]) = 1 /\ o[t] = <<amount[r][t]>>
    BY DEF OneEach
  <2>4. \A t \in Rank : amount[r][t] = Number(r, t)
    BY <1>2 DEF Number
  <2>5. Pos(r, "exchange") + 1 = NumberAt
    BY <1>1 DEF Pos, Position, NumberAt
  <2>6. CountsKept(r, "send displs")
    BY <1>4, <1>8, KeepsCounts
  <2>7. \A t \in Rank : o[t] = <<Number(r, t)>>
    BY <2>3, <2>4
  <2>8. Runs(r, "exchange") /\ Enter(r, Collective("MPI_Alltoall", 0, o, w), "send displs")
    BY <1>8
  <2> HIDE DEF o, w
  <2>9. op \in Numbering /\ "exchange" \in Before /\ "send displs" \in Before /\ \A t \in Rank : Len(o[t]) = 1
    BY <1>2, <1>3, <2>3
  <2> QED BY <2>1, <2>2, <2>5, <2>6, <2>7, <2>8, <2>9, NumberData
<1>9. CASE /\ Runs(r, "send displs")
           /\ counts' = [counts EXCEPT ![r] = cs]
           /\ AssertSame(r, args[r].send_displs = "omitted", "recv displs")
           /\ UNCHANGED <<displs, buf>>
  <2>1. ASSUME Computes(r)
        PROVE  cs = Due(r)
    <3>1. Pos(r, "send displs") = NumberAt
      BY <1>1, <2>1 DEF Pos, Position, NumberAt
    <3>2. Numbers(r) = Due(r)
      BY <1>2, <1>3, <1>9, <2>1, <3>1, FoundCounts
    <3> QED BY <2>1, <3>2
  <2>2. ASSUME ~Computes(r)
        PROVE  cs = Due(r)
    BY <1>5, <2>2 DEF Due
  <2>3. cs = Due(r)
    BY <2>1, <2>2
  <2>4. CountsKept(r, "recv displs")
    BY <1>9, <2>3, SetsCounts
  <2> QED BY <1>1, <1>3, <1>9, <2>4, AlltoallvChain, AssertSameData
<1>10. CASE Runs(r, "recv displs") /\ AssertSame(r, args[r].recv_displs = "omitted", "data") /\ UNCHANGED local
  <2>1. CountsKept(r, "data")
    BY <1>10, KeepsCounts DEF Runs
  <2> QED BY <1>1, <1>3, <1>10, <2>1, AlltoallvChain, AssertSameData
<1>11. CASE Runs(r, "data") /\ ReceiveVector(r, "MPI_Alltoallv", out, counts[r])
  <2>1. counts[r] = Due(r)
    BY <1>2, <1>11 DEF DataInv, DataOK, LocalInv, Runs
  <2>2. Moves(r, "data", "MPI_Alltoallv", "return") /\ "data" \in Before
    BY <1>1, <1>3, AlltoallvChain
  <2>3. \A t \in Rank : out[t] = Payload(r, t)
    <3>1. out = [t \in Rank |-> Msg(r, t)]
      BY <1>1, BlocksAre
    <3> HIDE DEF out
    <3> QED BY <1>2, <3>1 DEF Payload
  <2> HIDE DEF out
  <2> QED BY <1>2, <1>3, <1>5, <1>11, <2>1, <2>2, <2>3, ReceiveVectorData
<1>12. SendBufLargeEnough(r)
  BY <1>1, BlocksAre
<1> QED BY <1>6, <1>7, <1>8, <1>9, <1>10, <1>11, <1>12 DEF Alltoallv

--------------------------------------------------------------------------------
(* The steps of the broadcasts, and those that stop a rank                  *)

(* bcast_single tells first whether the root has a buffer.                  *)
Told(r) == Len(calls[r]) # 0 => calls[r][1].out = ToAll(<<args[r].buffer>>)

ToldInv == op = "bcast_single" /\ light => \A r \in Rank : Told(r)

(* Nobody is told anything else.                                            *)
LEMMA ToldStep ==
  ASSUME ControlInv, NEW q \in Rank, Call(q), op = "bcast_single", light, Told(q)
  PROVE  Told(q)'
<1> DEFINE n == Len(calls[q])
<1>1. args' = args /\ op \in Bcasts /\ IsSequence(calls[q]) /\ n \in Nat
  BY DEF Call, Bcasts, ControlInv, TraceInv, IsSequence
<1>2. at[q] = "call" => n = 0
  BY <1>1, SignalPositions
<1>3. at[q] \in {"root", "computes", "given"} => n # 0
  <2>1. Unit = 1
    BY DEF Unit
  <2>2. at[q] \in {"root", "computes", "given"} => n \in {Unit, 2 * Unit, 3 * Unit}
    BY <1>1, SignalPositions
  <2>3. \A u, m : u = 1 /\ m \in {u, 2 * u, 3 * u} => m # 0
    OBVIOUS
  <2> QED BY <2>1, <2>2, <2>3
<1>4. \/ Stays(q)
      \/ n = 0 /\ \E e : Grows(q, e) /\ e.out = ToAll(<<args[q].buffer>>)
      \/ n # 0 /\ \E e : Grows(q, e)
  <2>1. ~Computes(q) /\ at[q] # "count"
    BY DEF ControlInv, ArgsInv, TraceInv, Fits, Finding
  <2>2. op # "bcast"
    OBVIOUS
  <2> HIDE DEF n
  <2> QED BY <1>1, <1>2, <1>3, <2>1, <2>2, BcastSteps DEF Runs
<1>5. CASE Stays(q)
  BY <1>1, <1>5 DEF Told, Stays, ToAll
<1>6. ASSUME NEW e, Grows(q, e), n = 0 => e.out = ToAll(<<args[q].buffer>>)
      PROVE  Told(q)'
  <2>1. /\ \A i \in 1 .. n : calls'[q][i] = calls[q][i]
        /\ calls'[q][n + 1] = e
    BY <1>1, <1>6, AppendSequence DEF Grows
  <2>2. CASE n = 0
    <3>1. calls'[q][1] = e
      BY <2>1, <2>2
    <3> QED BY <1>1, <1>6, <2>2, <3>1 DEF Told, ToAll
  <2>3. CASE n # 0
    <3>1. 1 \in 1 .. n
      BY <1>1, <2>3
    <3> QED BY <1>1, <2>1, <2>3, <3>1 DEF Told, ToAll
  <2> QED BY <2>2, <2>3
<1> QED BY <1>4, <1>5, <1>6

(* So the invariant is kept by every step of every rank.                    *)
LEMMA NextTold ==
  ASSUME ControlInv, ToldInv, [Next]_vars
  PROVE  ToldInv'
<1>1. UNCHANGED <<op, light, amount, args>>
  BY DEF Next, Call, Terminated, vars
<1>2. \A r : calls'[r] = calls[r] => (Told(r)' <=> Told(r))
  BY <1>1 DEF Told, ToAll
<1>3. ASSUME NEW q \in Rank, Call(q), op = "bcast_single", light, NEW r \in Rank
      PROVE  Told(r)'
  <2>1. Told(r)
    BY <1>3 DEF ToldInv
  <2>2. CASE r = q
    BY <1>3, <2>1, <2>2, ToldStep
  <2>3. CASE r # q
    <3>1. calls'[r] = calls[r]
      <4>1. DOMAIN calls = Rank
        BY DEF ControlInv
      <4>2. Bcast(q) \/ Return(q) \/ Disagree(q)
        BY <1>3 DEF Call, Gather, Gatherv, Allgather, AllgatherInplace, Allgatherv, Scatter, Scatterv,
               Alltoall, AlltoallInplace, Alltoallv
      <4>3. \A e, next : Enter(q, e, next) => calls'[r] = calls[r]
        BY <2>3, <4>1 DEF Enter
      <4>4. (\E e, next : Enter(q, e, next)) \/ UNCHANGED calls
        BY <4>2 DEF Bcast, Return, Disagree, AssertSame, Reject, Abort, ReceiveFromRoot, Receive
      <4> QED BY <4>3, <4>4
    <3> QED BY <1>2, <2>1, <3>1
  <2> QED BY <2>2, <2>3
<1>4. CASE UNCHANGED vars
  BY <1>1, <1>2, <1>4 DEF vars, ToldInv
<1>5. CASE \E q \in Rank : Call(q)
  BY <1>1, <1>3, <1>5 DEF ToldInv
<1> QED BY <1>4, <1>5 DEF Next, Terminated

(* Nobody has been told anything yet.                                       *)
LEMMA InitTold == Init => ToldInv
<1> SUFFICES ASSUME NEW misuse, InitWith(misuse), NEW r \in Rank
             PROVE  Told(r)
  BY DEF Init, ToldInv
<1>1. calls[r] = << >>
  BY DEF InitWith
<1> QED BY <1>1 DEF Told

(* A rank that is told there is no buffer is told the truth.                *)
LEMMA ToldTrue ==
  ASSUME ControlInv, ToldInv, op = "bcast_single", light, NEW r \in Rank, Runs(r, "root"),
         ~Delivered(r)[Root(r)][1]
  PROVE  MayReject
<1> DEFINE s == Root(r)
<1>1. s \in Rank /\ Root(s) = s /\ args[s].buffer \in BOOLEAN /\ ~Computes(r)
  BY DEF ControlInv, ArgsInv, Comparing
<1>2. Len(calls[r]) = 1 /\ CanLeave(r)
  <2>1. Unit = 1 /\ op \in Bcasts
    BY DEF Unit, Bcasts
  <2> QED BY <2>1, SignalPositions DEF Runs
<1>3. calls[r][1].kind = "MPI_Bcast" /\ calls[r][1].root = s
  <2>1. EntryOK(r, 1, calls[r][1])
    <3>1. 1 \in 1 .. Len(calls[r])
      BY <1>2
    <3> QED BY <3>1 DEF ControlInv, TraceInv
  <2>2. Kinds(Computes(r))[1] = "MPI_Bcast"
    BY DEF Kinds
  <2> QED BY <2>1, <2>2 DEF EntryOK, Compare
<1>4. SendersOf(r) = {s}
  <2>1. calls[r] # << >> /\ Last(calls[r]) = calls[r][1]
    BY <1>2 DEF Last
  <2> QED BY <1>3, <2>1 DEF SendersOf, Senders
<1>5. calls[s][1].out = ToAll(<<args[s].buffer>>)
  <2>1. Len(calls[s]) >= 1
    BY <1>2, <1>4 DEF CanLeave
  <2> QED BY <1>1, <2>1 DEF ToldInv, Told
<1>6. Delivered(r)[s] = <<args[s].buffer>>
  BY <1>2, <1>4, <1>5 DEF Delivered, ToAll
<1>7. ~args[s].buffer
  BY <1>6
<1> QED BY <1>1, <1>7 DEF MayReject, IsRoot

(* What the ranks compare differs only if they disagree.                    *)
LEMMA ValuesDiffer ==
  ASSUME ShapeInv, ArgsInv, NEW r \in Rank, NEW s \in Rank, NEW k, Value(s, k) # Value(r, k)
  PROVE  Disagreement
<1> SUFFICES ASSUME ~Disagreement
             PROVE  Value(s, k) = Value(r, k)
  OBVIOUS
<1>1. Root(s) = Root(r) /\ Computes(s) = Computes(r)
  BY DEF Disagreement, Root, Computes
<1>2. op \in {"allgatherv", "alltoallv"} => args[r].recv_displs = args[s].recv_displs
  BY DEF Disagreement
<1>3. op = "alltoallv" => args[r].send_displs = args[s].send_displs
  BY DEF Disagreement
<1>4. op = "allgather" => Len(Msg(r, r)) = Len(Msg(s, s))
  <2>1. op = "allgather" => amount[r] = amount[s]
    BY DEF Disagreement
  <2>2. op = "allgather" => amount[s] = [t \in Rank |-> amount[s][s]]
    BY DEF ArgsInv
  <2>3. op = "allgather" => amount[r][r] = amount[s][s]
    BY <2>1, <2>2
  <2> QED BY <2>3, UniformIs
<1>5. op = "allgather_inplace" => Len(InitialBuf(r)) = Len(InitialBuf(s))
  BY InitialBufIs DEF Inplace
<1> QED BY <1>1, <1>2, <1>3, <1>4, <1>5 DEF Value

(* A comparison fails only if the ranks disagree.                           *)
LEMMA DisagreeData ==
  ASSUME ControlInv, DataInv, NEW r \in Rank, Disagree(r), UNCHANGED <<op, light, amount, args>>
  PROVE  DataInv'
<1> DEFINE n == Len(calls[r])
<1>1. CanLeave(r) /\ ~Agreed(r) /\ Reject(r) /\ UNCHANGED local /\ at[r] \notin Ended
  BY DEF Disagree
<1>2. /\ n \in Nat /\ n # 0 /\ Last(calls[r]).kind = "is_same_on_all_ranks"
      /\ \E s \in Rank : Delivered(r)[s] # Delivered(r)[r]
  <2>1. calls[r] # << >> /\ IsSequence(calls[r]) /\ n \in Nat
    BY <1>1 DEF Agreed, ControlInv, TraceInv, IsSequence
  <2>2. n # 0
    BY <2>1 DEF IsSequence
  <2> QED BY <1>1, <2>1, <2>2 DEF Agreed
<1>3. Last(calls[r]) = calls[r][n] /\ n \in 1 .. n /\ calls[r] # << >>
  BY <1>2 DEF Last
<1>4. calls[r][n].kind = Compare /\ Kinds(Computes(r))[n] = Compare
  BY <1>2, <1>3 DEF ControlInv, TraceInv, EntryOK, Compare
<1>5. SendersOf(r) = Rank
  BY <1>2, <1>3 DEF SendersOf, Senders
<1>6. ASSUME NEW s \in Rank
      PROVE  Delivered(r)[s] = <<Value(s, n)>>
  <2>1. n <= Len(calls[s]) /\ n \in 1 .. Len(calls[s])
    <3>1. n <= Len(calls[s]) /\ Len(calls[s]) \in Nat
      BY <1>1, <1>5 DEF CanLeave, ControlInv, TraceInv, IsSequence
    <3> QED BY <1>2, <3>1
  <2>2. Kinds(Computes(s))[n] = Compare
    BY <1>3, <1>4, <2>1, KindsMatch
  <2>3. calls[s][n].out = ToAll(<<Value(s, n)>>)
    BY <2>1, <2>2 DEF ControlInv, TraceInv, EntryOK
  <2> QED BY <1>5, <2>3 DEF Delivered, ToAll
<1>7. \E s \in Rank : Value(s, n) # Value(r, n)
  BY <1>2, <1>6
<1>8. Disagreement
  BY <1>7, ValuesDiffer DEF ControlInv, DataInv
<1>9. at[r] = "return" \/ at[r] \in Before
  BY <1>1 DEF ControlInv, TraceInv, Before, Failed, Ended
<1>10. at[r] # "return"
  <2>1. ASSUME at[r] = "return"
        PROVE  FALSE
    <3>1. n = Len(Kinds(Computes(r)))
      BY <2>1 DEF ControlInv, TraceInv, Position, Failed
    <3>2. Kinds(Computes(r))[Len(Kinds(Computes(r)))] # Compare
      BY ChainShape
    <3> QED BY <1>4, <3>1, <3>2
  <2> QED BY <2>1
<1> QED BY <1>1, <1>8, <1>9, <1>10, FailData DEF MayReject

(* The data is written where it is due.                                     *)
LEMMA ReturnData ==
  ASSUME ControlInv, DataInv, NEW r \in Rank, Return(r), UNCHANGED <<op, light, amount, args>>
  PROVE  DataInv'
<1>1. at[r] = "return" /\ CanLeave(r) /\ ArgsInv /\ ShapeInv
  BY DEF Return, Runs, ControlInv, DataInv
<1>2. DOMAIN at = Rank /\ DOMAIN calls = Rank /\ DOMAIN buf = Rank /\ DOMAIN counts = Rank /\ DOMAIN displs = Rank
  BY DEF ControlInv, DataInv
<1>3. at' = [at EXCEPT ![r] = "returned"] /\ UNCHANGED <<calls, counts, displs>>
  BY DEF Return, Go
<1>4. /\ buf[r] = Filled(r) /\ (Sources(r) # {} => displs[r] = DueDispls(r))
      /\ Needed(r) <= SizeAfter(r)
  BY <1>1 DEF DataInv, DataOK, LocalInv
<1>5. Delivered(r) = [s \in Sources(r) |-> Payload(s, r)]
  BY <1>1, DeliveredIs
<1>6. buf' = [buf EXCEPT ![r] = Written(Filled(r), [s \in Sources(r) |-> Payload(s, r)], displs[r])]
  BY <1>4, <1>5 DEF Return
<1>7. Written(Filled(r), [s \in Sources(r) |-> Payload(s, r)], displs[r]) = Done(r)
  <2>1. CASE Sources(r) # {}
    BY <1>4, <2>1 DEF Done
  <2>2. CASE Sources(r) = {}
    BY <2>2 DEF Done, Written
  <2> QED BY <2>1, <2>2
<1>8. /\ DOMAIN buf' = Rank /\ buf'[r] = Done(r)
      /\ \A s \in Rank \ {r} : buf'[s] = buf[s]
  BY <1>2, <1>6, <1>7
<1>9. Beside(r) /\ at'[r] = "returned"
  BY <1>2, <1>3, <1>8 DEF Beside, OthersStay, BufsStay
<1>10. ASSUME NEW k \in 1 .. Len(calls[r])
       PROVE  DataEntryOK(r, k, calls[r][k])'
  <2> DEFINE e == calls[r][k]
  <2>1. DataEntryOK(r, k, e) /\ e' = e
    BY <1>3 DEF DataInv, DataOK
  <2> HIDE DEF e
  <2>2. DataEntryOK(r, k, e)'
    BY <2>1, EntriesStay, Zenon DEF DataEntryOK
  <2> QED BY <2>2 DEF e
<1>11. LocalInv(r)'
  <2>1. Done(r)' = Done(r) /\ Needed(r)' = Needed(r) /\ SizeAfter(r)' = SizeAfter(r)
    BY PromiseStays, OutcomeStays
  <2>2. "returned" \notin Locations \ {"return"} /\ "returned" \notin {"recv displs", "data"} /\ "returned" # "return"
    BY DEF Locations
  <2> QED BY <1>4, <1>8, <1>9, <2>1, <2>2 DEF LocalInv
<1>12. FaultInv(r)'
  BY <1>9 DEF FaultInv
<1>13. DataOK(r)'
  BY <1>3, <1>10, <1>11, <1>12 DEF DataOK
<1> QED BY <1>9, <1>13, OthersData

(* The number a rank of a broadcast hears from the root.                    *)
LEMMA BcastHeard ==
  ASSUME ControlInv, DataInv, NEW r \in Rank, Runs(r, "data"), op = "bcast", Computes(r)
  PROVE  /\ Numbers(r)[Root(r)] = Number(Root(r), r)
         /\ Root(r) \in Rank /\ IsRoot(Root(r))
<1>1. ArgsInv /\ Root(r) \in Rank /\ CanLeave(r)
  BY DEF ControlInv, ArgsInv, Runs
<1>2. op \in Numbering /\ op \in Scatters \cup Bcasts
  BY DEF Numbering, Bcasts
<1>3. Sources(r) = {Root(r)}
  BY <1>1, <1>2, SourcesAre
<1>4. Len(calls[r]) = NumberAt
  <2>1. Pos(r, "data") = NumberAt
    BY DEF Pos, Position, NumberAt
  <2>2. "data" \in Locations /\ at[r] = "data"
    BY DEF Locations, Runs
  <2> QED BY <2>1, <2>2, RunsAt
<1>5. Numbers(r)[Root(r)] = Number(Root(r), r)
  BY <1>1, <1>2, <1>3, <1>4, NumbersAre
<1>6. Root(Root(r)) = Root(r)
  <2>1. /\ NumberAt \in 1 .. Len(Kinds(Computes(r))) - 1
        /\ Kinds(Computes(r))[NumberAt] # Compare
        /\ Senders(Kinds(Computes(r))[NumberAt], Root(r), r) = Sources(r)
    BY <1>2, ChainShape
  <2>2. NumberAt \in Nat \ {0}
    BY <1>2, NumberMoves
  <2> QED BY <1>1, <1>3, <1>4, <2>1, <2>2, Heard
<1> QED BY <1>1, <1>5, <1>6 DEF IsRoot

(* A root with no buffer that is not found out is the only one who is wrong. *)
LEMMA Alone ==
  ASSUME ControlInv, DataInv, SignalInv, NEW r \in Rank, op \in Bcasts, Runs(r, "given"), IsRoot(r), ~args[r].buffer
  PROVE  MayAbort(r)
<1>1. ArgsInv /\ ~Computes(r) /\ light /\ CanLeave(r) /\ Agreed(r) /\ at[r] = "given"
  BY FindingComputes DEF ControlInv, ArgsInv, Runs
<1>2. op = "bcast"
  <2>1. ASSUME op = "bcast_single"
        PROVE  FALSE
    <3>1. Absent(r)
      BY <2>1 DEF Absent
    <3>2. StoppedOK(r)
      BY DEF SignalInv
    <3>3. at[r] \in {"call", "root"} \cup Failed
      BY <2>1, <3>1, <3>2 DEF StoppedOK
    <3> QED BY <1>1, <3>3 DEF Failed
  <2> QED BY <2>1 DEF Bcasts
<1>3. Len(calls[r]) = 2
  <2>1. Unit = 1
    BY <1>1 DEF Unit
  <2> QED BY <1>1, <1>2, <2>1, SignalPositions
<1>4. Known(r, 1) /\ Known(r, 2)
  <2>1. Kinds(Computes(r)) = <<Compare, Compare, "MPI_Bcast">>
    BY <1>1, <1>2 DEF Kinds
  <2>2. Kinds(Computes(r))[1] = Compare /\ Kinds(Computes(r))[2] = Compare
    BY <2>1
  <2>3. 1 \in 1 .. Len(calls[r]) /\ 2 \in 1 .. Len(calls[r])
    BY <1>3
  <2> QED BY <1>1, <2>2, <2>3, Met
<1>5. (\A s \in Rank : Root(s) = Root(r)) /\ (\A s \in Rank : Computes(s) = Computes(r))
  BY <1>1, <1>2, <1>4, SharedAfter
<1>6. ~Disagreement
  BY <1>1, <1>2, <1>5 DEF Disagreement, Root
<1> QED BY <1>2, <1>6 DEF MayAbort

(* The last collective of the broadcasts, at the root and at the others.    *)
LEMMA BcastSends ==
  ASSUME ControlInv, DataInv, NEW r \in Rank, op \in Bcasts, NEW l \in Before, Runs(r, l),
         Moves(r, l, "MPI_Bcast", "return"), NEW n, n = amount[Root(r)][r],
         UNCHANGED <<op, light, amount, args>>,
         IF IsRoot(r)
         THEN /\ Enter(r, Collective("MPI_Bcast", r, ToAll(Slice(buf[r], 0, n)), [s \in {r} |-> n]), "return")
              /\ displs' = [displs EXCEPT ![r] = [s \in {r} |-> 0]] /\ UNCHANGED <<counts, buf>>
         ELSE ReceiveFromRoot(r, "MPI_Bcast", ToAll(Slice(buf[r], 0, n)), n)
  PROVE  DataInv'
<1> DEFINE out == ToAll(Slice(buf[r], 0, n))
           want == [s \in {r} |-> n]
<1>1. ArgsInv /\ ShapeInv /\ "MPI_Bcast" # Compare /\ op \in Scatters \cup Bcasts /\ Root(r) \in Rank
  BY DEF ControlInv, DataInv, Compare, ArgsInv
<1>2. Sends(r) => IsRoot(r)
  BY <1>1 DEF Sends
<1>3. CASE ~IsRoot(r)
  <2>1. ReceiveFromRoot(r, "MPI_Bcast", out, n)
    BY <1>3
  <2> HIDE DEF out
  <2> QED BY <1>1, <1>2, <1>3, <2>1, ReceiveFromRootData
<1>4. CASE IsRoot(r)
  <2>1. Enter(r, Collective("MPI_Bcast", Root(r), out, want), "return")
    BY <1>4 DEF IsRoot
  <2>2. Root(r) = r /\ Sources(r) = {r} /\ ~Receives(r)
    BY <1>1, <1>4, SourcesAre, ReceivesFrom DEF IsRoot
  <2>3. buf[r] = InitialBuf(r) /\ InitialBuf(r) = Msg(r, r)
    BY <1>1, <1>4, StillInitial, InitialBufIs DEF Runs
  <2>4. /\ Len(Msg(r, r)) = n /\ n \in Nat
        /\ Msg(r, r) = [j \in 1 .. n |-> Msg(r, r)[j]]
    BY <1>1, <2>2, MsgIs DEF ShapeInv
  <2>5. Slice(buf[r], 0, n) = Msg(r, r)
    <3>1. \A j \in 1 .. n : 0 + j <= Len(Msg(r, r)) /\ Msg(r, r)[0 + j] = Msg(r, r)[j]
      BY <2>4
    <3>2. Slice(Msg(r, r), 0, n) = Msg(r, r)
      <4> DEFINE m == Msg(r, r)
      <4>1. n \in Nat /\ m = [j \in 1 .. n |-> m[j]] /\ \A j \in 1 .. n : 0 + j <= Len(m) /\ m[0 + j] = m[j]
        BY <2>4, <3>1
      <4> HIDE DEF m
      <4>2. Slice(m, 0, n) = m
        <5>1. \A j \in 1 .. n : (IF 0 + j <= Len(m) THEN m[0 + j] ELSE Over) = m[j]
          BY <4>1
        <5>2. Slice(m, 0, n) = [j \in 1 .. n |-> m[j]]
          BY <5>1, Zenon DEF Slice
        <5> QED BY <4>1, <5>2
      <4> QED BY <4>2 DEF m
    <3> QED BY <2>3, <3>2
  <2>6. \A t \in Rank : out[t] = Payload(r, t)
    <3>1. op \notin Scatters \cup Exchanges
      BY OpsApart
    <3>2. out = ToAll(Msg(r, r))
      BY <2>5
    <3> HIDE DEF out
    <3> QED BY <3>1, <3>2, ToAllIs
  <2>7. buf'[r] = Filled(r) /\ BufsStay(r)
    <3>1. UNCHANGED buf /\ DOMAIN buf = Rank
      BY <1>4 DEF ControlInv
    <3>2. Filled(r) = InitialBuf(r)
      BY <2>2 DEF Filled
    <3> QED BY <2>3, <3>1, <3>2 DEF BufsStay
  <2>8. displs' = [displs EXCEPT ![r] = [s \in {r} |-> 0]] /\ counts' = counts
        /\ DOMAIN displs = Rank /\ DOMAIN counts = Rank
    BY <1>4 DEF DataInv
  <2>9. /\ DOMAIN counts' = Rank /\ DOMAIN displs' = Rank /\ displs'[r] = DueDispls(r)
        /\ \A s \in Rank \ {r} : counts'[s] = counts[s] /\ displs'[s] = displs[s]
    <3>1. DueDispls(r) = [s \in {r} |-> 0]
      BY <1>1, <2>2 DEF DueDispls
    <3> QED BY <2>8, <3>1
  <2>10. \A s \in Sources(r) : want[s] = amount[s][r]
    BY <2>2
  <2>11. Needed(r) <= SizeAfter(r)
    <3>1. Needed(r) = n
      BY <1>1, Layout
    <3>2. SizeAfter(r) = Size(r) /\ Size(r) = n
      BY <2>2, <2>3, <2>4 DEF SizeAfter, Size
    <3> QED BY <2>4, <3>1, <3>2
  <2> HIDE DEF out, want
  <2> QED BY <1>1, <2>1, <2>6, <2>7, <2>9, <2>10, <2>11, LastData
<1> QED BY <1>3, <1>4

(* The steps of the broadcasts.                                             *)
LEMMA BcastData ==
  ASSUME ControlInv, DataInv, SignalInv, ToldInv, NEW r \in Rank, Bcast(r), UNCHANGED <<op, light, amount, args>>
  PROVE  DataInv'
<1> DEFINE first == IF op = "bcast" THEN "call" ELSE "root"
           last  == IF Computes(r) THEN "data" ELSE "given"
           n == IF Computes(r) THEN Numbers(r)[Root(r)] ELSE amount[Root(r)][Root(r)]
<1>1. op \in {"bcast", "bcast_single"} /\ ArgsInv /\ ShapeInv
  BY DEF Bcast, ControlInv, DataInv
<1>2. op \notin Vector /\ op \in Bcasts /\ op \in Scatters \cup Bcasts /\ op \in Uniform
  BY <1>1 DEF Vector, Scatters, Bcasts, Uniform
<1>3. /\ "MPI_Bcast" # Compare
      /\ {"call", "root", "computes", "count", "given", "data"} \subseteq Before
  BY BeforeIs DEF Compare
<1>4. UNCHANGED local => \A next : CountsKept(r, next)
  BY <1>2, KeepsCounts
<1>5. first \in Before /\ last \in Before
  BY <1>3
<1>6. CASE /\ op = "bcast_single" /\ Runs(r, "call") /\ UNCHANGED local
           /\ IF light
              THEN Enter(r, Collective("MPI_Bcast", Root(r), ToAll(<<args[r].buffer>>), [s \in {Root(r)} |-> 1]), "root")
              ELSE Go(r, "root") /\ UNCHANGED calls
  <2>1. Pos(r, "call") = 0 /\ NumberAt = 0
    BY <1>6 DEF Pos, Position, NumberAt
  <2>2. light => Len(Kinds(Computes(r))) = 4
    <3>1. light => Kinds(Computes(r)) = <<"MPI_Bcast", Compare, Compare, "MPI_Bcast">>
      BY <1>6 DEF Kinds
    <3> QED BY <3>1
  <2>3. /\ light => Pos(r, "call") + 1 < Len(Kinds(Computes(r)))
        /\ light /\ Computes(r) => Pos(r, "call") + 1 # NumberAt
    <3> DEFINE p == Pos(r, "call")
               m == Len(Kinds(Computes(r)))
    <3>1. p = 0 /\ NumberAt = 0 /\ (light => m = 4)
      BY <2>1, <2>2
    <3> HIDE DEF p, m
    <3>2. (light => p + 1 < m) /\ (light /\ Computes(r) => p + 1 # NumberAt)
      BY <3>1
    <3> QED BY <3>2 DEF p, m
  <2> QED BY <1>2, <1>3, <1>6, <2>3, FlagData
<1>7. CASE /\ Runs(r, first) /\ UNCHANGED local
           /\ op = "bcast_single" /\ light /\ ~Delivered(r)[Root(r)][1] /\ Reject(r)
  <2>1. first = "root"
    BY <1>7
  <2>2. MayReject
    BY <1>7, <2>1, ToldTrue
  <2>3. at[r] \in Before
    BY <1>5, <1>7 DEF Runs
  <2> QED BY <1>7, <2>2, <2>3, FailData
<1>8. CASE Runs(r, first) /\ AssertSame(r, Root(r), "computes") /\ UNCHANGED local
  <2>1. Comparison(r, first, Root(r), "computes")
    BY <1>1, BcastChains
  <2> HIDE DEF first
  <2> QED BY <1>3, <1>4, <1>5, <1>8, <2>1, AssertSameData
<1>9. CASE /\ Runs(r, "computes")
           /\ AssertSame(r, Computes(r), IF Computes(r) THEN "count" ELSE "given")
           /\ UNCHANGED local
  <2>1. Comparison(r, "computes", Computes(r), IF Computes(r) THEN "count" ELSE "given")
    BY <1>1, BcastChains
  <2>2. CASE Computes(r)
    BY <1>3, <1>4, <1>9, <2>1, <2>2, AssertSameData
  <2>3. CASE ~Computes(r)
    BY <1>3, <1>4, <1>9, <2>1, <2>3, AssertSameData
  <2> QED BY <2>2, <2>3
<1>10. CASE /\ Runs(r, "count")
            /\ Enter(r, Collective("MPI_Bcast", Root(r), ToAll(<<CountToSend(r)>>), [s \in {Root(r)} |-> 1]), "data")
            /\ UNCHANGED local
  <2> DEFINE o == ToAll(<<CountToSend(r)>>)
             w == [s \in {Root(r)} |-> 1]
  <2>1. Computes(r)
    BY <1>10, FindingComputes DEF Finding
  <2>2. op = "bcast"
    BY <1>1, <2>1 DEF ArgsInv
  <2>3. \A s \in Senders("MPI_Bcast", Root(r), r) : w[s] = 1
    BY DEF Senders
  <2>4. \A t \in Rank : o[t] = <<CountToSend(r)>> /\ Len(o[t]) = 1
    BY DEF ToAll
  <2>5. Pos(r, "count") + 1 = NumberAt
    BY <2>2 DEF Pos, Position, NumberAt
  <2>6. Sends(r) => \A t \in Rank : CountToSend(r) = Number(r, t)
    <3> SUFFICES ASSUME IsRoot(r), NEW t \in Rank
                 PROVE  CountToSend(r) = Number(r, t)
      BY <1>2 DEF Sends
    <3>1. CASE ~args[r].buffer
      BY <2>2, <3>1 DEF CountToSend, Number
    <3>2. CASE args[r].buffer
      <4>1. buf[r] = InitialBuf(r) /\ InitialBuf(r) = Msg(r, r)
        BY <1>1, <1>2, <1>3, <1>10, StillInitial, InitialBufIs DEF Runs
      <4>2. Len(Msg(r, r)) = amount[r][t]
        BY <1>1, <1>2, UniformIs
      <4> QED BY <2>2, <3>2, <4>1, <4>2 DEF CountToSend, Number
    <3> QED BY <3>1, <3>2
  <2>7. Sends(r) => \A t \in Rank : o[t] = <<Number(r, t)>>
    BY <2>4, <2>6
  <2>8. Runs(r, "count") /\ Enter(r, Collective("MPI_Bcast", Root(r), o, w), "data") /\ CountsKept(r, "data")
    BY <1>4, <1>10
  <2> HIDE DEF o, w
  <2>9. op \in Numbering /\ "count" \in Before /\ "data" \in Before /\ \A t \in Rank : Len(o[t]) = 1
    BY <1>3, <2>2, <2>4 DEF Numbering
  <2> QED BY <2>1, <2>3, <2>5, <2>7, <2>8, <2>9, NumberData
<1>11. ASSUME Runs(r, last)
       PROVE  \/ n = amount[Root(r)][r] /\ n \in Nat /\ n # NO_BUF_ON_ROOT
              \/ Computes(r) /\ n = NO_BUF_ON_ROOT /\ MayReject
  <2>1. \A k \in Nat : k # NO_BUF_ON_ROOT
    BY DEF NO_BUF_ON_ROOT
  <2>2. /\ amount[Root(r)][r] \in Nat /\ amount[Root(r)][Root(r)] = amount[Root(r)][r]
    <3>1. Root(r) \in Rank
      BY <1>1 DEF ArgsInv
    <3> QED BY <1>1, <1>2, <3>1, UniformIs
  <2>3. CASE ~Computes(r)
    BY <2>1, <2>2, <2>3
  <2>4. CASE Computes(r)
    <3>1. op = "bcast" /\ Runs(r, "data")
      BY <1>1, <1>11, <2>4 DEF ArgsInv
    <3>2. /\ n = Number(Root(r), r)
          /\ Root(r) \in Rank /\ IsRoot(Root(r))
      BY <2>4, <3>1, BcastHeard
    <3> HIDE DEF n
    <3>3. CASE args[Root(r)].buffer
      BY <2>1, <2>2, <3>2, <3>3 DEF Number
    <3>4. CASE ~args[Root(r)].buffer
      BY <2>4, <3>1, <3>2, <3>4 DEF Number, MayReject
    <3> QED BY <3>3, <3>4
  <2> QED BY <2>3, <2>4
<1>12. CASE Runs(r, last) /\ n = NO_BUF_ON_ROOT /\ Reject(r) /\ UNCHANGED local
  <2>1. MayReject
    BY <1>11, <1>12
  <2>2. at[r] \in Before
    BY <1>5, <1>12 DEF Runs
  <2> QED BY <1>12, <2>1, <2>2, FailData
<1>13. CASE Runs(r, last) /\ n # NO_BUF_ON_ROOT /\ IsRoot(r) /\ ~args[r].buffer /\ Abort(r) /\ UNCHANGED local
  <2>1. ~Computes(r)
    <3>1. ASSUME Computes(r)
          PROVE  FALSE
      <4>1. op = "bcast" /\ Runs(r, "data")
        BY <1>1, <1>13, <3>1 DEF ArgsInv
      <4>2. n = Number(r, r)
        BY <1>13, <3>1, <4>1, BcastHeard DEF IsRoot
      <4> QED BY <1>13, <4>1, <4>2 DEF Number
    <3> QED BY <3>1
  <2>2. MayAbort(r)
    BY <1>2, <1>13, <2>1, Alone
  <2>3. at[r] \in Before
    BY <1>5, <1>13 DEF Runs
  <2> QED BY <1>13, <2>2, <2>3, FailData
<1>14. CASE /\ Runs(r, last) /\ n # NO_BUF_ON_ROOT
            /\ IF IsRoot(r)
               THEN /\ Enter(r, Collective("MPI_Bcast", r, ToAll(Slice(buf[r], 0, n)), [s \in {r} |-> n]), "return")
                    /\ displs' = [displs EXCEPT ![r] = [s \in {r} |-> 0]] /\ UNCHANGED <<counts, buf>>
               ELSE ReceiveFromRoot(r, "MPI_Bcast", ToAll(Slice(buf[r], 0, n)), n)
  <2>1. n = amount[Root(r)][r]
    BY <1>11, <1>14
  <2>2. Moves(r, last, "MPI_Bcast", "return")
    BY <1>1, BcastChains
  <2> HIDE DEF n, last
  <2> QED BY <1>2, <1>5, <1>14, <2>1, <2>2, BcastSends
<1>15. \/ /\ op = "bcast_single" /\ Runs(r, "call") /\ UNCHANGED local
          /\ IF light
             THEN Enter(r, Collective("MPI_Bcast", Root(r), ToAll(<<args[r].buffer>>), [s \in {Root(r)} |-> 1]), "root")
             ELSE Go(r, "root") /\ UNCHANGED calls
       \/ /\ Runs(r, first) /\ UNCHANGED local
          /\ op = "bcast_single" /\ light /\ ~Delivered(r)[Root(r)][1] /\ Reject(r)
       \/ Runs(r, first) /\ AssertSame(r, Root(r), "computes") /\ UNCHANGED local
       \/ /\ Runs(r, "computes")
          /\ AssertSame(r, Computes(r), IF Computes(r) THEN "count" ELSE "given")
          /\ UNCHANGED local
       \/ /\ Runs(r, "count")
          /\ Enter(r, Collective("MPI_Bcast", Root(r), ToAll(<<CountToSend(r)>>), [s \in {Root(r)} |-> 1]), "data")
          /\ UNCHANGED local
       \/ Runs(r, last) /\ n = NO_BUF_ON_ROOT /\ Reject(r) /\ UNCHANGED local
       \/ Runs(r, last) /\ n # NO_BUF_ON_ROOT /\ IsRoot(r) /\ ~args[r].buffer /\ Abort(r) /\ UNCHANGED local
       \/ /\ Runs(r, last) /\ n # NO_BUF_ON_ROOT
          /\ IF IsRoot(r)
             THEN /\ Enter(r, Collective("MPI_Bcast", r, ToAll(Slice(buf[r], 0, n)), [s \in {r} |-> n]), "return")
                  /\ displs' = [displs EXCEPT ![r] = [s \in {r} |-> 0]] /\ UNCHANGED <<counts, buf>>
             ELSE ReceiveFromRoot(r, "MPI_Bcast", ToAll(Slice(buf[r], 0, n)), n)
  BY Zenon DEF Bcast
<1> QED BY <1>6, <1>7, <1>8, <1>9, <1>10, <1>12, <1>13, <1>14, <1>15

--------------------------------------------------------------------------------
(* The initial states, and the theorems                                     *)

(* The receive buffers and the send counts a call starts with.              *)
LEMMA InitRoom ==
  ASSUME NEW misuse, InitWith(misuse), NEW r \in Rank
  PROVE  /\ args[r].policy \in {"no_resize", "grow_only", "resize_to_fit"} /\ args[r].room \in Nat
         /\ op \in Inplace => args[r].policy = "no_resize"
         /\ op \notin Inplace /\ misuse # {} => args[r].policy = "resize_to_fit"
         /\ args[r].slack \in Slack \cup {0}
<1> DEFINE Rooms == CASE op \in Inplace -> {<<"no_resize", 0>>}
                      [] misuse # {} -> {<<"resize_to_fit", 0>>}
                      [] OTHER -> RecvBuffers
           Slacks == IF op \in {"alltoallv", "scatterv"} THEN Slack ELSE {0}
<1>1. PICK root \in PerRank(misuse, "root", IF op \in Rooted THEN Roots ELSE {0}),
           counted \in PerRank(misuse, "counts", CountArguments),
           ignored \in IF op = "gatherv" THEN BOOLEAN ELSE {FALSE},
           sent \in PerRank(misuse, "send_displs", IF op \in {"alltoallv", "scatterv"} THEN SendDispls ELSE {"omitted"}),
           placed \in PerRank(misuse, "recv_displs",
                              IF op \in {"gatherv", "allgatherv", "alltoallv"} THEN {"given", "omitted"} ELSE {"omitted"}),
           has \in PerRank(misuse, "buffer", IF "buffer" \in misuse /\ op \in Bcasts
                                     THEN BOOLEAN ELSE {TRUE}),
           room \in [Rank -> Rooms],
           slack \in Slacks :
        args = [q \in Rank |->
                 [root |-> root[q], send_displs |-> sent[q], recv_displs |-> placed[q],
                  counts |-> IF ignored /\ counted[q] = "omitted" /\ q # root[q] THEN "ignored" ELSE counted[q],
                  buffer |-> has[q], slack |-> slack, policy |-> room[q][1], room |-> room[q][2]]]
  BY Zenon DEF InitWith
<1>2. args[r].policy = room[r][1] /\ args[r].room = room[r][2] /\ args[r].slack = slack
  BY <1>1
<1>3. room[r] \in Rooms
  BY <1>1
<1>4. slack \in Slack \cup {0}
  BY <1>1
<1>5. CASE op \in Inplace
  <2>1. misuse # {} => op \in Asserting(misuse)
    BY DEF InitWith
  <2>2. misuse = {}
    BY <1>5, <2>1 DEF Asserting, Bcasts, Comparing, Inplace
  <2>3. room[r] = <<"no_resize", 0>>
    BY <1>3, <1>5, <2>2
  <2> QED BY <1>2, <1>4, <1>5, <2>2, <2>3
<1>6. CASE op \notin Inplace /\ misuse # {}
  <2>1. room[r] = <<"resize_to_fit", 0>>
    BY <1>3, <1>6
  <2> QED BY <1>2, <1>4, <1>6, <2>1
<1>7. CASE op \notin Inplace /\ misuse = {}
  <2>1. room[r] \in {"no_resize", "grow_only", "resize_to_fit"} \X Nat
    BY <1>3, <1>7, ArgumentsAssumption
  <2> QED BY <1>2, <1>4, <1>7, <2>1
<1> QED BY <1>5, <1>6, <1>7

(* The messages a call starts with.                                         *)
LEMMA InitAmounts ==
  ASSUME NEW misuse, InitWith(misuse)
  PROVE  /\ amount \in [Rank -> [Rank -> Nat]]
         /\ op \in Uniform => \A s, t \in Rank : amount[s][t] = amount[0][0]
         /\ op \in {"gatherv", "allgatherv", "allgather"} => \A s, t \in Rank : amount[s][t] = amount[s][s]
         /\ op = "scatterv" => \A s, t \in Rank : amount[s][t] = amount[t][t]
         /\ op \in {"scatter_single", "bcast_single"} => amount[0][0] = 1
<1>1. amount \in AmountsOf(misuse) /\ Amounts \subseteq Nat /\ 0 \in Rank
  BY ArgumentsAssumption, RankIs DEF InitWith
<1> DEFINE free == op = "alltoallv" /\ misuse = {}
           rows == op \in {"gatherv", "allgatherv"} \/ (op = "allgather" /\ "amount" \in misuse)
           single == op \in {"scatter_single", "bcast_single"}
<1>2. CASE free
  <2>1. amount \in [Rank -> [Rank -> Amounts]]
    BY <1>1, <1>2 DEF AmountsOf
  <2>2. amount \in [Rank -> [Rank -> Nat]]
    BY <1>1, <2>1
  <2> QED BY <1>2, <2>2 DEF Uniform
<1>3. CASE rows
  <2>1. PICK a \in [Rank -> Amounts] : amount = [s \in Rank |-> [t \in Rank |-> a[s]]]
    BY <1>1, <1>3 DEF AmountsOf
  <2>2. \A s, t \in Rank : amount[s][t] = a[s] /\ a[s] \in Nat
    BY <1>1, <2>1
  <2>3. amount \in [Rank -> [Rank -> Nat]]
    BY <2>1, <2>2
  <2>4. op \notin Uniform /\ op # "scatterv" /\ ~single
    BY <1>3 DEF Uniform
  <2> QED BY <2>2, <2>3, <2>4
<1>4. CASE op = "scatterv"
  <2>1. PICK a \in [Rank -> Amounts] : amount = [s \in Rank |-> a]
    BY <1>1, <1>4 DEF AmountsOf
  <2>2. \A s, t \in Rank : amount[s][t] = a[t] /\ a[t] \in Nat
    BY <1>1, <2>1
  <2>3. amount \in [Rank -> [Rank -> Nat]]
    BY <1>1, <2>1
  <2>4. op \notin Uniform /\ op \notin {"gatherv", "allgatherv", "allgather"} /\ ~single
    BY <1>4 DEF Uniform
  <2> QED BY <2>2, <2>3, <2>4
<1>5. CASE single
  <2>1. amount = [s \in Rank |-> [t \in Rank |-> 1]]
    BY <1>1, <1>5 DEF AmountsOf
  <2>2. \A s, t \in Rank : amount[s][t] = 1
    BY <2>1
  <2>3. amount \in [Rank -> [Rank -> Nat]]
    BY <2>1
  <2> QED BY <1>1, <2>2, <2>3
<1>6. CASE ~free /\ ~rows /\ op # "scatterv" /\ ~single
  <2>1. PICK n \in Amounts : amount = [s \in Rank |-> [t \in Rank |-> n]]
    BY <1>1, <1>6 DEF AmountsOf
  <2>2. \A s, t \in Rank : amount[s][t] = n
    BY <2>1
  <2>3. amount \in [Rank -> [Rank -> Nat]]
    BY <1>1, <2>1
  <2> QED BY <1>1, <1>6, <2>2, <2>3
<1> QED BY <1>2, <1>3, <1>4, <1>5, <1>6

(* Ranks that are not to disagree do not.                                   *)
LEMMA InitAgree ==
  ASSUME InitWith({})
  PROVE  ~Disagreement
<1> DEFINE misuse == {}
<1>1. PICK root, counted, ignored, sent, placed, has :
        InitArgs({}, root, counted, ignored, sent, placed, has)
  BY InitHasArgs
<1>2. ASSUME NEW r \in Rank, NEW s \in Rank
      PROVE  /\ root[r] = root[s] /\ counted[r] = counted[s] /\ sent[r] = sent[s] /\ placed[r] = placed[s]
             /\ has[r] = TRUE
  <2>1. "root" \notin {} /\ "counts" \notin {} /\ "send_displs" \notin {} /\ "recv_displs" \notin {} /\ "buffer" \notin {}
    OBVIOUS
  <2>2. root[r] = root[s] /\ counted[r] = counted[s] /\ sent[r] = sent[s] /\ placed[r] = placed[s]
    BY <1>1, <2>1, PerRankValues DEF InitArgs
  <2>3. has[r] \in IF "buffer" \in {} /\ op \in Bcasts THEN BOOLEAN ELSE {TRUE}
    BY <1>1, PerRankValues DEF InitArgs
  <2> QED BY <2>2, <2>3
<1>3. \A r \in Rank : Computes(r) = (counted[r] # "given")
  BY <1>1 DEF Computes, InitArgs
<1>4. \A r, s \in Rank : Computes(r) = Computes(s)
  BY <1>2, <1>3
<1>5. \A r, s \in Rank : /\ args[r].root = args[s].root
                         /\ args[r].recv_displs = args[s].recv_displs
                         /\ args[r].send_displs = args[s].send_displs
                         /\ args[r].buffer
  <2>1. \A r \in Rank : /\ args[r].root = root[r] /\ args[r].send_displs = sent[r]
                        /\ args[r].recv_displs = placed[r] /\ args[r].buffer = has[r]
    BY <1>1 DEF InitArgs
  <2>2. \A r \in Rank : args[r].buffer = TRUE
    BY <1>2, <2>1
  <2>3. \A r \in Rank : args[r].buffer
    BY <2>2
  <2>4. ASSUME NEW r \in Rank, NEW s \in Rank
        PROVE  /\ args[r].root = args[s].root
               /\ args[r].recv_displs = args[s].recv_displs
               /\ args[r].send_displs = args[s].send_displs
    <3>1. root[r] = root[s] /\ sent[r] = sent[s] /\ placed[r] = placed[s]
      BY <1>2
    <3> QED BY <2>1, <3>1
  <2> QED BY <2>3, <2>4
<1>6. op = "allgather" => \A r, s \in Rank : amount[r] = amount[s]
  <2>1. amount \in AmountsOf({})
    BY DEF InitWith
  <2>2. "amount" \notin {}
    OBVIOUS
  <2>3. ASSUME op = "allgather", NEW r \in Rank, NEW s \in Rank
        PROVE  amount[r] = amount[s]
    BY <2>1, <2>2, <2>3, AllgatherAmounts
  <2> QED BY <2>3
<1> QED BY <1>4, <1>5, <1>6 DEF Disagreement

(* What the ranks are given is in shape.                                    *)
LEMMA InitShape ==
  ASSUME NEW misuse, InitWith(misuse)
  PROVE  ShapeInv
<1>1. PICK root, counted, ignored, sent, placed, has :
        InitArgs(misuse, root, counted, ignored, sent, placed, has)
  BY InitHasArgs
<1>2. ASSUME NEW r \in Rank
      PROVE  /\ sent[r] \in IF op \in {"alltoallv", "scatterv"} THEN SendDispls ELSE {"omitted"}
             /\ placed[r] \in IF op \in {"gatherv", "allgatherv", "alltoallv"} THEN {"given", "omitted"} ELSE {"omitted"}
             /\ has[r] \in IF "buffer" \in misuse /\ op \in Bcasts THEN BOOLEAN ELSE {TRUE}
             /\ counted[r] \in CountArguments
  BY <1>1, PerRankValues DEF InitArgs
<1>3. ASSUME NEW r \in Rank
      PROVE  /\ args[r].send_displs = sent[r] /\ args[r].recv_displs = placed[r] /\ args[r].buffer = has[r]
             /\ args[r].counts = IF ignored /\ counted[r] = "omitted" /\ r # root[r] THEN "ignored" ELSE counted[r]
             /\ args[r].root = root[r]
  BY <1>1 DEF InitArgs
<1>4. Disagreement => misuse # {} /\ op \notin Inplace
  <2>1. misuse # {} => op \in Asserting(misuse)
    BY DEF InitWith
  <2>2. misuse # {} => op \notin Inplace
    BY <2>1 DEF Asserting, Bcasts, Comparing, Inplace
  <2> QED BY <2>2, InitAgree
<1>5. ASSUME NEW r \in Rank
      PROVE  /\ op \notin {"alltoallv", "scatterv"} => args[r].send_displs = "omitted"
             /\ op \notin {"gatherv", "allgatherv", "alltoallv"} => args[r].recv_displs = "omitted"
             /\ op \notin Bcasts => args[r].buffer
  <2>1. op \notin Bcasts => has[r] = TRUE
    BY <1>2, <1>5
  <2>2. op \notin Bcasts => args[r].buffer = TRUE
    BY <1>3, <1>5, <2>1
  <2>3. op \notin Bcasts => args[r].buffer
    BY <2>2
  <2> QED BY <1>2, <1>3, <1>5, <2>3
<1>6. ASSUME NEW r \in Rank, IsRoot(r)
      PROVE  args[r].counts # "ignored"
  <2>1. counted[r] # "ignored"
    BY <1>2 DEF CountArguments
  <2> QED BY <1>3, <1>6, <2>1 DEF IsRoot, Root
<1>7. \A r \in Rank : Disagreement => args[r].policy = "resize_to_fit"
  BY <1>4, InitRoom
<1>8. \A r \in Rank : /\ args[r].policy \in {"no_resize", "grow_only", "resize_to_fit"} /\ args[r].room \in Nat
                      /\ op \in Inplace => args[r].policy = "no_resize"
                      /\ args[r].slack \in Slack \cup {0}
  BY InitRoom
<1> QED BY <1>5, <1>6, <1>7, <1>8, InitAmounts DEF ShapeInv

(* No collective has been entered yet.                                      *)
LEMMA InitData == Init => DataInv
<1> SUFFICES ASSUME NEW misuse, InitWith(misuse)
             PROVE  DataInv
  BY DEF Init
<1>1. /\ at = [r \in Rank |-> "call"] /\ calls = [r \in Rank |-> << >>]
      /\ buf = [r \in Rank |-> InitialBuf(r)]
      /\ DOMAIN counts = Rank /\ DOMAIN displs = Rank
  BY DEF InitWith
<1>2. ASSUME NEW r \in Rank
      PROVE  DataOK(r)
  <2>1. at[r] = "call" /\ calls[r] = << >> /\ buf[r] = InitialBuf(r)
    BY <1>1
  <2>2. LocalInv(r) /\ FaultInv(r)
    BY <2>1 DEF LocalInv, FaultInv
  <2>3. \A k \in 1 .. Len(calls[r]) : FALSE
    BY <2>1
  <2> QED BY <2>2, <2>3 DEF DataOK
<1> QED BY <1>1, <1>2, InitShape DEF DataInv

(* Every step of every rank keeps the invariant.                            *)
LEMMA NextData ==
  ASSUME ControlInv, DataInv, SignalInv, ToldInv, [Next]_vars
  PROVE  DataInv'
<1>1. ASSUME NEW r \in Rank, Call(r)
      PROVE  DataInv'
  <2>1. UNCHANGED <<op, light, amount, args>>
    BY <1>1 DEF Call
  <2> QED BY <1>1, <2>1, GatherData, GathervData, AllgatherData, AllgatherInplaceData, AllgathervData,
             ScatterData, ScattervData, AlltoallData, AlltoallInplaceData, AlltoallvData, BcastData, ReturnData,
             DisagreeData DEF Call
<1>2. CASE UNCHANGED vars
  <2>1. UNCHANGED <<op, light, amount, args>> /\ UNCHANGED <<at, calls, counts, displs, buf>>
    BY <1>2 DEF vars
  <2>2. ShapeInv'
    BY <2>1, OutcomeStays DEF DataInv
  <2>3. ASSUME NEW r \in Rank
        PROVE  DataOK(r)'
    <3>1. DataOK(r)
      BY DEF DataInv
    <3>2. ASSUME NEW k \in 1 .. Len(calls[r])
          PROVE  DataEntryOK(r, k, calls[r][k])'
      <4> DEFINE e == calls[r][k]
      <4>1. DataEntryOK(r, k, e) /\ e' = e
        BY <2>1, <3>1 DEF DataOK
      <4> HIDE DEF e
      <4>2. DataEntryOK(r, k, e)'
        BY <2>1, <4>1, EntriesStay, Zenon DEF DataEntryOK
      <4> QED BY <4>2 DEF e
    <3>3. LocalInv(r)'
      <4>1. /\ Filled(r)' = Filled(r) /\ Sources(r)' = Sources(r) /\ DueDispls(r)' = DueDispls(r)
            /\ Needed(r)' = Needed(r) /\ SizeAfter(r)' = SizeAfter(r) /\ Due(r)' = Due(r)
            /\ Done(r)' = Done(r) /\ InitialBuf(r)' = InitialBuf(r)
        BY <2>1, PromiseStays, OutcomeStays, ArgumentsStay
      <4> QED BY <2>1, <3>1, <4>1 DEF LocalInv, DataOK
    <3>4. FaultInv(r)'
      BY <2>1, <3>1, OutcomeStays DEF FaultInv, DataOK
    <3> QED BY <2>1, <3>2, <3>3, <3>4 DEF DataOK
  <2> QED BY <2>1, <2>2, <2>3 DEF DataInv
<1> QED BY <1>1, <1>2 DEF Next, Terminated

(* The invariant of the whole wrapper, control and data.                    *)
WholeInv == ControlInv /\ SignalInv /\ ToldInv /\ DataInv

(* Whatever the wrapper, the arguments and the number of ranks: the counts a rank finds are   *)
(* those of the messages, its buffer holds what the data needs, and who fails has a reason.   *)
THEOREM WholeInvariant == Spec => []WholeInv
<1>1. Init => WholeInv
  BY InitInv, InitSignal, InitTold, InitData DEF WholeInv
<1>2. WholeInv /\ [Next]_vars => WholeInv'
  BY NextInv, NextSignal, NextTold, NextData DEF WholeInv
<1> QED BY <1>1, <1>2, PTL DEF Spec

(* Between ranks that meet in a collective the counts match, for all wrappers, arguments and   *)
(* numbers of ranks: what a rank expects from another is what that one sends to it.            *)
THEOREM CountsAgree == Spec => []CountsMatch
<1>1. WholeInv => CountsMatch
  BY DataCounts DEF WholeInv
<1> QED BY <1>1, WholeInvariant, PTL

(* What a returned call has received: every message, whole and where it is due, in a buffer    *)
(* resized as its policy says and else untouched, for all wrappers, arguments and numbers of   *)
(* ranks.                                                                                      *)
THEOREM CallsReturnTheirPromise == Spec => []ReturnsPromise
<1>1. ASSUME WholeInv
      PROVE  ReturnsPromise
  <2> SUFFICES ASSUME NEW r \in Rank, at[r] = "returned"
               PROVE  /\ Len(buf[r]) = SizeAfter(r)
                      /\ \A s \in DOMAIN Promised(r) : \A j \in DOMAIN Promised(r)[s] :
                           /\ Place(r, s) + j <= Len(buf[r])
                           /\ buf[r][Place(r, s) + j] = Promised(r)[s][j]
                      /\ \A k \in DOMAIN buf[r] \ UNION {Cells(r, s) : s \in DOMAIN Promised(r)} :
                           buf[r][k] = IF k <= Size(r) THEN InitialBuf(r)[k] ELSE New
    BY DEF ReturnsPromise
  <2>1. ShapeInv /\ ArgsInv
    BY <1>1 DEF WholeInv, ControlInv, DataInv
  <2>2. buf[r] = Done(r) /\ Needed(r) <= SizeAfter(r)
    BY <1>1 DEF WholeInv, DataInv, DataOK, LocalInv
  <2> QED BY <2>1, <2>2, DoneIs
<1> QED BY <1>1, WholeInvariant, PTL

(* No assertion fails on legal arguments with data in them.  A caller of alltoallv or scatterv  *)
(* whose send_counts has more entries than there are ranks is left out: the documentation lets  *)
(* the vector be larger, the alltoall in the wrapper refuses it.                                *)
THEOREM LegalCallsReturn ==
  ASSUME Slack \subseteq {0}
  PROVE  Spec => []LegalReturns
<1>1. ASSUME WholeInv
      PROVE  LegalReturns
  <2> SUFFICES ASSUME Legal, NonEmpty, NEW r \in Rank
               PROVE  at[r] \notin {"aborted", "rejected"}
    BY DEF LegalReturns
  <2>1. ShapeInv /\ ArgsInv /\ FaultInv(r)
    BY <1>1 DEF WholeInv, ControlInv, DataInv, DataOK
  <2>2. ~MayReject
    BY DEF MayReject, Legal
  <2>3. args[r].slack = 0
    BY <2>1 DEF ShapeInv
  <2>4. ASSUME Receives(r)
        PROVE  ~(Needed(r) > SizeAfter(r))
    <3>1. Needed(r) \in Nat /\ Size(r) \in Nat
      BY <2>1, Layout, FilledIs
    <3>2. args[r].policy = "no_resize" => Size(r) >= Needed(r)
      BY <2>4 DEF Legal
    <3>3. args[r].policy \in {"no_resize", "grow_only", "resize_to_fit"}
      BY <2>1 DEF ShapeInv
    <3>4. CASE args[r].policy = "no_resize"
      BY <2>4, <3>1, <3>2, <3>4 DEF SizeAfter
    <3>5. CASE args[r].policy = "grow_only"
      BY <2>4, <3>1, <3>5 DEF SizeAfter
    <3>6. CASE args[r].policy = "resize_to_fit"
      BY <2>4, <3>1, <3>6 DEF SizeAfter
    <3> QED BY <3>3, <3>4, <3>5, <3>6
  <2>5. ~(op = "bcast" /\ IsRoot(r) /\ ~args[r].buffer /\ ~Disagreement)
    BY DEF Legal
  <2>6. ~MayAbort(r)
    BY <2>3, <2>4, <2>5 DEF MayAbort
  <2> QED BY <2>1, <2>2, <2>6 DEF FaultInv
<1> QED BY <1>1, WholeInvariant, PTL

(* Ranks that disagree are told, each of them: none returns and, with data to send, none fails  *)
(* on its own, which would leave the others waiting.                                            *)
THEOREM MisuseIsRejected ==
  ASSUME Slack \subseteq {0}
  PROVE  Spec => []MisuseRejected
<1>1. ASSUME WholeInv, MisuseNoticed
      PROVE  MisuseRejected
  <2> SUFFICES ASSUME Disagreement, NonEmpty, NEW r \in Rank, at[r] = "aborted"
               PROVE  FALSE
    BY <1>1 DEF MisuseRejected
  <2>1. ShapeInv /\ ArgsInv /\ MayAbort(r)
    BY <1>1 DEF WholeInv, ControlInv, DataInv, DataOK, FaultInv
  <2>2. args[r].slack = 0 /\ args[r].policy = "resize_to_fit"
    BY <2>1 DEF ShapeInv
  <2>3. Receives(r) => SizeAfter(r) = Needed(r)
    BY <2>2 DEF SizeAfter
  <2>4. Needed(r) \in Nat
    BY <2>1, Layout
  <2>5. ~(Receives(r) /\ Needed(r) > SizeAfter(r))
    BY <2>3, <2>4
  <2> QED BY <2>1, <2>2, <2>5 DEF MayAbort
<1> QED BY <1>1, WholeInvariant, MisuseIsNoticed, PTL
================================================================================

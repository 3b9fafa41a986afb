--------------------------- MODULE Reductions_proofs ---------------------------
(***************************************************************************)
(* What the reductions return, for any number of ranks, sizes, roots and   *)
(* rounds. The k-th collective of a rank follows from k and from its       *)
(* arguments alone: in each round the comparisons of the assertions, in a  *)
(* fixed order, then the reduction. So the k-th ones of two ranks meet,    *)
(* and a rank that has passed a comparison knows what all have given.      *)
(***************************************************************************)
EXTENDS Reductions, TLAPS, FiniteSetTheorems, SequenceTheorems

AllreduceOps == {"allreduce", "allreduce_inplace", "allreduce_single"}
ScanOps      == {"scan", "scan_inplace", "scan_single"}
WrapperOps   == Reduces \cup AllreduceOps \cup ScanOps \cup Exscans

(* The comparisons of a call.                                               *)
Checks == IF op \in Reduces \cup {"exscan", "exscan_single"} THEN 2 ELSE 1
First(r) == IF op \in {"exscan", "exscan_single"} THEN args[r].size ELSE CountOf(r)
Second(r) == IF op \in Reduces THEN args[r].root ELSE CountOf(r)

FirstShared(r) == \A s \in Rank : First(s) = First(r)
SecondShared(r) == \A s \in Rank : Second(s) = Second(r)

(* The reduction of a call.                                                 *)
DataKind ==
  CASE op \in Reduces      -> "MPI_Reduce"
    [] op \in AllreduceOps -> "MPI_Allreduce"
    [] op \in ScanOps      -> "MPI_Scan"
    [] OTHER               -> "MPI_Exscan"
Data(r) == Collective(DataKind, args[r].root, ToAll(Slice(Elements(r), 0, CountOf(r))), None)

(* How many comparisons of the current round are among n collectives.       *)
Phase(n) == IF ~light THEN 0 ELSE IF Checks = 2 THEN n % 3 ELSE n % 2

(* The n-th collective of a rank.                                           *)
Entry(r, n) ==
  IF Phase(n) = 0 THEN Data(r)
  ELSE IF Phase(n) = 1 THEN Same(First(r)) ELSE Same(Second(r))
Entries(r) == {Data(r), Same(First(r)), Same(Second(r))}

Failed == {"aborted", "rejected"}
Before == {"call", "root", "count", "data"}
Label == Before \cup Failed \cup {"reduced", "returned"}

(* The comparisons entered at a location.                                   *)
Offset(location) ==
  IF ~light THEN 0
  ELSE CASE location \in {"root", "count"} -> 1
         [] location = "data"              -> Checks
         [] OTHER                          -> 0

ArgsInv ==
  /\ op \in WrapperOps /\ light \in BOOLEAN /\ operation \in Operations
  /\ DOMAIN args = Rank
  /\ \A r \in Rank :
       /\ args[r].size \in Nat /\ CountOf(r) \in Nat /\ CountOf(r) <= args[r].size
       /\ args[r].room \in Nat /\ args[r].policy \in {"no_resize", "grow_only", "resize_to_fit"}
       /\ op \in Singles => args[r].size = 1
  /\ light \/ \A r, s \in Rank : args[r] = args[s]

TypeInv ==
  /\ DOMAIN at = Rank /\ DOMAIN calls = Rank /\ DOMAIN buf = Rank
  /\ DOMAIN func = Rank /\ DOMAIN round = Rank

TraceInv(r) ==
  /\ calls[r] \in Seq(Entries(r))
  /\ \A n \in 1 .. Len(calls[r]) : calls[r][n] = Entry(r, n)
  /\ at[r] \in Label
  /\ at[r] \notin Failed => Phase(Len(calls[r])) = Offset(at[r])
  /\ at[r] = "root" => op \in Reduces
  /\ at[r] = "count" => op \in {"exscan", "exscan_single"}
  /\ at[r] = "reduced" => Len(calls[r]) # 0

(* What a rank knows of the others.                                         *)
PassedInv(r) ==
  light =>
    /\ at[r] = "data" /\ Checks = 2 => FirstShared(r)
    /\ at[r] \in {"reduced", "returned"} => FirstShared(r) /\ (Checks = 2 => SecondShared(r))

SoundInv(r) == Legal => at[r] \notin Failed

(* The loop calls the operation it was given: a functor captures nothing,   *)
(* and of a lambda the static copy is the first.                            *)
Faithful == "functor" \notin Operations /\ ("lambda" \in Operations => Rounds <= 1)

(* The wrapper has built its operation at a location.                       *)
Built(l) == l = "reduced" \/ (l \in {"root", "data"} /\ op \in Reduces \cup AllreduceOps)

FuncInv(r) ==
  /\ round[r] \in Nat \ {0} /\ (round[r] # 1 => round[r] <= Rounds)
  /\ Faithful /\ operation = "lambda" =>
       /\ func[r] \in {Nothing, 1}
       /\ Built(at[r]) => func[r] = 1

(* The receive buffer when the reduction is entered.                        *)
Resized(r) ==
  IF HasResult(r) /\ op # "allreduce_inplace"
  THEN ResizeIfRequested(InitialBuf(r), args[r].policy, CountOf(r))
  ELSE InitialBuf(r)

Result(r) ==
  /\ Len(buf[r]) = SizeAfter(r)
  /\ Faithful /\ HasResult(r) => \A j \in 1 .. CountOf(r) : buf[r][j] = Promised(r, j)
  /\ \A k \in DOMAIN buf[r] :
       ~HasResult(r) \/ k > CountOf(r) =>
         buf[r][k] = IF k <= Len(InitialBuf(r)) THEN InitialBuf(r)[k] ELSE New

BufInv(r) ==
  /\ at[r] \in Before => buf[r] = InitialBuf(r)
  /\ at[r] = "reduced" =>
       buf[r] = Resized(r) /\ (HasResult(r) => CountOf(r) <= Len(buf[r]))
  /\ at[r] = "returned" => Result(r)

RankInv(r) == TraceInv(r) /\ PassedInv(r) /\ SoundInv(r) /\ FuncInv(r) /\ BufInv(r)

IInv == ArgsInv /\ TypeInv /\ \A r \in Rank : RankInv(r)

--------------------------------------------------------------------------------
(* The order of the collectives                                             *)

LEMMA PhaseStep ==
  ASSUME ArgsInv, NEW n \in Nat
  PROVE  /\ Phase(0) = 0
         /\ Phase(n) \in 0 .. Checks
         /\ Phase(n + 1) = IF light /\ Phase(n) # Checks THEN Phase(n) + 1 ELSE 0
<1>1. Checks = 1 \/ Checks = 2
  BY DEF Checks
<1>2. /\ 0 % 3 = 0 /\ 0 % 2 = 0
      /\ n % 3 \in 0 .. 2 /\ (n + 1) % 3 = (IF n % 3 = 2 THEN 0 ELSE (n % 3) + 1)
      /\ n % 2 \in 0 .. 1 /\ (n + 1) % 2 = (IF n % 2 = 1 THEN 0 ELSE (n % 2) + 1)
  OBVIOUS
<1>3. light \in BOOLEAN
  BY DEF ArgsInv
<1> QED BY <1>1, <1>2, <1>3 DEF Phase

(* The collective that comes next.                                          *)
LEMMA NextEntry ==
  ASSUME ArgsInv, NEW r, NEW n \in Nat
  PROVE  /\ ~light => Entry(r, n + 1) = Data(r) /\ Phase(n + 1) = 0
         /\ light /\ Phase(n) = 0 => Entry(r, n + 1) = Same(First(r)) /\ Phase(n + 1) = 1
         /\ light /\ Checks = 2 /\ Phase(n) = 1 => Entry(r, n + 1) = Same(Second(r)) /\ Phase(n + 1) = 2
         /\ light /\ Phase(n) = Checks => Entry(r, n + 1) = Data(r) /\ Phase(n + 1) = 0
<1>1. Checks = 1 \/ Checks = 2
  BY DEF Checks
<1>2. Phase(n + 1) = IF light /\ Phase(n) # Checks THEN Phase(n) + 1 ELSE 0
  BY PhaseStep
<1> QED BY <1>1, <1>2 DEF Entry

LEMMA OneMore ==
  ASSUME NEW S, NEW t \in Seq(S), NEW x \in S
  PROVE  /\ Append(t, x) \in Seq(S)
         /\ Len(Append(t, x)) = Len(t) + 1
         /\ \A m \in 1 .. Len(t) : Append(t, x)[m] = t[m]
         /\ Append(t, x)[Len(t) + 1] = x
OBVIOUS

(* The last collective of a rank, and what it sends to the others.          *)
LEMMA LastEntry ==
  ASSUME NEW r \in Rank, TraceInv(r), calls[r] # <<>>
  PROVE  /\ Len(calls[r]) \in Nat /\ Len(calls[r]) # 0
         /\ Last(calls[r]) = Entry(r, Len(calls[r]))
<1>1. calls[r] \in Seq(Entries(r))
  BY DEF TraceInv
<1>2. Len(calls[r]) \in Nat /\ Len(calls[r]) # 0
  BY <1>1
<1>3. Len(calls[r]) \in 1 .. Len(calls[r])
  BY <1>2
<1>4. calls[r][Len(calls[r])] = Entry(r, Len(calls[r]))
  BY <1>3 DEF TraceInv
<1> QED BY <1>2, <1>4 DEF Last

LEMMA Compared ==
  ASSUME NEW r \in Rank, NEW n, NEW value
  PROVE  /\ Same(value).kind = "is_same_on_all_ranks"
         /\ Same(value).out[r] = <<value>>
         /\ Senders(Same(value).kind, n, r) = Rank
BY DEF Same, Collective, ToAll, Senders

LEMMA Met ==
  ASSUME NEW r \in Rank, \A s \in Rank : TraceInv(s), CanLeave(r), calls[r] # <<>>
  PROVE  \A s \in SendersOf(r) \cap Rank :
           calls[s][Len(calls[r])] = Entry(s, Len(calls[r]))
<1>1. Len(calls[r]) \in Nat /\ Len(calls[r]) # 0
  BY LastEntry
<1> SUFFICES ASSUME NEW s \in SendersOf(r) \cap Rank
             PROVE  calls[s][Len(calls[r])] = Entry(s, Len(calls[r]))
  OBVIOUS
<1>2. Len(calls[s]) >= Len(calls[r])
  BY DEF CanLeave
<1>3. Len(calls[s]) \in Nat
  <2>1. calls[s] \in Seq(Entries(s))
    BY DEF TraceInv
  <2> QED BY <2>1
<1>4. Len(calls[r]) \in 1 .. Len(calls[s])
  BY <1>1, <1>2, <1>3
<1> QED BY <1>4 DEF TraceInv

(* A rank that leaves a comparison has heard what all ranks compared.       *)
LEMMA Heard ==
  ASSUME ArgsInv, NEW r \in Rank, \A s \in Rank : TraceInv(s),
         CanLeave(r), Agreed(r), calls[r] # <<>>,
         NEW given, \A s \in Rank : Entry(s, Len(calls[r])) = Same(given[s])
  PROVE  \A s \in Rank : given[s] = given[r]
<1>1. Last(calls[r]) = Same(given[r])
  BY LastEntry
<1>2. Last(calls[r]).kind = "is_same_on_all_ranks" /\ SendersOf(r) = Rank
  BY <1>1, Compared DEF SendersOf
<1>3. \A s \in Rank : Delivered(r)[s] = Delivered(r)[r]
  BY <1>2 DEF Agreed
<1>4. \A s \in Rank : calls[s][Len(calls[r])] = Same(given[s])
  BY <1>2, Met
<1>5. \A s \in Rank : Delivered(r)[s] = <<given[s]>>
  BY ZenonT(60), <1>2, <1>4, Compared DEF Delivered
<1> QED BY <1>3, <1>5

LEMMA PassesFirst ==
  ASSUME ArgsInv, NEW r \in Rank, \A s \in Rank : TraceInv(s),
         CanLeave(r), Agreed(r), light, Phase(Len(calls[r])) = 1
  PROVE  FirstShared(r)
<1> DEFINE given == [s \in Rank |-> First(s)]
<1>1. calls[r] # <<>>
  <2>1. Phase(0) # 1
    BY PhaseStep
  <2> QED BY <2>1
<1>2. \A s \in Rank : Entry(s, Len(calls[r])) = Same(given[s])
  BY DEF Entry
<1> HIDE DEF given
<1>3. \A s \in Rank : given[s] = given[r]
  BY <1>1, <1>2, Heard
<1> QED BY <1>3 DEF given, FirstShared

LEMMA PassesSecond ==
  ASSUME ArgsInv, NEW r \in Rank, \A s \in Rank : TraceInv(s),
         CanLeave(r), Agreed(r), light, Phase(Len(calls[r])) = 2
  PROVE  SecondShared(r)
<1> DEFINE given == [s \in Rank |-> Second(s)]
<1>1. calls[r] # <<>>
  <2>1. Phase(0) # 2
    BY PhaseStep
  <2> QED BY <2>1
<1>2. \A s \in Rank : Entry(s, Len(calls[r])) = Same(given[s])
  BY DEF Entry
<1> HIDE DEF given
<1>3. \A s \in Rank : given[s] = given[r]
  BY <1>1, <1>2, Heard
<1> QED BY <1>3 DEF given, SecondShared

(* Ranks that do not disagree have nothing to disagree on.                  *)
LEMMA LegalShared ==
  ASSUME ArgsInv, ~Disagreement, NEW r \in Rank
  PROVE  FirstShared(r) /\ SecondShared(r)
<1>1. \A s \in Rank : CountOf(s) = CountOf(r)
  BY DEF Disagreement
<1>2. op \in Reduces => \A s \in Rank : args[s].root = args[r].root
  BY DEF Disagreement
<1>3. op \in {"exscan", "exscan_single"} => \A s \in Rank : args[s].size = args[r].size
  BY DEF Disagreement, ArgsInv, Singles
<1> QED BY <1>1, <1>2, <1>3 DEF FirstShared, SecondShared, First, Second

LEMMA LegalAgreed ==
  ASSUME ArgsInv, ~Disagreement, NEW r \in Rank, \A s \in Rank : TraceInv(s), CanLeave(r)
  PROVE  Agreed(r)
<1> SUFFICES ASSUME calls[r] # <<>>, Last(calls[r]).kind = "is_same_on_all_ranks"
             PROVE  \A s \in Rank : Delivered(r)[s] = Delivered(r)[r]
  BY DEF Agreed
<1> DEFINE n == Len(calls[r])
<1>1. n \in Nat /\ n # 0 /\ Last(calls[r]) = Entry(r, n)
  BY LastEntry
<1>2. Data(r).kind # "is_same_on_all_ranks"
  BY DEF Data, Collective, DataKind
<1>3. Phase(n) # 0
  BY <1>1, <1>2 DEF Entry
<1>4. Entry(r, n) = Same(First(r)) \/ Entry(r, n) = Same(Second(r))
  BY <1>3 DEF Entry
<1>5. SendersOf(r) = Rank
  BY <1>1, <1>4, Compared DEF SendersOf
<1>6. \A s \in Rank : Entry(s, n) = Entry(r, n)
  BY <1>3, LegalShared DEF Entry, FirstShared, SecondShared
<1>7. \A s \in Rank : calls[s][n] = Entry(r, n)
  BY <1>5, <1>6, Met
<1> QED BY <1>5, <1>7 DEF Delivered

(* The reduction meets the reductions of the others.                        *)
LEMMA DataMeets ==
  ASSUME ArgsInv, NEW r \in Rank, \A s \in Rank : TraceInv(s),
         CanLeave(r), calls[r] # <<>>, Phase(Len(calls[r])) = 0, HasResult(r)
  PROVE  /\ SendersOf(r) = Sources(r) /\ Sources(r) \subseteq Rank
         /\ \A s \in Sources(r) : Delivered(r)[s] = Slice(Elements(s), 0, CountOf(s))
<1>1. Last(calls[r]) = Data(r)
  BY LastEntry DEF Entry
<1>2. Last(calls[r]).kind = DataKind /\ Last(calls[r]).root = args[r].root
  BY <1>1 DEF Data, Collective
<1>3. SendersOf(r) = Senders(DataKind, args[r].root, r)
  BY <1>2 DEF SendersOf
<1>4. r \in 0 .. P - 1 /\ P \in Nat
  BY PAssumption DEF Rank
<1>5. 0 .. r \subseteq Rank /\ 0 .. r - 1 \subseteq Rank
  BY <1>4 DEF Rank
<1>6. Senders(DataKind, args[r].root, r) = Sources(r)
  BY DEF ArgsInv, WrapperOps, Reduces, AllreduceOps, ScanOps, Exscans, Senders, DataKind, Sources,
         HasResult, IsRoot
<1>7. Sources(r) \subseteq Rank
  BY <1>5 DEF Sources
<1>8. \A s \in Sources(r) : calls[s][Len(calls[r])] = Data(s)
  BY <1>3, <1>6, <1>7, Met DEF Entry
<1>9. \A s \in Rank : Data(s).out[r] = Slice(Elements(s), 0, CountOf(s))
  BY DEF Data, Collective, ToAll
<1> QED BY <1>3, <1>6, <1>7, <1>8, <1>9 DEF Delivered

--------------------------------------------------------------------------------
(* What a step leaves alone                                                 *)

Fixed == UNCHANGED <<op, operation, light, args>>

LEMMA FixedStays ==
  ASSUME Fixed
  PROVE  /\ ArgsInv' <=> ArgsInv
         /\ Checks' = Checks
         /\ \A r \in Rank : First(r)' = First(r) /\ Second(r)' = Second(r)
         /\ \A r \in Rank : CountOf(r)' = CountOf(r) /\ InitialBuf(r)' = InitialBuf(r)
         /\ \A n : Phase(n)' = Phase(n)
         /\ \A l : Offset(l)' = Offset(l)
         /\ \A r, n : Entry(r, n)' = Entry(r, n)
         /\ \A r \in Rank : Entries(r)' = Entries(r)
         /\ \A r \in Rank : HasResult(r)' = HasResult(r) /\ Resized(r)' = Resized(r)
         /\ \A r \in Rank : SizeAfter(r)' = SizeAfter(r)
         /\ \A l : Built(l)' <=> Built(l)
         /\ Legal' <=> Legal
<1>1. UNCHANGED op /\ UNCHANGED operation /\ UNCHANGED light /\ UNCHANGED args
  BY DEF Fixed
<1>2. \A r : CountOf(r)' = CountOf(r) /\ Elements(r)' = Elements(r) /\ IsRoot(r)' = IsRoot(r)
  BY <1>1 DEF CountOf, Elements, IsRoot
<1>3. \A r : First(r)' = First(r) /\ Second(r)' = Second(r) /\ InitialBuf(r)' = InitialBuf(r)
  BY <1>1, <1>2 DEF First, Second, InitialBuf
<1>4. Checks' = Checks /\ DataKind' = DataKind
  BY <1>1 DEF Checks, DataKind
<1>5. \A n : Phase(n)' = Phase(n)
  BY <1>1, <1>4 DEF Phase
<1>6. \A l : Offset(l)' = Offset(l)
  BY <1>1, <1>4 DEF Offset
<1>7. \A r : Data(r)' = Data(r)
  BY <1>1, <1>2, <1>4 DEF Data
<1>8. \A r, n : Entry(r, n)' = Entry(r, n)
  BY <1>3, <1>5, <1>7 DEF Entry
<1>9. \A r : Entries(r)' = Entries(r)
  BY <1>3, <1>7 DEF Entries, Same, Collective, ToAll
<1>10. \A r : HasResult(r)' = HasResult(r)
  BY <1>1, <1>2 DEF HasResult
<1>11. ArgsInv' <=> ArgsInv
  BY <1>1, <1>2 DEF ArgsInv
<1>12. Disagreement' <=> Disagreement
  BY <1>1, <1>2 DEF Disagreement
<1>13. Legal' <=> Legal
  BY <1>1, <1>2, <1>3, <1>10, <1>12 DEF Legal
<1>14. \A r : Resized(r)' = Resized(r)
  BY <1>1, <1>2, <1>3, <1>10 DEF Resized
<1>15. ASSUME NEW r \in Rank
       PROVE  SizeAfter(r)' = SizeAfter(r)
  <2>1. /\ InitialBuf(r)' = InitialBuf(r) /\ CountOf(r)' = CountOf(r)
        /\ HasResult(r)' = HasResult(r) /\ args'[r] = args[r] /\ op' = op
    BY <1>1, <1>2, <1>3, <1>10
  <2> QED BY <2>1 DEF SizeAfter
<1>16. \A l : Built(l)' <=> Built(l)
  BY <1>1 DEF Built
<1> QED BY <1>2, <1>3, <1>4, <1>5, <1>6, <1>8, <1>9, <1>10, <1>11, <1>13, <1>14, <1>15, <1>16

(* The state of a rank that a step does not touch.                          *)
Still(r) ==
  /\ at'[r] = at[r] /\ calls'[r] = calls[r] /\ buf'[r] = buf[r]
  /\ func'[r] = func[r] /\ round'[r] = round[r]

LEMMA PromisedStays ==
  ASSUME Fixed, NEW r, round'[r] = round[r]
  PROVE  \A j : Promised(r, j)' = Promised(r, j)
<1>1. UNCHANGED op /\ UNCHANGED operation /\ UNCHANGED args
  BY DEF Fixed
<1> QED BY <1>1 DEF Promised, Sources, IsBuiltin, Captured

LEMMA StillInv ==
  ASSUME ArgsInv, Fixed, NEW r \in Rank, RankInv(r), Still(r)
  PROVE  RankInv(r)'
<1>1. UNCHANGED op /\ UNCHANGED operation /\ UNCHANGED args /\ UNCHANGED light
  BY DEF Fixed
<1>2. TraceInv(r)'
  BY <1>1, FixedStays DEF RankInv, Still, TraceInv
<1>3. PassedInv(r)'
  BY <1>1, FixedStays DEF RankInv, Still, PassedInv, FirstShared, SecondShared
<1>4. SoundInv(r)'
  BY FixedStays DEF RankInv, Still, SoundInv
<1>5. FuncInv(r)'
  BY <1>1, FixedStays DEF RankInv, Still, FuncInv
<1>6. \A j : Promised(r, j)' = Promised(r, j)
  BY PromisedStays DEF Still
<1>7. Result(r)' <=> Result(r)
  BY <1>6, FixedStays DEF Still, Result
<1>8. BufInv(r)'
  BY <1>7, FixedStays DEF RankInv, Still, BufInv
<1> QED BY <1>2, <1>3, <1>4, <1>5, <1>8 DEF RankInv

(* A step of one rank.                                                      *)
Updates(r) ==
  /\ Fixed
  /\ \E x : at' = [at EXCEPT ![r] = x]
  /\ calls' = calls \/ \E x : calls' = [calls EXCEPT ![r] = x]
  /\ buf' = buf \/ \E x : buf' = [buf EXCEPT ![r] = x]
  /\ func' = func \/ \E x : func' = [func EXCEPT ![r] = x]
  /\ round' = round \/ \E x : round' = [round EXCEPT ![r] = x]

LEMMA StepInv ==
  ASSUME IInv, NEW r \in Rank, Updates(r), RankInv(r)'
  PROVE  IInv'
<1>1. TypeInv'
  BY DEF IInv, TypeInv, Updates
<1>2. \A s \in Rank \ {r} : Still(s)
  BY DEF IInv, TypeInv, Updates, Still
<1>3. \A s \in Rank \ {r} : RankInv(s)'
  BY <1>2, StillInv DEF IInv, Updates
<1>4. ArgsInv'
  BY FixedStays DEF IInv, Updates
<1> QED BY <1>1, <1>3, <1>4 DEF IInv

--------------------------------------------------------------------------------
(* Comparisons                                                              *)

(* A location the wrapper has.                                              *)
Placed(l) == (l = "root" => op \in Reduces) /\ (l = "count" => op \in {"exscan", "exscan_single"})

LEMMA EntryKnown ==
  ASSUME NEW r, NEW n
  PROVE  Entry(r, n) \in Entries(r)
BY DEF Entry, Entries

LEMMA EnterTrace ==
  ASSUME IInv, Fixed, NEW r \in Rank, NEW next \in Label \ Failed, at'[r] = next, Placed(next),
         calls'[r] = Append(calls[r], Entry(r, Len(calls[r]) + 1)),
         Phase(Len(calls[r]) + 1) = Offset(next)
  PROVE  TraceInv(r)'
<1> DEFINE t == calls[r]
           u == calls'[r]
<1>1. t \in Seq(Entries(r)) /\ \A n \in 1 .. Len(t) : t[n] = Entry(r, n)
  BY DEF IInv, RankInv, TraceInv
<1>2. Entry(r, Len(t) + 1) \in Entries(r)
  BY EntryKnown
<1>3. /\ u \in Seq(Entries(r)) /\ Len(u) = Len(t) + 1
      /\ \A m \in 1 .. Len(t) : u[m] = t[m]
      /\ u[Len(t) + 1] = Entry(r, Len(t) + 1)
  BY <1>1, <1>2, OneMore
<1>4. Len(t) \in Nat /\ Len(u) # 0
  BY <1>1, <1>3
<1>5. \A n \in 1 .. Len(u) : n \in 1 .. Len(t) \/ n = Len(t) + 1
  BY <1>3, <1>4
<1>6. \A n \in 1 .. Len(u) : u[n] = Entry(r, n)
  BY <1>1, <1>3, <1>5
<1>7. op' = op
  BY DEF Fixed
<1> HIDE DEF t, u
<1>8. Phase(Len(u)) = Offset(next)
  BY <1>3 DEF t
<1> QED BY <1>3, <1>4, <1>6, <1>7, <1>8, FixedStays DEF TraceInv, Placed, u

LEMMA GoTrace ==
  ASSUME IInv, Fixed, NEW r \in Rank, NEW next \in Label \ {"reduced"}, at'[r] = next, Placed(next),
         calls'[r] = calls[r],
         next \notin Failed => Phase(Len(calls[r])) = Offset(next)
  PROVE  TraceInv(r)'
<1>1. calls[r] \in Seq(Entries(r)) /\ \A n \in 1 .. Len(calls[r]) : calls[r][n] = Entry(r, n)
  BY DEF IInv, RankInv, TraceInv
<1>2. op' = op
  BY DEF Fixed
<1> QED BY <1>1, <1>2, FixedStays DEF TraceInv, Placed

(* An assertion of light communication that holds so far.                   *)
LEMMA CheckInv ==
  ASSUME IInv, Fixed, NEW r \in Rank, at[r] \in Before,
         NEW next \in {"root", "count", "data"}, Placed(next),
         NEW value, AssertSame(r, value, next),
         light => /\ Same(value) = Entry(r, Len(calls[r]) + 1)
                  /\ Phase(Len(calls[r]) + 1) = Offset(next)
                  /\ next = "data" /\ Checks = 2 => FirstShared(r),
         UNCHANGED <<buf, round>>,
         func' = func \/ (\E x : func' = [func EXCEPT ![r] = x]),
         FuncInv(r)'
  PROVE  IInv'
<1>1. /\ at' = [at EXCEPT ![r] = next]
      /\ \/ light /\ calls' = [calls EXCEPT ![r] = Append(calls[r], Same(value))]
         \/ ~light /\ calls' = calls
  BY DEF AssertSame, Enter, Go
<1>2. at'[r] = next /\ buf'[r] = buf[r]
  BY <1>1 DEF IInv, TypeInv
<1>3. TraceInv(r)'
  <2>1. CASE light
    <3>1. calls'[r] = Append(calls[r], Entry(r, Len(calls[r]) + 1))
      BY <1>1, <2>1 DEF IInv, TypeInv
    <3> QED BY <1>2, <2>1, <3>1, EnterTrace DEF Label, Failed, Before
  <2>2. CASE ~light
    <3>1. calls'[r] = calls[r]
      BY <1>1, <2>2
    <3>2. Phase(Len(calls[r])) = Offset(next)
      BY <2>2 DEF Phase, Offset
    <3> QED BY <1>2, <3>1, <3>2, GoTrace DEF Label, Failed, Before
  <2> QED BY <2>1, <2>2
<1>4. PassedInv(r)'
  <2>1. light' = light
    BY DEF Fixed
  <2>2. FirstShared(r)' <=> FirstShared(r)
    BY FixedStays DEF FirstShared
  <2> QED BY <1>2, <2>1, <2>2, FixedStays DEF PassedInv
<1>5. SoundInv(r)'
  BY <1>2 DEF SoundInv, Failed
<1>6. BufInv(r)'
  <2>1. buf[r] = InitialBuf(r)
    BY DEF IInv, RankInv, BufInv
  <2> QED BY <1>2, <2>1, FixedStays DEF BufInv, Before
<1>7. RankInv(r)'
  BY <1>3, <1>4, <1>5, <1>6 DEF RankInv
<1>8. Updates(r)
  BY <1>1 DEF Updates
<1> QED BY <1>7, <1>8, StepInv

(* An assertion that does not hold: no call that is legal gets there.       *)
LEMMA FailInv ==
  ASSUME IInv, Fixed, NEW r \in Rank, NEW next \in Failed, Go(r, next), ~Legal,
         UNCHANGED <<calls, buf, round>>,
         func' = func \/ (\E x : func' = [func EXCEPT ![r] = x]),
         FuncInv(r)'
  PROVE  IInv'
<1>1. at' = [at EXCEPT ![r] = next] /\ at'[r] = next
  BY DEF Go, IInv, TypeInv
<1>2. TraceInv(r)'
  BY <1>1, GoTrace DEF Label, Failed, Placed
<1>3. PassedInv(r)' /\ BufInv(r)' /\ SoundInv(r)'
  BY <1>1, FixedStays DEF PassedInv, BufInv, SoundInv, Before, Failed
<1>4. RankInv(r)'
  BY <1>2, <1>3 DEF RankInv
<1>5. Updates(r)
  BY <1>1 DEF Updates
<1> QED BY <1>4, <1>5, StepInv

--------------------------------------------------------------------------------
(* The reduction                                                            *)

LEMMA SizeKnown ==
  ASSUME ArgsInv, NEW r \in Rank
  PROVE  /\ Len(InitialBuf(r)) \in Nat
         /\ InitialBuf(r) = [k \in 1 .. Len(InitialBuf(r)) |-> InitialBuf(r)[k]]
         /\ op \in Inplace => Len(InitialBuf(r)) = args[r].size
<1>1. args[r].size \in Nat /\ args[r].room \in Nat
  BY DEF ArgsInv
<1>2. Elements(r) = [k \in 1 .. args[r].size |-> Elements(r)[k]] /\ Len(Elements(r)) = args[r].size
  BY <1>1 DEF Elements
<1>3. CASE op \in Inplace
  BY <1>1, <1>2, <1>3 DEF InitialBuf
<1>4. CASE op \notin Inplace
  <2>1. InitialBuf(r) = [k \in 1 .. args[r].room |-> Old]
    BY <1>4 DEF InitialBuf
  <2>2. Len(InitialBuf(r)) = args[r].room
    BY <1>1, <2>1
  <2> QED BY <1>1, <1>4, <2>1, <2>2
<1> QED BY <1>3, <1>4

(* The cells of the buffer after the call that the reduction does not write. *)
Cell(r, k) == IF k <= Len(InitialBuf(r)) THEN InitialBuf(r)[k] ELSE New

LEMMA ResizedIs ==
  ASSUME ArgsInv, NEW r \in Rank
  PROVE  /\ Len(Resized(r)) = SizeAfter(r) /\ SizeAfter(r) \in Nat
         /\ Resized(r) = [k \in 1 .. SizeAfter(r) |-> Cell(r, k)]
<1> DEFINE b == InitialBuf(r)
           n == CountOf(r)
<1>1. /\ Len(b) \in Nat /\ n \in Nat
      /\ b = [k \in 1 .. Len(b) |-> b[k]]
      /\ args[r].policy \in {"no_resize", "grow_only", "resize_to_fit"}
  BY SizeKnown DEF ArgsInv
<1>2. b = [k \in 1 .. Len(b) |-> Cell(r, k)]
  BY <1>1 DEF Cell
<1>3. Resize(b, n) = [k \in 1 .. n |-> Cell(r, k)]
  BY DEF Resize, Cell
<1>4. Len(Resize(b, n)) = n
  BY <1>1, <1>3
<1> HIDE DEF b, n
<1>5. CASE ~HasResult(r) \/ op = "allreduce_inplace"
  <2>1. Resized(r) = b
    BY <1>5 DEF Resized, b
  <2>2. SizeAfter(r) = Len(b)
    BY <1>5 DEF SizeAfter, b
  <2> QED BY <1>1, <1>2, <2>1, <2>2
<1>6. CASE HasResult(r) /\ op # "allreduce_inplace"
  <2>1. Resized(r) = ResizeIfRequested(b, args[r].policy, n)
    BY <1>6 DEF Resized, b, n
  <2>2. SizeAfter(r) = CASE args[r].policy = "resize_to_fit" -> n
                         [] args[r].policy = "grow_only" -> IF Len(b) < n THEN n ELSE Len(b)
                         [] args[r].policy = "no_resize" -> Len(b)
    BY <1>6 DEF SizeAfter, b, n
  <2>3. CASE args[r].policy = "resize_to_fit" \/ (args[r].policy = "grow_only" /\ Len(b) < n)
    <3>1. Resized(r) = Resize(b, n) /\ SizeAfter(r) = n
      BY <2>1, <2>2, <2>3 DEF ResizeIfRequested
    <3> QED BY <1>1, <1>3, <1>4, <3>1
  <2>4. CASE ~(args[r].policy = "resize_to_fit" \/ (args[r].policy = "grow_only" /\ Len(b) < n))
    <3>1. Resized(r) = b /\ SizeAfter(r) = Len(b)
      BY <1>1, <2>1, <2>2, <2>4 DEF ResizeIfRequested
    <3> QED BY <1>1, <1>2, <3>1
  <2> QED BY <2>3, <2>4
<1> QED BY <1>5, <1>6

(* A legal call has room for its result.                                    *)
LEMMA Fits ==
  ASSUME ArgsInv, NEW r \in Rank, HasResult(r), Legal
  PROVE  CountOf(r) <= Len(Resized(r))
<1>1. Len(Resized(r)) = SizeAfter(r)
  BY ResizedIs
<1>2. /\ Len(InitialBuf(r)) \in Nat /\ CountOf(r) \in Nat /\ CountOf(r) <= args[r].size
      /\ op = "allreduce_inplace" => Len(InitialBuf(r)) = args[r].size
  BY SizeKnown DEF ArgsInv, Inplace
<1>3. args[r].policy = "no_resize" => CountOf(r) <= Len(InitialBuf(r))
  BY DEF Legal
<1>4. args[r].policy \in {"no_resize", "grow_only", "resize_to_fit"}
  BY DEF ArgsInv
<1>5. op = "allreduce_inplace" => CountOf(r) <= Len(InitialBuf(r))
  BY <1>2
<1>6. CountOf(r) <= SizeAfter(r)
  BY <1>2, <1>3, <1>4, <1>5 DEF SizeAfter
<1> QED BY <1>1, <1>6

LEMMA PassesAll ==
  ASSUME IInv, NEW r \in Rank, Runs(r, "data"), light
  PROVE  FirstShared(r) /\ (Checks = 2 => SecondShared(r))
<1>1. Phase(Len(calls[r])) = Checks
  BY DEF Runs, IInv, RankInv, TraceInv, Offset, Failed
<1>2. Checks = 1 \/ Checks = 2
  BY DEF Checks
<1>3. CASE Checks = 1
  BY <1>1, <1>3, PassesFirst DEF Runs, IInv, RankInv
<1>4. CASE Checks = 2
  <2>1. FirstShared(r)
    BY <1>4 DEF Runs, IInv, RankInv, PassedInv
  <2> QED BY <1>1, <1>4, <2>1, PassesSecond DEF Runs, IInv, RankInv
<1> QED BY <1>2, <1>3, <1>4

LEMMA EnterDataInv ==
  ASSUME IInv, Fixed, NEW r \in Rank, Runs(r, "data"), Enter(r, Data(r), "reduced"),
         buf' = buf \/ (\E x : buf' = [buf EXCEPT ![r] = x]),
         buf'[r] = Resized(r), HasResult(r) => CountOf(r) <= Len(Resized(r)),
         UNCHANGED round, func' = func \/ (\E x : func' = [func EXCEPT ![r] = x]),
         FuncInv(r)'
  PROVE  IInv'
<1>1. /\ at' = [at EXCEPT ![r] = "reduced"]
      /\ calls' = [calls EXCEPT ![r] = Append(calls[r], Data(r))]
      /\ at'[r] = "reduced" /\ calls'[r] = Append(calls[r], Data(r))
  BY DEF Enter, Go, IInv, TypeInv
<1>2. Entry(r, Len(calls[r]) + 1) = Data(r) /\ Phase(Len(calls[r]) + 1) = 0
  <2>1. Phase(Len(calls[r])) = Offset("data")
    BY DEF Runs, IInv, RankInv, TraceInv, Failed
  <2>2. Len(calls[r]) \in Nat
    <3>1. calls[r] \in Seq(Entries(r))
      BY DEF IInv, RankInv, TraceInv
    <3> QED BY <3>1
  <2> QED BY <2>1, <2>2, NextEntry DEF IInv, Offset
<1>3. TraceInv(r)'
  <2>1. "reduced" \in Label \ Failed /\ Placed("reduced") /\ Offset("reduced") = 0
    BY DEF Label, Failed, Placed, Offset
  <2> QED BY <1>1, <1>2, <2>1, EnterTrace
<1>4. PassedInv(r)'
  <2>1. light' = light
    BY DEF Fixed
  <2>2. (FirstShared(r)' <=> FirstShared(r)) /\ (SecondShared(r)' <=> SecondShared(r))
    BY FixedStays DEF FirstShared, SecondShared
  <2> QED BY <1>1, <2>1, <2>2, PassesAll, FixedStays DEF PassedInv
<1>5. SoundInv(r)' /\ BufInv(r)'
  BY <1>1, FixedStays DEF SoundInv, BufInv, Failed, Before
<1>6. RankInv(r)'
  BY <1>3, <1>4, <1>5 DEF RankInv
<1>7. Updates(r)
  BY <1>1 DEF Updates
<1> QED BY <1>6, <1>7, StepInv

LEMMA ReductionInv ==
  ASSUME IInv, Fixed, NEW r \in Rank, Runs(r, "data"), HasResult(r),
         Reduction(r, DataKind, op # "allreduce_inplace"),
         UNCHANGED round, func' = func \/ (\E x : func' = [func EXCEPT ![r] = x]),
         FuncInv(r)'
  PROVE  IInv'
<1>1. buf[r] = InitialBuf(r)
  BY DEF Runs, IInv, RankInv, BufInv, Before
<1>2. SendBuf(r) = Elements(r)
  BY <1>1 DEF SendBuf, InitialBuf
<1>3. Resized(r) = IF op # "allreduce_inplace"
                   THEN ResizeIfRequested(buf[r], args[r].policy, CountOf(r)) ELSE buf[r]
  BY <1>1 DEF Resized
<1>4. CASE Len(Resized(r)) < CountOf(r)
  <2>1. Abort(r) /\ UNCHANGED buf
    BY <1>3, <1>4 DEF Reduction
  <2>2. ~Legal
    <3>1. Len(Resized(r)) \in Nat /\ CountOf(r) \in Nat
      BY ResizedIs DEF IInv, ArgsInv
    <3> QED BY <1>4, <3>1, Fits DEF IInv
  <2>3. "aborted" \in Failed
    BY DEF Failed
  <2> QED BY <2>1, <2>2, <2>3, FailInv DEF Abort
<1>5. CASE ~(Len(Resized(r)) < CountOf(r))
  <2>1. /\ buf' = [buf EXCEPT ![r] = Resized(r)]
        /\ Enter(r, Data(r), "reduced")
    BY <1>2, <1>3, <1>5 DEF Reduction, Data
  <2>2. buf'[r] = Resized(r)
    BY <2>1 DEF IInv, TypeInv
  <2>3. CountOf(r) <= Len(Resized(r))
    <3>1. Len(Resized(r)) \in Nat /\ CountOf(r) \in Nat
      BY ResizedIs DEF IInv, ArgsInv
    <3> QED BY <1>5, <3>1
  <2> QED BY <2>1, <2>2, <2>3, EnterDataInv
<1> QED BY <1>4, <1>5

--------------------------------------------------------------------------------
(* The steps of the wrappers                                                *)

LEMMA FuncStays ==
  ASSUME IInv, Fixed, NEW r \in Rank, UNCHANGED <<round, func>>, Built(at'[r]) => Built(at[r])
  PROVE  FuncInv(r)'
<1>1. operation' = operation /\ op' = op
  BY DEF Fixed
<1>2. FuncInv(r)
  BY DEF IInv, RankInv
<1> QED BY <1>1, <1>2 DEF FuncInv, Built

LEMMA FuncBuilt ==
  ASSUME IInv, Fixed, NEW r \in Rank, UNCHANGED round, BuildOperation(r)
  PROVE  FuncInv(r)' /\ (func' = func \/ \E x : func' = [func EXCEPT ![r] = x])
<1>1. operation' = operation /\ operation \in Operations
  BY DEF Fixed, IInv, ArgsInv
<1>2. FuncInv(r) /\ DOMAIN func = Rank
  BY DEF IInv, RankInv, TypeInv
<1>3. Faithful /\ operation = "lambda" => round[r] = 1
  <2>1. Faithful /\ operation = "lambda" => Rounds <= 1
    BY <1>1 DEF Faithful
  <2>2. round[r] \in Nat \ {0} /\ (round[r] # 1 => round[r] <= Rounds) /\ Rounds \in Nat
    BY <1>2, ArgumentsAssumption DEF FuncInv
  <2>3. Rounds <= 1 => round[r] = 1
    BY <2>2
  <2> QED BY <2>1, <2>3
<1>4. Faithful /\ operation = "lambda" => func'[r] = 1
  BY <1>2, <1>3 DEF BuildOperation, FuncInv, Captured, Nothing
<1>5. FuncInv(r)'
  BY <1>1, <1>2, <1>4 DEF FuncInv
<1> QED BY <1>5 DEF BuildOperation

LEMMA FirstCheck ==
  ASSUME IInv, NEW r \in Rank, Runs(r, "call"), light
  PROVE  Entry(r, Len(calls[r]) + 1) = Same(First(r)) /\ Phase(Len(calls[r]) + 1) = 1
<1>1. calls[r] \in Seq(Entries(r)) /\ Phase(Len(calls[r])) = 0
  BY DEF Runs, IInv, RankInv, TraceInv, Failed, Offset
<1>2. Len(calls[r]) \in Nat
  BY <1>1
<1> QED BY <1>1, <1>2, NextEntry DEF IInv

LEMMA SecondCheck ==
  ASSUME IInv, NEW r \in Rank, Runs(r, "root") \/ Runs(r, "count"), light
  PROVE  /\ Checks = 2 /\ FirstShared(r)
         /\ Entry(r, Len(calls[r]) + 1) = Same(Second(r)) /\ Phase(Len(calls[r]) + 1) = 2
<1>1. calls[r] \in Seq(Entries(r)) /\ Phase(Len(calls[r])) = 1
  BY DEF Runs, IInv, RankInv, TraceInv, Failed, Offset
<1>2. Len(calls[r]) \in Nat
  BY <1>1
<1>3. Checks = 2
  BY DEF Runs, IInv, RankInv, TraceInv, Checks
<1>4. FirstShared(r)
  BY <1>1, PassesFirst DEF Runs, IInv, RankInv
<1> QED BY <1>1, <1>2, <1>3, <1>4, NextEntry DEF IInv

LEMMA ReduceInv ==
  ASSUME IInv, Fixed, NEW r \in Rank, Reduce(r), UNCHANGED round
  PROVE  IInv'
<1>1. op \in Reduces /\ op # "allreduce_inplace" /\ Checks = 2
  BY DEF Reduce, Reduces, Checks
<1>2. CASE Runs(r, "call") /\ BuildOperation(r) /\ AssertSame(r, CountOf(r), "root") /\ UNCHANGED buf
  <2>1. First(r) = CountOf(r) /\ Offset("root") = (IF light THEN 1 ELSE 0) /\ Placed("root")
    BY <1>1 DEF First, Reduces, Offset, Placed
  <2>2. at[r] \in Before
    BY <1>2 DEF Runs, Before
  <2> QED BY <1>2, <2>1, <2>2, FirstCheck, FuncBuilt, CheckInv
<1>3. CASE Runs(r, "root") /\ args[r].root \notin Rank /\ Abort(r) /\ UNCHANGED <<buf, func>>
  <2>1. ~Legal /\ "aborted" \in Failed
    BY <1>1, <1>3 DEF Legal, Failed
  <2>2. at'[r] = "aborted"
    BY <1>3 DEF Abort, Go, IInv, TypeInv
  <2>3. FuncInv(r)'
    BY <1>3, <2>2, FuncStays DEF Built
  <2> QED BY <1>3, <2>1, <2>3, FailInv DEF Abort
<1>4. CASE Runs(r, "root") /\ AssertSame(r, args[r].root, "data") /\ UNCHANGED <<buf, func>>
  <2>1. Second(r) = args[r].root /\ Offset("data") = (IF light THEN 2 ELSE 0) /\ Placed("data")
    BY <1>1 DEF Second, Offset, Placed
  <2>2. at[r] \in Before /\ Built(at[r])
    BY <1>1, <1>4 DEF Runs, Before, Built
  <2>3. FuncInv(r)'
    BY <1>4, <2>2, FuncStays
  <2> QED BY <1>4, <2>1, <2>2, <2>3, SecondCheck, CheckInv
<1>5. CASE Runs(r, "data") /\ IsRoot(r) /\ Reduction(r, "MPI_Reduce", TRUE) /\ UNCHANGED func
  <2>1. DataKind = "MPI_Reduce" /\ HasResult(r)
    BY <1>1, <1>5 DEF DataKind, HasResult, Reduces, AllreduceOps, ScanOps
  <2>2. FuncInv(r)'
    BY <1>1, <1>5, FuncStays DEF Runs, Built
  <2> QED BY <1>1, <1>5, <2>1, <2>2, ReductionInv
<1>6. CASE /\ Runs(r, "data") /\ ~IsRoot(r)
           /\ Enter(r, Collective("MPI_Reduce", args[r].root, ToAll(Slice(SendBuf(r), 0, CountOf(r))), None),
                    "reduced")
           /\ UNCHANGED <<buf, func>>
  <2>1. DataKind = "MPI_Reduce" /\ ~HasResult(r) /\ SendBuf(r) = Elements(r)
    BY <1>1, <1>6 DEF DataKind, HasResult, SendBuf, Reduces, AllreduceOps, ScanOps, Inplace
  <2>2. Enter(r, Data(r), "reduced")
    BY <1>6, <2>1 DEF Data
  <2>3. buf'[r] = Resized(r)
    BY <1>6, <2>1 DEF Resized, Runs, IInv, RankInv, BufInv, Before
  <2>4. FuncInv(r)'
    BY <1>1, <1>6, FuncStays DEF Runs, Built
  <2> QED BY <1>6, <2>1, <2>2, <2>3, <2>4, EnterDataInv
<1> QED BY <1>2, <1>3, <1>4, <1>5, <1>6 DEF Reduce

LEMMA AllreduceInv ==
  ASSUME IInv, Fixed, NEW r \in Rank, Allreduce(r), UNCHANGED round
  PROVE  IInv'
<1>1. op \in AllreduceOps /\ Checks = 1 /\ First(r) = CountOf(r) /\ HasResult(r)
      /\ DataKind = "MPI_Allreduce"
  BY DEF Allreduce, AllreduceOps, Reduces, ScanOps, Checks, First, HasResult, DataKind
<1>2. CASE Runs(r, "call") /\ BuildOperation(r) /\ AssertSame(r, CountOf(r), "data") /\ UNCHANGED buf
  <2>1. Offset("data") = (IF light THEN 1 ELSE 0) /\ Placed("data")
    BY <1>1 DEF Offset, Placed
  <2>2. at[r] \in Before
    BY <1>2 DEF Runs, Before
  <2> QED BY <1>1, <1>2, <2>1, <2>2, FirstCheck, FuncBuilt, CheckInv
<1>3. CASE Runs(r, "data") /\ Reduction(r, "MPI_Allreduce", op # "allreduce_inplace") /\ UNCHANGED func
  <2>1. FuncInv(r)'
    BY <1>1, <1>3, FuncStays DEF Runs, Built
  <2> QED BY <1>1, <1>3, <2>1, ReductionInv
<1> QED BY <1>2, <1>3 DEF Allreduce

LEMMA ScanInv ==
  ASSUME IInv, Fixed, NEW r \in Rank, Scan(r), UNCHANGED round
  PROVE  IInv'
<1>1. op \in ScanOps /\ op # "allreduce_inplace" /\ op \notin Reduces \cup AllreduceOps
      /\ Checks = 1 /\ First(r) = CountOf(r) /\ HasResult(r) /\ DataKind = "MPI_Scan"
  BY DEF Scan, AllreduceOps, Reduces, ScanOps, Checks, First, HasResult, DataKind
<1>2. CASE Runs(r, "call") /\ AssertSame(r, CountOf(r), "data") /\ UNCHANGED <<buf, func>>
  <2>1. Offset("data") = (IF light THEN 1 ELSE 0) /\ Placed("data")
    BY <1>1 DEF Offset, Placed
  <2>2. at[r] \in Before
    BY <1>2 DEF Runs, Before
  <2>3. at'[r] = "data"
    BY <1>2 DEF AssertSame, Enter, Go, IInv, TypeInv
  <2>4. FuncInv(r)'
    BY <1>1, <1>2, <2>3, FuncStays DEF Built
  <2> QED BY <1>1, <1>2, <2>1, <2>2, <2>4, FirstCheck, CheckInv
<1>3. CASE Runs(r, "data") /\ BuildOperation(r) /\ Reduction(r, "MPI_Scan", TRUE)
  BY <1>1, <1>3, FuncBuilt, ReductionInv
<1> QED BY <1>2, <1>3 DEF Scan

LEMMA ExscanInv ==
  ASSUME IInv, Fixed, NEW r \in Rank, Exscan(r), UNCHANGED round
  PROVE  IInv'
<1>1. op \in Exscans /\ op # "allreduce_inplace" /\ op \notin Reduces \cup AllreduceOps
      /\ HasResult(r) /\ DataKind = "MPI_Exscan"
  BY DEF Exscan, AllreduceOps, Reduces, ScanOps, Exscans, HasResult, DataKind
<1>2. CASE Runs(r, "data") /\ BuildOperation(r) /\ Reduction(r, "MPI_Exscan", TRUE)
  BY <1>1, <1>2, FuncBuilt, ReductionInv
<1>3. CASE Runs(r, "call") /\ op = "exscan_inplace" /\ AssertSame(r, CountOf(r), "data")
           /\ UNCHANGED <<buf, func>>
  <2>1. Checks = 1 /\ First(r) = CountOf(r)
    BY <1>3 DEF Checks, First, Reduces
  <2>2. Offset("data") = (IF light THEN 1 ELSE 0) /\ Placed("data")
    BY <2>1 DEF Offset, Placed
  <2>3. at[r] \in Before
    BY <1>3 DEF Runs, Before
  <2>4. at'[r] = "data"
    BY <1>3 DEF AssertSame, Enter, Go, IInv, TypeInv
  <2>5. FuncInv(r)'
    BY <1>1, <1>3, <2>4, FuncStays DEF Built
  <2> QED BY <1>3, <2>1, <2>2, <2>3, <2>5, FirstCheck, CheckInv
<1>4. CASE Runs(r, "call") /\ op # "exscan_inplace" /\ AssertSame(r, args[r].size, "count")
           /\ UNCHANGED <<buf, func>>
  <2>1. op \in {"exscan", "exscan_single"}
    BY <1>1, <1>4 DEF Exscans
  <2>2. First(r) = args[r].size /\ Offset("count") = (IF light THEN 1 ELSE 0) /\ Placed("count")
    BY <2>1 DEF First, Offset, Placed
  <2>3. at[r] \in Before
    BY <1>4 DEF Runs, Before
  <2>4. at'[r] = "count"
    BY <1>4 DEF AssertSame, Enter, Go, IInv, TypeInv
  <2>5. FuncInv(r)'
    BY <1>4, <2>4, FuncStays DEF Built
  <2> QED BY <1>4, <2>2, <2>3, <2>5, FirstCheck, CheckInv
<1>5. CASE Runs(r, "count") /\ AssertSame(r, CountOf(r), "data") /\ UNCHANGED <<buf, func>>
  <2>1. Second(r) = CountOf(r) /\ Placed("data")
    BY <1>1 DEF Second, Placed
  <2>2. Checks = 2
    BY <1>5 DEF Runs, IInv, RankInv, TraceInv, Checks
  <2>3. Offset("data") = IF light THEN 2 ELSE 0
    BY <2>2 DEF Offset
  <2>4. at[r] \in Before
    BY <1>5 DEF Runs, Before
  <2>5. at'[r] = "data"
    BY <1>5 DEF AssertSame, Enter, Go, IInv, TypeInv
  <2>6. FuncInv(r)'
    BY <1>1, <1>5, <2>5, FuncStays DEF Built
  <2> QED BY <1>5, <2>1, <2>3, <2>4, <2>6, SecondCheck, CheckInv
<1> QED BY <1>2, <1>3, <1>4, <1>5 DEF Exscan

--------------------------------------------------------------------------------
(* What a reduction returns                                                 *)

LEMMA CountShared ==
  ASSUME IInv, NEW r \in Rank, at[r] = "reduced"
  PROVE  \A s \in Rank : CountOf(s) = CountOf(r)
<1>1. CASE light
  <2>1. FirstShared(r) /\ (Checks = 2 => SecondShared(r))
    BY <1>1 DEF IInv, RankInv, PassedInv
  <2>2. CASE op \in {"exscan", "exscan_single"}
    <3>1. \A s \in Rank : Second(s) = CountOf(s)
      BY <2>2 DEF Second, Reduces
    <3> QED BY <2>1, <2>2, <3>1 DEF Checks, SecondShared
  <2>3. CASE op \notin {"exscan", "exscan_single"}
    <3>1. \A s \in Rank : First(s) = CountOf(s)
      BY <2>3 DEF First
    <3> QED BY <2>1, <3>1 DEF FirstShared
  <2> QED BY <2>2, <2>3
<1>2. CASE ~light
  BY <1>2 DEF IInv, ArgsInv, CountOf
<1> QED BY <1>1, <1>2

LEMMA ElementSent ==
  ASSUME ArgsInv, NEW s \in Rank, NEW j \in 1 .. CountOf(s)
  PROVE  Slice(Elements(s), 0, CountOf(s))[j] = <<"element", s, j>>
<1>1. /\ args[s].size \in Nat /\ CountOf(s) \in Nat /\ CountOf(s) <= args[s].size
  BY DEF ArgsInv
<1>2. j \in 1 .. args[s].size /\ 0 + j = j /\ j <= args[s].size
  BY <1>1
<1>3. Len(Elements(s)) = args[s].size
  BY <1>1 DEF Elements
<1>4. Slice(Elements(s), 0, CountOf(s))[j] = Elements(s)[j]
  BY <1>2, <1>3 DEF Slice
<1> QED BY <1>2, <1>4 DEF Elements

(* The ranks a result comes from are those up to some rank.                 *)
LEMMA SourcesAre ==
  ASSUME NEW r \in Rank, ~(op \in Exscans /\ r = 0)
  PROVE  /\ Sources(r) # {}
         /\ \A i \in 1 .. Cardinality(Sources(r)) : i - 1 \in Sources(r)
<1>1. P \in Nat \ {0} /\ r \in Nat
  BY PAssumption DEF Rank
<1>2. /\ op \in Exscans => r # 0
      /\ op \in {"scan", "scan_inplace", "scan_single"} => op \notin Exscans
  BY DEF Exscans
<1>3. PICK m \in Nat : Sources(r) = 0 .. m
  <2>1. CASE op \in {"scan", "scan_inplace", "scan_single"}
    BY <1>1, <1>2, <2>1 DEF Sources
  <2>2. CASE op \in Exscans
    <3>1. Sources(r) = 0 .. r - 1
      BY <1>2, <2>2 DEF Sources
    <3>2. r - 1 \in Nat
      BY <1>1, <1>2, <2>2
    <3> QED BY <3>1, <3>2
  <2>3. CASE op \notin {"scan", "scan_inplace", "scan_single"} /\ op \notin Exscans
    <3>1. Sources(r) = 0 .. P - 1
      BY <2>3 DEF Sources, Rank
    <3>2. P - 1 \in Nat
      BY <1>1
    <3> QED BY <3>1, <3>2
  <2> QED BY <2>1, <2>2, <2>3
<1>4. Cardinality(0 .. m) = m + 1
  BY FS_Interval
<1>5. 0 \in 0 .. m /\ \A i \in 1 .. m + 1 : i - 1 \in 0 .. m
  OBVIOUS
<1> QED BY <1>3, <1>4, <1>5

LEMMA ReducedIs ==
  ASSUME IInv, Faithful, NEW r \in Rank, Runs(r, "reduced"), HasResult(r), ~(op \in Exscans /\ r = 0),
         NEW j \in 1 .. CountOf(r)
  PROVE  Reduced(r)[j] = Promised(r, j)
<1>1. Called(r) = Captured(r)
  <2>1. operation \in Operations /\ operation # "functor"
    BY DEF IInv, ArgsInv, Faithful
  <2>2. CASE operation = "lambda"
    <3>1. func[r] = 1 /\ Rounds <= 1
      BY <2>1, <2>2 DEF Runs, IInv, RankInv, FuncInv, Faithful, Built
    <3>2. round[r] \in Nat \ {0} /\ (round[r] # 1 => round[r] <= Rounds) /\ Rounds \in Nat
      BY ArgumentsAssumption DEF IInv, RankInv, FuncInv
    <3>3. round[r] = 1
      <4>1. Rounds <= 1
        BY <3>1
      <4> QED BY <3>2, <4>1
    <3> QED BY <2>2, <3>1, <3>3 DEF Called, Captured
  <2> QED BY <2>1, <2>2 DEF Called
<1>2. /\ SendersOf(r) = Sources(r) /\ Sources(r) \subseteq Rank
      /\ \A s \in Sources(r) : Delivered(r)[s] = Slice(Elements(s), 0, CountOf(s))
  <2>1. calls[r] # <<>> /\ Phase(Len(calls[r])) = 0
    BY DEF Runs, IInv, RankInv, TraceInv, Failed, Offset
  <2> QED BY <2>1, DataMeets DEF Runs, IInv, RankInv
<1>3. \A s \in Sources(r) : Delivered(r)[s][j] = <<"element", s, j>>
  BY <1>2, CountShared, ElementSent DEF Runs, IInv
<1>4. \A i \in 1 .. Cardinality(Sources(r)) : Delivered(r)[i - 1][j] = <<"element", i - 1, j>>
  BY <1>3, SourcesAre
<1>5. Reduced(r)[j] = Combination(Called(r), [i \in 1 .. Cardinality(SendersOf(r)) |-> Delivered(r)[i - 1][j]])
  BY DEF Reduced
<1>6. Reduced(r)[j] = Combination(Captured(r), [i \in 1 .. Cardinality(Sources(r)) |-> <<"element", i - 1, j>>])
  BY <1>1, <1>2, <1>4, <1>5
<1> QED BY <1>6, SourcesAre DEF Promised

LEMMA OnRank0Is ==
  ASSUME op \in Exscans, NEW r \in Rank, r = 0, NEW j \in 1 .. CountOf(r)
  PROVE  OnRank0Cells(r)[j] = Promised(r, j)
<1>1. Sources(r) = 0 .. r - 1
  BY DEF Sources, Exscans
<1>2. Sources(r) = {}
  BY <1>1
<1> QED BY <1>2 DEF OnRank0Cells, Promised

(* The buffer that is returned.                                             *)
LEMMA OverwriteIs ==
  ASSUME ArgsInv, NEW r \in Rank, CountOf(r) <= Len(Resized(r)),
         NEW v, DOMAIN v = 1 .. CountOf(r)
  PROVE  /\ Len(Overwrite(Resized(r), v)) = SizeAfter(r)
         /\ \A k \in 1 .. CountOf(r) : Overwrite(Resized(r), v)[k] = v[k]
         /\ \A k \in DOMAIN Overwrite(Resized(r), v) :
              k > CountOf(r) => Overwrite(Resized(r), v)[k] = Cell(r, k)
<1>1. /\ Len(Resized(r)) = SizeAfter(r) /\ SizeAfter(r) \in Nat /\ CountOf(r) \in Nat
      /\ Resized(r) = [k \in 1 .. SizeAfter(r) |-> Cell(r, k)]
  BY ResizedIs DEF ArgsInv
<1>2. Overwrite(Resized(r), v) =
        [k \in 1 .. SizeAfter(r) |-> IF k \in 1 .. CountOf(r) THEN v[k] ELSE Cell(r, k)]
  BY <1>1 DEF Overwrite
<1>3. Len(Overwrite(Resized(r), v)) = SizeAfter(r)
  BY <1>1, <1>2
<1>4. \A k \in 1 .. CountOf(r) : k \in 1 .. SizeAfter(r)
  BY <1>1
<1>5. \A k \in 1 .. SizeAfter(r) : k > CountOf(r) => k \notin 1 .. CountOf(r)
  BY <1>1
<1> QED BY <1>2, <1>3, <1>4, <1>5

LEMMA ReturnedInv ==
  ASSUME IInv, Fixed, NEW r \in Rank, Runs(r, "reduced"), Go(r, "returned"),
         UNCHANGED <<calls, func, round>>,
         buf' = buf \/ (\E x : buf' = [buf EXCEPT ![r] = x]),
         Len(buf'[r]) = SizeAfter(r),
         Faithful /\ HasResult(r) => \A j \in 1 .. CountOf(r) : buf'[r][j] = Promised(r, j),
         \A k \in DOMAIN buf'[r] : ~HasResult(r) \/ k > CountOf(r) => buf'[r][k] = Cell(r, k)
  PROVE  IInv'
<1>1. at' = [at EXCEPT ![r] = "returned"] /\ at'[r] = "returned"
  BY DEF Go, IInv, TypeInv
<1>2. TraceInv(r)'
  <2>1. Phase(Len(calls[r])) = Offset("returned")
    BY DEF Runs, IInv, RankInv, TraceInv, Failed, Offset
  <2>2. "returned" \in Label \ {"reduced"} /\ Placed("returned")
    BY DEF Label, Placed
  <2> QED BY <1>1, <2>1, <2>2, GoTrace
<1>3. PassedInv(r)'
  <2>1. light' = light
    BY DEF Fixed
  <2>2. (FirstShared(r)' <=> FirstShared(r)) /\ (SecondShared(r)' <=> SecondShared(r))
    BY FixedStays DEF FirstShared, SecondShared
  <2> QED BY <1>1, <2>1, <2>2, FixedStays DEF Runs, IInv, RankInv, PassedInv
<1>4. SoundInv(r)'
  BY <1>1 DEF SoundInv, Failed
<1>5. FuncInv(r)'
  BY <1>1, FuncStays DEF Built
<1>6. BufInv(r)'
  <2>1. \A j : Promised(r, j)' = Promised(r, j)
    BY PromisedStays
  <2>2. Result(r)'
    BY <2>1, FixedStays DEF Result, Cell
  <2> QED BY <1>1, <2>2 DEF BufInv, Before
<1>7. RankInv(r)'
  BY <1>2, <1>3, <1>4, <1>5, <1>6 DEF RankInv
<1>8. Updates(r)
  BY <1>1 DEF Updates
<1> QED BY <1>7, <1>8, StepInv

LEMMA ReturnInv ==
  ASSUME IInv, Fixed, NEW r \in Rank, Return(r)
  PROVE  IInv'
<1>1. Runs(r, "reduced") /\ UNCHANGED <<calls, func, round>>
  BY DEF Return
<1>2. buf[r] = Resized(r) /\ (HasResult(r) => CountOf(r) <= Len(Resized(r)))
  BY <1>1 DEF Runs, IInv, RankInv, BufInv
<1>3. DOMAIN buf = Rank /\ ArgsInv
  BY DEF IInv, TypeInv
<1>4. CASE op \in Exscans /\ r = 0 /\ args[r].on_rank_0 # Omitted /\ ~ValuesOnRank0Fit(r)
           /\ Go(r, "aborted") /\ UNCHANGED buf
  <2>1. ~Legal
    BY <1>4 DEF Legal, ValuesOnRank0Fit
  <2>2. "aborted" \in Failed
    BY DEF Failed
  <2>3. at'[r] = "aborted"
    BY <1>4 DEF Go, IInv, TypeInv
  <2>4. FuncInv(r)'
    BY <1>1, <2>3, FuncStays DEF Built
  <2> QED BY <1>1, <1>4, <2>1, <2>2, <2>4, FailInv
<1>5. CASE op \in Exscans /\ r = 0 /\ Go(r, "returned")
           /\ buf' = [buf EXCEPT ![r] = Overwrite(buf[r], OnRank0Cells(r))]
  <2>1. HasResult(r)
    BY <1>5 DEF HasResult, Exscans, Reduces
  <2>2. DOMAIN OnRank0Cells(r) = 1 .. CountOf(r)
    BY DEF OnRank0Cells
  <2>3. buf'[r] = Overwrite(Resized(r), OnRank0Cells(r))
    BY <1>2, <1>3, <1>5
  <2>4. Len(buf'[r]) = SizeAfter(r)
    BY <1>2, <1>3, <2>1, <2>2, <2>3, OverwriteIs
  <2>5. \A j \in 1 .. CountOf(r) : buf'[r][j] = Promised(r, j)
    BY <1>2, <1>3, <1>5, <2>1, <2>2, <2>3, OverwriteIs, OnRank0Is
  <2>6. \A k \in DOMAIN buf'[r] : k > CountOf(r) => buf'[r][k] = Cell(r, k)
    BY <1>2, <1>3, <2>1, <2>2, <2>3, OverwriteIs
  <2> QED BY <1>1, <1>5, <2>1, <2>4, <2>5, <2>6, ReturnedInv
<1>6. CASE ~(op \in Exscans /\ r = 0) /\ Go(r, "returned") /\ HasResult(r)
           /\ buf' = [buf EXCEPT ![r] = Overwrite(buf[r], Reduced(r))]
  <2>1. DOMAIN Reduced(r) = 1 .. CountOf(r)
    BY DEF Reduced
  <2>2. buf'[r] = Overwrite(Resized(r), Reduced(r))
    BY <1>2, <1>3, <1>6
  <2>3. Len(buf'[r]) = SizeAfter(r)
    BY <1>2, <1>3, <1>6, <2>1, <2>2, OverwriteIs
  <2>4. \A j \in 1 .. CountOf(r) : Overwrite(Resized(r), Reduced(r))[j] = Reduced(r)[j]
    BY <1>2, <1>3, <1>6, <2>1, OverwriteIs
  <2>5. Faithful => \A j \in 1 .. CountOf(r) : buf'[r][j] = Promised(r, j)
    BY <1>1, <1>6, <2>2, <2>4, ReducedIs
  <2>6. \A k \in DOMAIN buf'[r] : k > CountOf(r) => buf'[r][k] = Cell(r, k)
    BY <1>2, <1>3, <1>6, <2>1, <2>2, OverwriteIs
  <2> QED BY <1>1, <1>6, <2>3, <2>5, <2>6, ReturnedInv
<1>7. CASE Go(r, "returned") /\ ~HasResult(r) /\ buf' = [buf EXCEPT ![r] = buf[r]]
  <2>1. buf'[r] = Resized(r)
    BY <1>2, <1>3, <1>7
  <2>2. /\ Len(Resized(r)) = SizeAfter(r) /\ SizeAfter(r) \in Nat
        /\ Resized(r) = [k \in 1 .. SizeAfter(r) |-> Cell(r, k)]
    BY <1>3, ResizedIs
  <2>3. \A k \in DOMAIN buf'[r] : buf'[r][k] = Cell(r, k)
    BY <2>1, <2>2
  <2> QED BY <1>1, <1>7, <2>1, <2>2, <2>3, ReturnedInv
<1> QED BY <1>4, <1>5, <1>6, <1>7 DEF Return

(* The next round of the loop.                                              *)
LEMMA AgainInv ==
  ASSUME IInv, Fixed, NEW r \in Rank, Again(r)
  PROVE  IInv'
<1>1. /\ at' = [at EXCEPT ![r] = "call"] /\ round' = [round EXCEPT ![r] = round[r] + 1]
      /\ buf' = [buf EXCEPT ![r] = InitialBuf(r)] /\ UNCHANGED <<calls, func>>
      /\ at[r] = "returned" /\ round[r] < Rounds
  BY DEF Again, Go
<1>2. at'[r] = "call" /\ round'[r] = round[r] + 1 /\ buf'[r] = InitialBuf(r)
  BY <1>1 DEF IInv, TypeInv
<1>3. TraceInv(r)'
  <2>1. Phase(Len(calls[r])) = Offset("call")
    BY <1>1 DEF IInv, RankInv, TraceInv, Failed, Offset
  <2>2. "call" \in Label \ {"reduced"} /\ Placed("call")
    BY DEF Label, Before, Placed
  <2> QED BY <1>1, <1>2, <2>1, <2>2, GoTrace
<1>4. PassedInv(r)' /\ SoundInv(r)'
  BY <1>2 DEF PassedInv, SoundInv, Failed
<1>5. FuncInv(r)'
  <2>1. round[r] \in Nat \ {0} /\ Rounds \in Nat
    BY ArgumentsAssumption DEF IInv, RankInv, FuncInv
  <2>2. /\ round[r] + 1 \in Nat \ {0} /\ round[r] + 1 <= Rounds /\ ~(Rounds <= 1)
    BY <1>1, <2>1
  <2>3. ~(Faithful /\ operation' = "lambda")
    BY <2>2 DEF Faithful, Fixed, IInv, ArgsInv
  <2> QED BY <1>2, <2>2, <2>3 DEF FuncInv
<1>6. BufInv(r)'
  BY <1>2, FixedStays DEF BufInv
<1>7. RankInv(r)'
  BY <1>3, <1>4, <1>5, <1>6 DEF RankInv
<1>8. Updates(r)
  BY <1>1 DEF Updates
<1> QED BY <1>7, <1>8, StepInv

LEMMA DisagreeInv ==
  ASSUME IInv, Fixed, NEW r \in Rank, Disagree(r)
  PROVE  IInv'
<1>1. ~Legal
  BY LegalAgreed DEF Disagree, Legal, IInv, RankInv
<1>2. Go(r, "rejected") /\ UNCHANGED <<calls, buf, func, round>>
  BY DEF Disagree, Reject
<1>3. at'[r] = "rejected"
  BY <1>2 DEF Go, IInv, TypeInv
<1>4. FuncInv(r)'
  BY <1>2, <1>3, FuncStays DEF Built
<1>5. "rejected" \in Failed
  BY DEF Failed
<1> QED BY <1>1, <1>2, <1>4, <1>5, FailInv

--------------------------------------------------------------------------------
LEMMA NextIInv == IInv /\ [Next]_vars => IInv'
<1> SUFFICES ASSUME IInv, [Next]_vars
             PROVE  IInv'
  OBVIOUS
<1>1. ASSUME NEW r \in Rank, Call(r)
      PROVE  IInv'
  <2>1. Fixed
    BY <1>1 DEF Call, Fixed
  <2> QED BY <1>1, <2>1, ReduceInv, AllreduceInv, ScanInv, ExscanInv, ReturnInv, AgainInv, DisagreeInv
        DEF Call
<1>2. CASE UNCHANGED vars
  <2>1. Fixed /\ \A r \in Rank : Still(r)
    BY <1>2 DEF vars, Fixed, Still
  <2>2. TypeInv'
    BY <1>2 DEF vars, IInv, TypeInv
  <2>3. ArgsInv' /\ \A r \in Rank : RankInv(r)'
    BY <2>1, FixedStays, StillInv DEF IInv
  <2> QED BY <2>2, <2>3 DEF IInv
<1> QED BY <1>1, <1>2 DEF Next

LEMMA PerRankValue ==
  ASSUME NEW S, NEW argument, NEW v \in PerRank(argument, S), NEW r \in Rank
  PROVE  v[r] \in S
BY DEF PerRank

LEMMA InitArgs == Init => ArgsInv
<1> SUFFICES ASSUME Init
             PROVE  ArgsInv
  OBVIOUS
<1>1. op \in WrapperOps /\ light \in BOOLEAN /\ operation \in Operations
  BY ArgumentsAssumption
     DEF Init, WrapperOps, Reduces, AllreduceOps, ScanOps, Exscans, Inplace, Singles
<1>2. PICK size \in PerRank("size", IF op \in Singles THEN {1} ELSE Sizes),
           counted \in PerRank("count", IF op \in Singles THEN {Omitted} ELSE {Omitted} \cup Sizes),
           root \in PerRank("root", IF op \in Reduces THEN Roots ELSE {0}),
           room \in PerRank("room", IF op \in Singles THEN {<<"no_resize", 1>>} ELSE RecvBuffers),
           first \in IF op \in Exscans THEN OnRank0 ELSE {Omitted} :
             /\ \A r \in Rank : counted[r] = Omitted \/ counted[r] <= size[r]
             /\ args = [r \in Rank |-> [size |-> size[r], count |-> counted[r], root |-> root[r],
                                        policy |-> room[r][1], room |-> room[r][2], on_rank_0 |-> first]]
             /\ light \/ \A r, s \in Rank : args[r] = args[s]
  BY DEF Init
<1>3. ASSUME NEW r \in Rank
      PROVE  /\ args[r].size \in Nat /\ CountOf(r) \in Nat /\ CountOf(r) <= args[r].size
             /\ args[r].room \in Nat /\ args[r].policy \in {"no_resize", "grow_only", "resize_to_fit"}
             /\ op \in Singles => args[r].size = 1
  <2>1. /\ args[r].size = size[r] /\ args[r].count = counted[r]
        /\ args[r].policy = room[r][1] /\ args[r].room = room[r][2]
    BY <1>2
  <2>2. size[r] \in (IF op \in Singles THEN {1} ELSE Sizes)
    BY PerRankValue
  <2>3. counted[r] \in {Omitted} \cup Sizes
    BY PerRankValue
  <2>4. room[r] \in (IF op \in Singles THEN {<<"no_resize", 1>>} ELSE RecvBuffers)
    BY PerRankValue
  <2>5. size[r] \in Nat /\ (op \in Singles => size[r] = 1)
    <3>1. op \in Singles => size[r] = 1
      BY <2>2
    <3>2. op \notin Singles => size[r] \in Sizes
      BY <2>2
    <3>3. Sizes \subseteq Nat
      BY ArgumentsAssumption
    <3>4. op \in Singles => size[r] \in Nat
      BY <3>1
    <3>5. op \notin Singles => size[r] \in Nat
      BY <3>2, <3>3
    <3> QED BY <3>1, <3>4, <3>5
  <2>6. counted[r] = Omitted \/ (counted[r] \in Nat /\ counted[r] <= size[r])
    BY <1>2, <2>3, ArgumentsAssumption
  <2>7. CountOf(r) = IF counted[r] = Omitted THEN size[r] ELSE counted[r]
    BY <2>1 DEF CountOf
  <2>8. CountOf(r) \in Nat /\ CountOf(r) <= size[r]
    BY <2>5, <2>6, <2>7
  <2>9. room[r] \in {"no_resize", "grow_only", "resize_to_fit"} \X Nat
    BY <2>4, ArgumentsAssumption
  <2> QED BY <2>1, <2>5, <2>8, <2>9
<1>4. DOMAIN args = Rank
  BY <1>2
<1> QED BY <1>1, <1>2, <1>3, <1>4 DEF ArgsInv

LEMMA InitIInv == Init => IInv
<1> SUFFICES ASSUME Init
             PROVE  IInv
  OBVIOUS
<1>1. ArgsInv /\ TypeInv
  BY InitArgs DEF Init, TypeInv
<1>2. ASSUME NEW r \in Rank
      PROVE  RankInv(r)
  <2>1. /\ at[r] = "call" /\ calls[r] = <<>> /\ buf[r] = InitialBuf(r)
        /\ round[r] = 1 /\ func[r] = Nothing
    BY DEF Init
  <2>2. Len(<<>>) = 0 /\ <<>> \in Seq(Entries(r))
    OBVIOUS
  <2>3. Phase(0) = Offset("call")
    BY <1>1, PhaseStep DEF Offset
  <2>4. TraceInv(r)
    BY <2>1, <2>2, <2>3 DEF TraceInv, Label, Before
  <2>5. PassedInv(r) /\ SoundInv(r) /\ BufInv(r)
    BY <2>1 DEF PassedInv, SoundInv, BufInv, Failed
  <2>6. FuncInv(r)
    BY <2>1 DEF FuncInv, Built
  <2> QED BY <2>4, <2>5, <2>6 DEF RankInv
<1> QED BY <1>1, <1>2 DEF IInv

LEMMA IInvHolds == Spec => []IInv
BY InitIInv, NextIInv, PTL DEF Spec

LEMMA DisagreementKnown ==
  ASSUME IInv, NEW r \in Rank, light, at[r] \in {"reduced", "returned"}
  PROVE  ~Disagreement
<1>1. FirstShared(r) /\ (Checks = 2 => SecondShared(r))
  BY DEF IInv, RankInv, PassedInv
<1>2. CASE op \in {"exscan", "exscan_single"}
  <2>1. /\ \A s \in Rank : Second(s) = CountOf(s) /\ First(s) = args[s].size
        /\ Checks = 2 /\ op \notin Reduces
    BY <1>2 DEF Second, First, Checks, Reduces
  <2> QED BY <1>1, <2>1 DEF Disagreement, FirstShared, SecondShared
<1>3. CASE op \notin {"exscan", "exscan_single"}
  <2>1. \A s \in Rank : First(s) = CountOf(s)
    BY <1>3 DEF First
  <2>2. op \in Reduces => Checks = 2 /\ \A s \in Rank : Second(s) = args[s].root
    BY DEF Checks, Second
  <2>3. \A s, q \in Rank : CountOf(s) = CountOf(q) /\ (op \in Reduces => args[s].root = args[q].root)
    BY <1>1, <2>1, <2>2 DEF FirstShared, SecondShared
  <2> QED BY <1>3, <2>3 DEF Disagreement
<1> QED BY <1>2, <1>3

--------------------------------------------------------------------------------
(* A reduction or scan that returns, in whatever round of a loop and        *)
(* whatever else its ranks were given, has combined in each cell the        *)
(* elements of the ranks the wrapper names by the operation of this very    *)
(* call, and resized the buffer as its policy says (collectives/reduce.hpp, *)
(* allreduce.hpp, scan.hpp, exscan.hpp). It does not with a functor that    *)
(* has a state, nor with a lambda in a loop (mpi_ops.hpp,                   *)
(* operation_builder.hpp): see the README.                                  *)
THEOREM ReductionsReturnPromise == Faithful /\ Spec => []ReducesWithGivenOperation
<1>1. Faithful /\ IInv => ReducesWithGivenOperation
  <2> SUFFICES ASSUME Faithful, IInv, NEW r \in Rank, at[r] = "returned"
               PROVE  /\ Len(buf[r]) = SizeAfter(r)
                      /\ (op \in Reduces => r = args[r].root) =>
                           \A j \in 1 .. CountOf(r) : buf[r][j] = Promised(r, j)
                      /\ \A k \in DOMAIN buf[r] :
                           (op \in Reduces /\ r # args[r].root) \/ k > CountOf(r) =>
                             buf[r][k] = IF k <= Len(InitialBuf(r)) THEN InitialBuf(r)[k] ELSE New
    BY DEF ReducesWithGivenOperation
  <2>1. Result(r)
    BY DEF IInv, RankInv, BufInv
  <2>2. HasResult(r) <=> (op \in Reduces => r = args[r].root)
    BY DEF HasResult, IsRoot
  <2> QED BY <2>1, <2>2 DEF Result
<1> SUFFICES ASSUME Faithful
             PROVE  Spec => []ReducesWithGivenOperation
  OBVIOUS
<1>2. IInv => ReducesWithGivenOperation
  BY <1>1
<1> QED BY <1>2, IInvHolds, PTL

(* No assertion of a reduction stops a legal call, of any operation, in any *)
(* round (collectives/reduce.hpp, allreduce.hpp, scan.hpp, exscan.hpp).     *)
THEOREM LegalReductionsReturn == Spec => []LegalReturns
<1>1. IInv => LegalReturns
  BY DEF IInv, RankInv, SoundInv, Failed, LegalReturns
<1> QED BY <1>1, IInvHolds, PTL

(* With communicating assertions no rank reduces, or returns, when the      *)
(* ranks disagree on a count, the root or the sizes of an exscan            *)
(* (is_same_on_all_ranks, assertion_levels.hpp).                            *)
THEOREM MisusedReductionsRejected == Spec => []MisuseRejected
<1>1. IInv => MisuseRejected
  BY DisagreementKnown DEF MisuseRejected
<1> QED BY <1>1, IInvHolds, PTL
================================================================================

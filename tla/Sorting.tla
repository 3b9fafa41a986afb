-------------------------------- MODULE Sorting --------------------------------
(***************************************************************************)
(* The distributed sample sort of plugin/sort.hpp with with_flattened of   *)
(* utils/flatten.hpp: each rank draws samples, all ranks pick splitters    *)
(* from the samples of all, and every element goes to the rank of its      *)
(* bucket. The exchange of the counts inside allgatherv and alltoallv is   *)
(* the business of Collectives; here each is one collective.               *)
(***************************************************************************)
EXTENDS MPICollectives, TLC

CONSTANTS
  Key,          (* The elements, integers compared by <.                   *)
  Default,      (* What T() is, which the vector of samples starts with.   *)
  Factor,       (* Samples per rank and doubling of the ranks: 16.         *)
  MaxElements   (* Bound on the elements of all ranks together.            *)

ASSUME SortingAssumption ==
  Key \subseteq Int /\ Default \in Key /\ Factor \in Nat \ {0} /\ MaxElements \in Nat

VARIABLES
  given,        (* The elements each rank calls sort with.                 *)
  data          (* The elements each rank holds.                           *)

vars == <<at, calls, given, data>>

Concat(blocks) == FlattenSeq([k \in 1 .. P |-> blocks[k - 1]])

(* The order within a rank decides nothing: the inputs are in one order each. *)
Inputs ==
  LET local == {s \in UNION {[1 .. n -> Key] : n \in 0 .. MaxElements} : IsSorted(s, <=)}
  IN  {input \in [Rank -> local] : Len(Concat(input)) <= MaxElements}

Init ==
  /\ given \in Inputs
  /\ data = given
  /\ at = [r \in Rank |-> "call"]
  /\ calls = [r \in Rank |-> << >>]

-----------------------------------------------------------------------------
(* The integer part of the logarithm. *)
Log2(n) == CHOOSE k \in 0 .. n : 2 ^ k <= n /\ n < 2 ^ (k + 1)

(* A plausible mistake, used nowhere. *)
OversamplingRatio_OfLocalSize(r) == Min({Factor * Log2(P) + 1, Len(data[r])})

OversamplingRatio(r) == Factor * Log2(P) + IF Len(data[r]) > 0 THEN 1 ELSE 0

(* std::sample selects as many elements as there are and fit, in their order. *)
Sampled(r) ==
  LET n == Min({Len(data[r]), OversamplingRatio(r)})
  IN  {[i \in 1 .. n |-> data[r][SetToSortSeq(chosen, <)[i]]] : chosen \in kSubset(n, DOMAIN data[r])}

(* The samples not selected stay as the vector was made. *)
LocalSamples(r) ==
  {[i \in 1 .. OversamplingRatio(r) |-> IF i <= Len(s) THEN s[i] ELSE Default] : s \in Sampled(r)}

Sorted(s) == SortSeq(s, <)

(* Every so many of the sorted samples one, counted from 0; behind them lies anything. *)
PickSplitters(r, samples, behind) ==
  [i \in 1 .. P - 1 |->
     LET k == OversamplingRatio(r) * i + 1
     IN  IF k <= Len(samples) THEN Sorted(samples)[k] ELSE behind]

(* std::upper_bound: the first splitter that is larger, or the end. *)
Bucket(x, splitters) == Min({P - 1} \cup {i - 1 : i \in {j \in 1 .. P - 1 : x < splitters[j]}})

BuildBuckets(r, splitters) ==
  [b \in Rank |-> SelectSeq(data[r], LAMBDA x : Bucket(x, splitters) = b)]

(* The buckets one behind the other, with their counts and displacements. *)
Flattened(buckets) ==
  LET counts == [b \in Rank |-> Len(buckets[b])]
  IN  [buf |-> Concat(buckets), counts |-> counts, displs |-> ExclusiveScan(counts)]

-----------------------------------------------------------------------------
Gather(r) ==
  /\ Runs(r, "call")
  /\ \E samples \in LocalSamples(r) :
       Enter(r, Collective("MPI_Allgatherv", 0, ToAll(samples), None), "sampled")
  /\ UNCHANGED <<given, data>>

Exchange(r) ==
  /\ Runs(r, "sampled")
  /\ \E behind \in Key :
       LET splitters == PickSplitters(r, Concat(Delivered(r)), behind)
           flat == Flattened(BuildBuckets(r, splitters))
           out == [s \in Rank |-> Slice(flat.buf, flat.displs[s], flat.counts[s])]
       IN  Enter(r, Collective("MPI_Alltoallv", 0, out, None), "exchanged")
  /\ UNCHANGED <<given, data>>

Finish(r) ==
  /\ Runs(r, "exchanged")
  /\ data' = [data EXCEPT ![r] = Sorted(Concat(Delivered(r)))]
  /\ Go(r, "returned")
  /\ UNCHANGED <<calls, given>>

AllReturned == \A r \in Rank : at[r] = "returned"

Next ==
  \/ \E r \in Rank : Gather(r) \/ Exchange(r) \/ Finish(r)
  \/ AllReturned /\ UNCHANGED vars

Spec == Init /\ [][Next]_vars

-----------------------------------------------------------------------------
Occurrences(x, s) == Cardinality({i \in DOMAIN s : s[i] = x})

(* The splitters are read among the samples. *)
SamplesSuffice(r) ==
  at[r] = "sampled" /\ CanLeave(r) => OversamplingRatio(r) * (P - 1) < Len(Concat(Delivered(r)))

(* Whatever is sampled, from however uneven ranks: no rank reads behind the *)
(* samples; a rank that returns holds its elements in order, none of them   *)
(* as large as one of a later rank (equal elements come together); and in   *)
(* the end each element given is held exactly as often as it was given.     *)
SortsGlobally ==
  /\ \A r \in Rank : SamplesSuffice(r)
  /\ \A r \in Rank : at[r] = "returned" => IsSorted(data[r], <=)
  /\ \A r, s \in Rank :
       r < s /\ at[r] = "returned" /\ at[s] = "returned" =>
         \A i \in DOMAIN data[r], j \in DOMAIN data[s] : data[r][i] < data[s][j]
  /\ AllReturned =>
       \A x \in Key : Occurrences(x, Concat(data)) = Occurrences(x, Concat(given))
================================================================================

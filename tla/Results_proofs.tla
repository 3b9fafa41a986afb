---------------------------- MODULE Results_proofs ----------------------------
(***************************************************************************)
(* What a wrapped call returns, and what happens to the variables of the   *)
(* caller, for calls with any number of parameters.                        *)
(***************************************************************************)
EXTENDS Results, TLAPS, FiniteSetTheorems, SequenceTheorems

--------------------------------------------------------------------------------
(* Sets in order                                                            *)

Below(S, s) == {t \in S : t < s}

LEMMA BelowGrows ==
  ASSUME NEW S \in SUBSET Nat, IsFiniteSet(S), NEW s \in S
  PROVE  /\ Cardinality(Below(S, s)) + 1 \in 1 .. Cardinality(S)
         /\ \A t \in S : s < t => Cardinality(Below(S, s)) < Cardinality(Below(S, t))
<1>1. \A t \in S : IsFiniteSet(Below(S, t)) /\ Cardinality(Below(S, t)) \in Nat
  <2> SUFFICES ASSUME NEW t \in S
               PROVE  IsFiniteSet(Below(S, t)) /\ Cardinality(Below(S, t)) \in Nat
    OBVIOUS
  <2>1. Below(S, t) \in SUBSET S
    BY DEF Below
  <2> QED BY <2>1, FS_Subset, FS_CardinalityType
<1>2. s \notin Below(S, s)
  BY DEF Below
<1>3. Cardinality(Below(S, s) \cup {s}) = Cardinality(Below(S, s)) + 1
  BY <1>1, <1>2, FS_AddElement
<1>4. Below(S, s) \cup {s} \in SUBSET S
  BY DEF Below
<1>5. Cardinality(Below(S, s) \cup {s}) <= Cardinality(S) /\ Cardinality(S) \in Nat
  BY <1>4, FS_Subset, FS_CardinalityType
<1>6. ASSUME NEW t \in S, s < t
      PROVE  Cardinality(Below(S, s)) < Cardinality(Below(S, t))
  <2>1. Below(S, s) \cup {s} \in SUBSET Below(S, t)
    <3>1. s \in Below(S, t)
      BY <1>6 DEF Below
    <3>2. ASSUME NEW x \in Below(S, s)
          PROVE  x \in Below(S, t)
      <4>1. x \in S /\ x < s /\ x \in Nat /\ s \in Nat /\ t \in Nat
        BY DEF Below
      <4>2. x < t
        BY <1>6, <4>1
      <4> QED BY <4>1, <4>2 DEF Below
    <3> QED BY <3>1, <3>2
  <2>2. Cardinality(Below(S, s) \cup {s}) <= Cardinality(Below(S, t))
    BY <1>1, <2>1, FS_Subset
  <2> QED BY <1>1, <1>3, <2>2
<1> QED BY <1>1, <1>3, <1>5, <1>6

(* Each member has one place, and the order is theirs.                      *)
LEMMA AscendingOrders ==
  ASSUME NEW S \in SUBSET Nat, IsFiniteSet(S)
  PROVE  /\ Cardinality(S) \in Nat /\ DOMAIN Ascending(S) = 1 .. Cardinality(S)
         /\ \A i \in 1 .. Cardinality(S) : Ascending(S)[i] \in S
         /\ \A s \in S : \E i \in 1 .. Cardinality(S) : Ascending(S)[i] = s
         /\ \A i, j \in 1 .. Cardinality(S) : i < j => Ascending(S)[i] < Ascending(S)[j]
<1> DEFINE n == Cardinality(S)
           a == Ascending(S)
           g == [s \in S |-> Cardinality(Below(S, s)) + 1]
<1>1. n \in Nat
  BY FS_CardinalityType
<1>2. \A s \in S : g[s] \in 1 .. n
  BY BelowGrows
<1>3. \A s, t \in S : s < t => g[s] < g[t]
  <2> SUFFICES ASSUME NEW s \in S, NEW t \in S, s < t
               PROVE  g[s] < g[t]
    OBVIOUS
  <2>1. Cardinality(Below(S, s)) < Cardinality(Below(S, t))
    BY BelowGrows
  <2>2. g[s] \in 1 .. n /\ g[t] \in 1 .. n
    BY <1>2
  <2>3. IsFiniteSet(Below(S, s)) /\ IsFiniteSet(Below(S, t))
    <3>1. Below(S, s) \in SUBSET S /\ Below(S, t) \in SUBSET S
      BY DEF Below
    <3> QED BY <3>1, FS_Subset
  <2>4. Cardinality(Below(S, s)) \in Nat /\ Cardinality(Below(S, t)) \in Nat
    BY <2>3, FS_CardinalityType
  <2> QED BY <2>1, <2>4
<1>4. \A s, t \in S : g[s] = g[t] => s = t
  <2> SUFFICES ASSUME NEW s \in S, NEW t \in S, g[s] = g[t]
               PROVE  s = t
    OBVIOUS
  <2>1. g[s] \in Nat
    BY <1>1, <1>2
  <2>2. ~(s < t) /\ ~(t < s)
    BY <1>3, <2>1
  <2> QED BY <2>2
<1>5. g \in Injection(S, 1 .. n)
  <2>1. g \in [S -> 1 .. n]
    BY <1>2
  <2> HIDE DEF g
  <2> QED BY <1>4, <2>1 DEF Injection, IsInjective
<1>6. IsFiniteSet(1 .. n) /\ Cardinality(1 .. n) = n
  BY <1>1, FS_Interval
<1>7. g \in Surjection(S, 1 .. n)
  BY <1>5, <1>6, FS_Injection
<1>8. \A i \in 1 .. n : \E s \in S : g[s] = i
  BY <1>7 DEF Surjection
<1> HIDE DEF g
<1>9. \A s \in S : g[s] = Cardinality({t \in S : t < s}) + 1 /\ Cardinality({t \in S : t < s}) \in Nat
  <2> SUFFICES ASSUME NEW s \in S
               PROVE  g[s] = Cardinality({t \in S : t < s}) + 1 /\ Cardinality({t \in S : t < s}) \in Nat
    OBVIOUS
  <2>1. {t \in S : t < s} \in SUBSET S
    OBVIOUS
  <2>2. Cardinality({t \in S : t < s}) \in Nat
    BY <2>1, FS_Subset, FS_CardinalityType
  <2> QED BY <2>2 DEF g, Below
<1>10. ASSUME NEW i \in 1 .. n
       PROVE  a[i] \in S /\ g[a[i]] = i
  <2>1. a[i] = CHOOSE s \in S : Cardinality({t \in S : t < s}) = i - 1
    BY DEF Ascending
  <2>2. PICK s \in S : g[s] = i
    BY <1>8
  <2>3. Cardinality({t \in S : t < s}) = i - 1
    BY <1>9, <2>2
  <2>4. a[i] \in S /\ Cardinality({t \in S : t < a[i]}) = i - 1
    BY <2>1, <2>3
  <2>5. g[a[i]] = (i - 1) + 1
    BY <1>9, <2>4
  <2> QED BY <2>4, <2>5
<1>11. DOMAIN a = 1 .. n
  BY DEF Ascending
<1> HIDE DEF a
<1>12. \A s \in S : a[g[s]] = s /\ g[s] \in 1 .. n
  BY <1>2, <1>4, <1>10 DEF g
<1>13. ASSUME NEW i \in 1 .. n, NEW j \in 1 .. n, i < j
       PROVE  a[i] < a[j]
  <2>1. a[i] \in S /\ a[j] \in S /\ g[a[i]] = i /\ g[a[j]] = j
    BY <1>10
  <2>2. i \in Nat /\ j \in Nat /\ i < j
    <3> HIDE DEF n
    <3> QED BY <1>1, <1>13
  <2>5. a[i] \in Nat /\ a[j] \in Nat
    BY <2>1
  <2>3. a[j] < a[i] => j < i
    BY <1>3, <2>1
  <2>4. a[i] = a[j] => i = j
    BY <2>1
  <2> QED BY <2>2, <2>3, <2>4, <2>5
<1> QED BY <1>1, <1>10, <1>11, <1>12, <1>13 DEF a

--------------------------------------------------------------------------------
(* Parameter objects and wrappers                                           *)

LEMMA ParameterFacts ==
  ASSUME NEW p \in AllParameters
  PROVE  /\ p.type \in Types
         /\ p.type = "send_buf" /\ IsOut(p) => Moved(p)
         /\ p.type \in RecvTypes => IsOut(p)
         /\ p.mode \in {"in", "out", "in_out"}
<1>1. \A t, m, o : p \in Parameters(t, m, o) => p.type = t /\ p.mode = m /\ p.owner \in o
  BY DEF Parameters
<1>2. p.type \in Types
  BY DEF Types
<1>3. p.mode \in {"in", "out", "in_out"}
  BY <1>1 DEF AllParameters, send_buf, send_buf_out, send_recv_buf, send_counts, send_counts_out,
    send_count, send_count_out, recv_counts, recv_counts_out, recv_count, recv_count_out,
    send_recv_count, send_recv_count_out, send_displs, send_displs_out, recv_displs,
    recv_displs_out, recv_buf, request, status_out, send_type, send_type_out, recv_type,
    recv_type_out, send_recv_type, send_recv_type_out
<1>4. p.type = "send_buf" => p.mode = "in" \/ p.owner = "moved"
  BY <1>1 DEF AllParameters, send_buf, send_buf_out, send_recv_buf, send_counts, send_counts_out,
    send_count, send_count_out, recv_counts, recv_counts_out, recv_count, recv_count_out,
    send_recv_count, send_recv_count_out, send_displs, send_displs_out, recv_displs,
    recv_displs_out, recv_buf, request, status_out, send_type, send_type_out, recv_type,
    recv_type_out, send_recv_type, send_recv_type_out
<1>5. p.type \in {"recv_buf", "send_recv_buf"} => p.mode \in {"out", "in_out"}
  BY <1>1 DEF AllParameters, send_buf, send_buf_out, send_recv_buf, send_counts, send_counts_out,
    send_count, send_count_out, recv_counts, recv_counts_out, recv_count, recv_count_out,
    send_recv_count, send_recv_count_out, send_displs, send_displs_out, recv_displs,
    recv_displs_out, recv_buf, request, status_out, send_type, send_type_out, recv_type,
    recv_type_out, send_recv_type, send_recv_type_out
<1> QED BY <1>2, <1>3, <1>4, <1>5 DEF IsOut, Moved, RecvTypes

(* A wrapper hands over at most one receive buffer, every one it accepts,   *)
(* and none where it hands over its send buffer.                            *)
LEMMA WrapperFacts ==
  ASSUME NEW w \in Wrappers
  PROVE  /\ \A t, u \in w.returned \intersect RecvTypes : t = u
         /\ (w.required \union w.optional) \intersect RecvTypes \subseteq w.returned
         /\ "send_buf" \in w.returned => w.returned \intersect RecvTypes = {}
         /\ "request" \notin RecvTypes
<1>1. CASE w = allgatherv
  BY <1>1 DEF allgatherv, Wrapper, RecvTypes
<1>2. CASE w = alltoallv
  BY <1>2 DEF alltoallv, Wrapper, RecvTypes
<1>3. CASE w = bcast
  BY <1>3 DEF bcast, Wrapper, RecvTypes
<1>4. CASE w = probe
  BY <1>4 DEF probe, Wrapper, RecvTypes
<1>5. CASE w = recv
  BY <1>5 DEF recv, Wrapper, RecvTypes
<1>6. CASE w = irecv
  BY <1>6 DEF irecv, Wrapper, RecvTypes
<1>7. CASE w = isend
  BY <1>7 DEF isend, Wrapper, RecvTypes
<1> QED BY <1>1, <1>2, <1>3, <1>4, <1>5, <1>6, <1>7 DEF Wrappers

(* A call that compiles: the parameter objects of a wrapper, of any number. *)
IsCall(w, ps) ==
  /\ w \in Wrappers
  /\ \E n \in Nat : ps \in [1 .. n -> Usable(w)]
  /\ Compiles(w, ps)

(* Each parameter object is found at its place, and no other.               *)
LEMMA FindsParameter ==
  ASSUME NEW w, NEW ps, IsCall(w, ps)
  PROVE  /\ \A i \in DOMAIN ps : find_pos(ps[i].type, ps) = i
         /\ \A t : t \notin ToSet(TypesOf(ps)) => find_pos(t, ps) = 0
<1>1. PICK n \in Nat : ps \in [1 .. n -> Usable(w)]
  BY DEF IsCall
<1>2. DOMAIN ps = 1 .. n /\ Len(ps) = n /\ DOMAIN TypesOf(ps) = 1 .. n
  BY <1>1 DEF TypesOf
<1>3. \A i, j \in 1 .. n : ps[i].type = ps[j].type => i = j
  <2>1. IsInjective(TypesOf(ps))
    BY DEF IsCall, Compiles, CheckParameters
  <2> QED BY <1>2, <2>1 DEF IsInjective, TypesOf
<1>4. ASSUME NEW i \in 1 .. n
      PROVE  find_pos(ps[i].type, ps) = i
  <2>1. {j \in 1 .. Len(ps) : ps[j].type = ps[i].type} = {i}
    BY <1>2, <1>3
  <2>2. Min({i}) = i
    BY DEF Min
  <2> QED BY <2>1, <2>2 DEF find_pos, SelectInSeq
<1>5. ASSUME NEW t, t \notin ToSet(TypesOf(ps))
      PROVE  find_pos(t, ps) = 0
  <2>1. {j \in 1 .. Len(ps) : ps[j].type = t} = {}
    BY <1>2, <1>5 DEF ToSet, TypesOf
  <2> QED BY <2>1 DEF find_pos, SelectInSeq
<1> QED BY <1>2, <1>4, <1>5

(* What the wrapper selects for a type: the object of the caller, or a      *)
(* default of the library.                                                  *)
Selected(t, ps) == select_parameter_type_or_default(t, ps)
TypesPassed(ps) == ToSet(TypesOf(ps))

LEMMA SelectsParameter ==
  ASSUME NEW w, NEW ps, IsCall(w, ps)
  PROVE  /\ \A i \in DOMAIN ps : /\ ps[i] \in AllParameters
                                 /\ ps[i].type \in TypesPassed(ps)
                                 /\ Selected(ps[i].type, ps) = ps[i]
         /\ \A t \in TypesPassed(ps) : \E i \in DOMAIN ps : ps[i].type = t
         /\ \A t \in TypesPassed(ps) : t \in w.required \union w.optional
         /\ \A t : t \notin TypesPassed(ps) => Selected(t, ps) = Default(t)
<1>1. PICK n \in Nat : ps \in [1 .. n -> Usable(w)]
  BY DEF IsCall
<1>2. DOMAIN ps = 1 .. n /\ DOMAIN TypesOf(ps) = DOMAIN ps
  BY <1>1 DEF TypesOf
<1>3. ASSUME NEW i \in DOMAIN ps
      PROVE  /\ ps[i] \in AllParameters
             /\ ps[i].type \in w.required \union w.optional
             /\ ps[i].type \in TypesPassed(ps)
             /\ Selected(ps[i].type, ps) = ps[i]
  <2>1. ps[i] \in Usable(w)
    BY <1>1, <1>2
  <2>2. ps[i].type \in TypesPassed(ps)
    BY <1>2 DEF TypesPassed, ToSet, TypesOf
  <2>3. find_pos(ps[i].type, ps) = i
    BY FindsParameter
  <2>4. i # 0
    BY <1>2
  <2>5. Selected(ps[i].type, ps) = ps[i]
    BY <2>3, <2>4 DEF Selected, select_parameter_type_or_default
  <2> QED BY <2>1, <2>2, <2>5 DEF Usable
<1>4. \A t \in TypesPassed(ps) : \E i \in DOMAIN ps : ps[i].type = t
  BY <1>2 DEF TypesPassed, ToSet, TypesOf
<1>5. ASSUME NEW t, t \notin TypesPassed(ps)
      PROVE  Selected(t, ps) = Default(t)
  <2>1. find_pos(t, ps) = 0
    BY <1>5, FindsParameter DEF TypesPassed
  <2> QED BY <2>1 DEF Selected, select_parameter_type_or_default
<1> QED BY <1>3, <1>4, <1>5

(* What the caller asked for: the owning out parameters it named.           *)
Asked(ps) == {t \in TypesPassed(ps) \ Ignored : IsOut(Selected(t, ps)) /\ IsOwning(Selected(t, ps))}

(* FilterOut keeps what was asked for, in the order of the caller.          *)
LEMMA OwningOutFacts ==
  ASSUME NEW w, NEW ps, IsCall(w, ps)
  PROVE  /\ OwningOut(ps) \in Seq(Types)
         /\ ToSet(OwningOut(ps)) = Asked(ps)
         /\ \A i, j \in DOMAIN OwningOut(ps) :
              i < j => find_pos(OwningOut(ps)[i], ps) < find_pos(OwningOut(ps)[j], ps)
<1> DEFINE K == {i \in DOMAIN ps : Kept(ps[i])}
           o == OwningOut(ps)
<1>1. PICK n \in Nat : ps \in [1 .. n -> Usable(w)]
  BY DEF IsCall
<1>2. DOMAIN ps = 1 .. n
  BY <1>1
<1>3. K \in SUBSET Nat /\ IsFiniteSet(K)
  <2>1. K \in SUBSET (1 .. n) /\ IsFiniteSet(1 .. n)
    BY <1>2, FS_Interval
  <2>2. IsFiniteSet(K)
    BY <2>1, FS_Subset
  <2>3. 1 .. n \in SUBSET Nat
    OBVIOUS
  <2> QED BY <2>1, <2>2, <2>3
<1> DEFINE k == Cardinality(K)
           a == Ascending(K)
<1>4. /\ k \in Nat /\ DOMAIN a = 1 .. k
      /\ \A i \in 1 .. k : a[i] \in K
      /\ \A s \in K : \E i \in 1 .. k : a[i] = s
      /\ \A i, j \in 1 .. k : i < j => a[i] < a[j]
  BY <1>3, AscendingOrders
<1>5. o = [i \in 1 .. k |-> ps[a[i]].type]
  <2>1. FilterOut(ps) = [i \in DOMAIN a |-> ps[a[i]]]
    BY DEF FilterOut
  <2>2. o = [i \in DOMAIN a |-> FilterOut(ps)[i].type]
    BY <2>1 DEF OwningOut, TypesOf
  <2> QED BY <1>4, <2>1, <2>2
<1>6. \A i \in K : ps[i] \in AllParameters /\ ps[i].type \in Types /\ find_pos(ps[i].type, ps) = i
  BY SelectsParameter, ParameterFacts, FindsParameter
<1>7. ASSUME NEW t
      PROVE  t \in Asked(ps) <=> \E i \in K : ps[i].type = t
  BY SelectsParameter DEF Asked, Kept
<1> HIDE DEF K, k, a, o
<1>8. o \in Seq(Types)
  BY <1>4, <1>5, <1>6
<1>9. ToSet(o) = Asked(ps)
  BY <1>4, <1>5, <1>7 DEF ToSet
<1>10. \A i, j \in DOMAIN o : i < j => find_pos(o[i], ps) < find_pos(o[j], ps)
  <2> SUFFICES ASSUME NEW i \in 1 .. k, NEW j \in 1 .. k, i < j
               PROVE  find_pos(o[i], ps) < find_pos(o[j], ps)
    BY <1>5
  <2>1. find_pos(o[i], ps) = a[i] /\ find_pos(o[j], ps) = a[j]
    BY <1>4, <1>5, <1>6
  <2> QED BY <1>4, <2>1
<1> QED BY <1>8, <1>9, <1>10 DEF o

(* A receive buffer that is handed over although the caller named none.     *)
Unnamed(w, ps) == (w.returned \intersect RecvTypes) \ TypesPassed(ps)

(* make_mpi_result returns what was asked for, after the unnamed receive    *)
(* buffer where there is one.                                               *)
LEMMA ResultTypes ==
  ASSUME NEW w, NEW ps, IsCall(w, ps)
  PROVE  LET R == make_mpi_result(w, ps) IN
         /\ \/ Unnamed(w, ps) = {} /\ R.types = OwningOut(ps)
            \/ \E t : Unnamed(w, ps) = {t} /\ R.types = <<t>> \o OwningOut(ps)
         /\ R.kind = "value" => Len(R.types) = 1
<1> DEFINE outs == OwningOut(ps)
           recvs == w.returned \intersect RecvTypes
           R == make_mpi_result(w, ps)
           goal == /\ \/ Unnamed(w, ps) = {} /\ R.types = outs
                      \/ \E t : Unnamed(w, ps) = {t} /\ R.types = <<t>> \o outs
                   /\ R.kind = "value" => Len(R.types) = 1
<1>1. w \in Wrappers /\ ToSet(R.types) \subseteq w.returned
  BY DEF IsCall, Compiles
<1>2. outs \in Seq(Types) /\ ToSet(outs) = Asked(ps)
  BY OwningOutFacts
<1>3. \A t \in recvs \intersect TypesPassed(ps) : IsOut(Selected(t, ps)) /\ t \notin Ignored
  <2> SUFFICES ASSUME NEW t \in recvs \intersect TypesPassed(ps)
               PROVE  IsOut(Selected(t, ps)) /\ t \notin Ignored
    OBVIOUS
  <2>1. PICK i \in DOMAIN ps : ps[i].type = t
    BY SelectsParameter
  <2>2. ps[i] \in AllParameters /\ Selected(t, ps) = ps[i]
    BY <2>1, SelectsParameter
  <2>3. "request" \notin RecvTypes
    BY <1>1, WrapperFacts
  <2> QED BY <2>1, <2>2, <2>3, ParameterFacts DEF Ignored
<1>4. \A t, u \in recvs : t = u
  BY <1>1, WrapperFacts
<1>5. \A t \in ToSet(outs) : t \in TypesPassed(ps)
  BY <1>2 DEF Asked
<1>6. CASE outs = <<"send_buf">>
  <2>1. R.kind = "value" /\ R.types = outs
    BY <1>6 DEF make_mpi_result, return_send_buf_out_only, Returned
  <2>2. "send_buf" \in ToSet(R.types)
    BY <1>6, <2>1 DEF ToSet
  <2>3. Unnamed(w, ps) = {}
    BY <1>1, <2>2, WrapperFacts DEF Unnamed
  <2>4. Len(outs) = 1
    BY <1>6
  <2> QED BY <2>1, <2>3, <2>4
<1>7. CASE outs # <<"send_buf">> /\ recvs = {}
  <2>1. R = Object(outs)
    BY <1>7 DEF make_mpi_result, return_send_buf_out_only
  <2>2. R.types = outs /\ R.kind # "value"
    BY <2>1 DEF Object, Returned
  <2> QED BY <1>7, <2>2 DEF Unnamed
<1>8. CASE outs # <<"send_buf">> /\ recvs # {}
  <2> DEFINE t == CHOOSE r \in recvs : TRUE
  <2>1. t \in recvs /\ recvs = {t} /\ t \in RecvTypes
    BY <1>4, <1>8
  <2>2. R = IF ~IsOwning(Selected(t, ps)) THEN Object(outs)
            ELSE IF return_recv_or_send_recv_buffer_only(outs) THEN Returned("value", <<t>>)
            ELSE IF t \in ToSet(outs) THEN Object(outs)
            ELSE Object(<<t>> \o outs)
    BY <1>8 DEF make_mpi_result, return_send_buf_out_only, Selected
  <2> HIDE DEF t
  <2>3. Unnamed(w, ps) = IF t \in TypesPassed(ps) THEN {} ELSE {t}
    BY <2>1 DEF Unnamed
  <2>4. \A s : Object(s).types = s /\ Object(s).kind # "value"
    BY DEF Object, Returned
  <2>5. Returned("value", <<t>>).types = <<t>> /\ Len(<<t>>) = 1
    BY DEF Returned
  <2>6. CASE ~IsOwning(Selected(t, ps))
    <3>1. t \in TypesPassed(ps)
      <4>1. t # "status"
        BY <2>1 DEF RecvTypes
      <4>2. t \notin TypesPassed(ps) => Selected(t, ps).owner = "library"
        BY <4>1, SelectsParameter DEF Default
      <4> QED BY <2>6, <4>2 DEF IsOwning
    <3>2. R = Object(outs)
      BY <2>2, <2>6
    <3> QED BY <2>3, <2>4, <3>1, <3>2
  <2>7. CASE IsOwning(Selected(t, ps)) /\ return_recv_or_send_recv_buffer_only(outs)
    <3>1. R = Returned("value", <<t>>)
      BY <2>2, <2>7
    <3>2. t \in TypesPassed(ps) => t \in ToSet(outs)
      BY <1>2, <1>3, <2>1, <2>7 DEF Asked
    <3>3. CASE outs = <<>>
      <4>1. ToSet(outs) = {}
        BY <3>3 DEF ToSet
      <4>2. <<t>> \o outs = <<t>>
        BY <3>3
      <4> QED BY <2>3, <2>5, <3>1, <3>2, <4>1, <4>2
    <3>4. CASE \E u \in RecvTypes : outs = <<u>>
      <4>1. PICK u \in RecvTypes : outs = <<u>>
        BY <3>4
      <4>2. u \in ToSet(outs)
        BY <4>1 DEF ToSet
      <4>3. u \in recvs
        <5>1. u \in w.required \union w.optional
          BY <1>5, <4>2, SelectsParameter
        <5> QED BY <1>1, <5>1, WrapperFacts
      <4>4. u = t
        BY <2>1, <4>3
      <4>5. t \in TypesPassed(ps)
        BY <1>5, <4>2, <4>4
      <4> QED BY <2>3, <2>5, <3>1, <4>1, <4>4, <4>5
    <3> QED BY <2>7, <3>3, <3>4 DEF return_recv_or_send_recv_buffer_only
  <2>8. CASE /\ IsOwning(Selected(t, ps)) /\ ~return_recv_or_send_recv_buffer_only(outs)
             /\ t \in ToSet(outs)
    <3>1. R = Object(outs)
      BY <2>2, <2>8
    <3>2. t \in TypesPassed(ps)
      BY <1>5, <2>8
    <3> QED BY <2>3, <2>4, <3>1, <3>2
  <2>9. CASE /\ IsOwning(Selected(t, ps)) /\ ~return_recv_or_send_recv_buffer_only(outs)
             /\ t \notin ToSet(outs)
    <3>1. R = Object(<<t>> \o outs)
      BY <2>2, <2>9
    <3>2. t \notin TypesPassed(ps)
      BY <1>2, <1>3, <2>1, <2>9 DEF Asked
    <3> QED BY <2>3, <2>4, <3>1, <3>2
  <2> QED BY <2>6, <2>7, <2>8, <2>9
<1> QED BY <1>6, <1>7, <1>8

(* The types of the result are those asked for and the unnamed receive      *)
(* buffer, each once, that one first and the others as the caller named     *)
(* them; each is of an owning buffer that holds what the call computes, or  *)
(* of a send buffer that was moved in.                                      *)
LEMMA ResultFacts ==
  ASSUME NEW w, NEW ps, IsCall(w, ps)
  PROVE  LET types == make_mpi_result(w, ps).types
             unnamed == Unnamed(w, ps) IN
         /\ types \in Seq(Types)
         /\ ToSet(types) = Asked(ps) \union unnamed
         /\ \A i, j \in DOMAIN types : i < j =>
              /\ types[i] # types[j]
              /\ types[j] \notin unnamed
              /\ types[i] \in unnamed \/ find_pos(types[i], ps) < find_pos(types[j], ps)
         /\ \A t \in ToSet(types) : t # "send_buf" =>
              /\ t \in TypesPassed(ps) \union w.returned
              /\ has_to_be_computed(Selected(t, ps))
              /\ IsOwning(Selected(t, ps))
         /\ "send_buf" \in ToSet(types) =>
              \E i \in DOMAIN ps : ps[i].type = "send_buf" /\ Moved(ps[i])
<1> DEFINE types == make_mpi_result(w, ps).types
           unnamed == Unnamed(w, ps)
           outs == OwningOut(ps)
<1>1. /\ outs \in Seq(Types) /\ ToSet(outs) = Asked(ps)
      /\ \A i, j \in DOMAIN outs : i < j => find_pos(outs[i], ps) < find_pos(outs[j], ps)
  BY OwningOutFacts
<1>2. \A t \in unnamed : t \in RecvTypes /\ t \in w.returned /\ t \notin TypesPassed(ps)
  BY DEF Unnamed
<1>3. \A t \in Asked(ps) : t \in TypesPassed(ps) /\ t \notin unnamed
  BY <1>2 DEF Asked
<1>4. RecvTypes \in SUBSET Types
  <2>1. [type |-> "recv_buf", mode |-> "out", owner |-> "library"] \in recv_buf
    BY DEF recv_buf, Parameters, AnyOwner
  <2>2. [type |-> "send_recv_buf", mode |-> "in_out", owner |-> "library"] \in send_recv_buf
    BY DEF send_recv_buf, Parameters, AnyOwner
  <2>3. recv_buf \in SUBSET AllParameters /\ send_recv_buf \in SUBSET AllParameters
    BY DEF AllParameters
  <2>4. "recv_buf" \in Types /\ "send_recv_buf" \in Types
    BY <2>1, <2>2, <2>3 DEF Types
  <2> QED BY <2>4 DEF RecvTypes
<1>5. \/ unnamed = {} /\ types = outs
      \/ \E t : unnamed = {t} /\ types = <<t>> \o outs
  BY ResultTypes
<1>6. \A n \in Nat : \A i, j \in 1 .. n : i < j =>  i # j
  OBVIOUS
<1>7. \A i \in DOMAIN outs : outs[i] \in Asked(ps) /\ find_pos(outs[i], ps) \in Nat
  <2> SUFFICES ASSUME NEW i \in DOMAIN outs
               PROVE  outs[i] \in Asked(ps) /\ find_pos(outs[i], ps) \in Nat
    OBVIOUS
  <2>1. outs[i] \in Asked(ps)
    BY <1>1 DEF ToSet
  <2>2. PICK m \in DOMAIN ps : ps[m].type = outs[i]
    BY <2>1, SelectsParameter DEF Asked
  <2>3. find_pos(outs[i], ps) = m
    BY <2>2, FindsParameter
  <2>4. DOMAIN ps \in SUBSET Nat
    BY DEF IsCall
  <2> QED BY <2>1, <2>3, <2>4
<1> DEFINE order(s) == \A i, j \in DOMAIN s : i < j =>
             /\ s[i] # s[j]
             /\ s[j] \notin unnamed
             /\ s[i] \in unnamed \/ find_pos(s[i], ps) < find_pos(s[j], ps)
<1>8. types \in Seq(Types) /\ ToSet(types) = Asked(ps) \union unnamed /\ order(types)
  <2>1. CASE unnamed = {} /\ types = outs
    <3>1. \A i, j \in DOMAIN outs : i < j => outs[i] # outs[j]
      BY <1>1, <1>7
    <3> HIDE DEF outs
    <3> QED BY <1>1, <2>1, <3>1
  <2>2. CASE \E t : unnamed = {t} /\ types = <<t>> \o outs
    <3>1. PICK t : unnamed = {t} /\ types = <<t>> \o outs
      BY <2>2
    <3>2. t \in Types
      BY <1>2, <1>4, <3>1
    <3> HIDE DEF outs, types, unnamed
    <3> DEFINE n == Len(outs)
    <3>3. /\ n \in Nat /\ DOMAIN outs = 1 .. n
          /\ types \in Seq(Types) /\ DOMAIN types = 1 .. n + 1
          /\ types[1] = t
          /\ \A i \in 1 .. n : types[i + 1] = outs[i]
      BY <1>1, <3>1, <3>2
    <3>4. \A i \in 2 .. n + 1 : i - 1 \in 1 .. n /\ types[i] = outs[i - 1]
      <4> SUFFICES ASSUME NEW i \in 2 .. n + 1
                   PROVE  i - 1 \in 1 .. n /\ types[i] = outs[i - 1]
        OBVIOUS
      <4>1. i - 1 \in 1 .. n /\ (i - 1) + 1 = i
        BY <3>3
      <4> QED BY <3>3, <4>1
    <3>5. ToSet(types) = Asked(ps) \union unnamed
      <4>1. ASSUME NEW x \in ToSet(types)
            PROVE  x \in Asked(ps) \union unnamed
        <5>1. PICK i \in 1 .. n + 1 : types[i] = x
          BY <3>3, <4>1 DEF ToSet
        <5>2. CASE i = 1
          BY <3>1, <3>3, <5>1, <5>2
        <5>3. CASE i # 1
          <6>1. i \in 2 .. n + 1
            BY <3>3, <5>3
          <6>2. x = outs[i - 1] /\ i - 1 \in DOMAIN outs
            BY <3>3, <3>4, <5>1, <6>1
          <6> QED BY <1>7, <6>2
        <5> QED BY <5>2, <5>3
      <4>2. ASSUME NEW x \in Asked(ps)
            PROVE  x \in ToSet(types)
        <5>1. PICK i \in 1 .. n : outs[i] = x
          BY <1>1, <3>3, <4>2 DEF ToSet
        <5>2. i + 1 \in DOMAIN types /\ types[i + 1] = x
          BY <3>3, <5>1
        <5> QED BY <5>2 DEF ToSet
      <4>3. t \in ToSet(types)
        <5>1. 1 \in DOMAIN types /\ types[1] = t
          BY <3>3
        <5> QED BY <5>1 DEF ToSet
      <4> QED BY <3>1, <4>1, <4>2, <4>3
    <3>6. order(types)
      <4> SUFFICES ASSUME NEW i \in 1 .. n + 1, NEW j \in 1 .. n + 1, i < j
                   PROVE  /\ types[i] # types[j]
                          /\ types[j] \notin unnamed
                          /\ types[i] \in unnamed \/ find_pos(types[i], ps) < find_pos(types[j], ps)
        BY <3>3
      <4>1. j \in 2 .. n + 1
        BY <3>3
      <4>2. j - 1 \in DOMAIN outs /\ types[j] = outs[j - 1]
        BY <3>3, <3>4, <4>1
      <4>3. types[j] \in Asked(ps) /\ types[j] \notin unnamed
        BY <1>3, <1>7, <4>2
      <4>4. CASE i = 1
        BY <3>1, <3>3, <4>3, <4>4
      <4>5. CASE i # 1
        <5>1. i \in 2 .. n + 1
          BY <3>3, <4>5
        <5>2. i - 1 \in DOMAIN outs /\ types[i] = outs[i - 1] /\ i - 1 < j - 1
          BY <3>3, <3>4, <5>1
        <5>3. find_pos(types[i], ps) < find_pos(types[j], ps)
          BY <1>1, <4>2, <5>2
        <5>4. find_pos(types[j], ps) \in Nat
          BY <1>7, <4>2
        <5> QED BY <4>3, <5>3, <5>4
      <4> QED BY <4>4, <4>5
    <3> QED BY <3>3, <3>5, <3>6
  <2> QED BY <1>5, <2>1, <2>2
<1>9. ASSUME NEW t \in ToSet(types), t # "send_buf"
      PROVE  /\ t \in TypesPassed(ps) \union w.returned
             /\ has_to_be_computed(Selected(t, ps))
             /\ IsOwning(Selected(t, ps))
  <2>1. CASE t \in Asked(ps)
    BY <2>1 DEF Asked, has_to_be_computed
  <2>2. CASE t \in unnamed
    <3>1. Selected(t, ps) = Default(t)
      BY <1>2, <2>2, SelectsParameter
    <3>2. t # "status"
      BY <1>2, <2>2 DEF RecvTypes
    <3>3. Selected(t, ps).owner = "library"
      BY <3>1, <3>2 DEF Default
    <3> QED BY <1>2, <2>2, <3>3 DEF has_to_be_computed, IsOwning
  <2> QED BY <1>8, <1>9, <2>1, <2>2
<1>10. ASSUME "send_buf" \in ToSet(types)
       PROVE  \E i \in DOMAIN ps : ps[i].type = "send_buf" /\ Moved(ps[i])
  <2>1. "send_buf" \in Asked(ps)
    <3>1. "send_buf" \notin RecvTypes
      BY DEF RecvTypes
    <3> QED BY <1>2, <1>8, <1>10, <3>1
  <2>2. PICK i \in DOMAIN ps : ps[i].type = "send_buf"
    BY <2>1, SelectsParameter DEF Asked
  <2>3. ps[i] \in AllParameters /\ IsOut(ps[i])
    BY <2>1, <2>2, SelectsParameter DEF Asked
  <2> QED BY <2>2, <2>3, ParameterFacts
<1> QED BY <1>8, <1>9, <1>10

--------------------------------------------------------------------------------
(* The call                                                                 *)

Written(t) ==
  t \in TypesPassed(args) /\ IsOut(Selected(t, args)) /\ ~IsOwning(Selected(t, args))

SendBufferMoved == \E i \in DOMAIN args : args[i].type = "send_buf" /\ Moved(args[i])

Shape ==
  /\ pc \in {"caller", "named", "constructed", "executed", "returned"}
  /\ DOMAIN container = Types /\ DOMAIN built = Types /\ DOMAIN buffer = Types
  /\ pc # "caller" => IsCall(wrapper, args)
  /\ pc # "returned" => extracted = {} /\ seen = <<>>

(* A variable of the caller changes by a move into the call, and by being   *)
(* written once the call was executed.                                      *)
Containers ==
  \A t \in Types :
    \/ container[t] = "initial" /\ (pc \in {"executed", "returned"} => ~Written(t))
    \/ /\ container[t] = "moved-from" /\ pc # "caller"
       /\ t \in TypesPassed(args) /\ Moved(Selected(t, args))
    \/ container[t] = "computed" /\ pc \in {"executed", "returned"} /\ Written(t)

(* A send buffer moved into the call is on its way to the result.           *)
SendBuffer ==
  /\ pc = "named" /\ SendBufferMoved => built["send_buf"] = "initial"
  /\ pc = "constructed" /\ SendBufferMoved => buffer["send_buf"] = "initial"

(* What is to be returned is what the call computed, and stays so until it  *)
(* is extracted.                                                            *)
Outcome ==
  /\ pc = "executed" =>
       \A t \in ToSet(make_mpi_result(wrapper, args).types) : buffer[t] = Final(t)
  /\ pc = "returned" =>
       /\ result = make_mpi_result(wrapper, args)
       /\ DOMAIN slot = DOMAIN result.types
       /\ \A i \in DOMAIN result.types \ extracted : slot[i] = Final(result.types[i])

IInv == Shape /\ Containers /\ SendBuffer /\ Outcome /\ ReadsAreFresh

LEMMA IInvInit == Init => IInv
<1> SUFFICES ASSUME Init
             PROVE  IInv
  OBVIOUS
<1>1. pc = "caller"
  BY DEF Init
<1>2. \A t \in Types : container[t] = "initial"
  BY DEF Init
<1>3. Shape
  BY DEF Init, Shape, Empty
<1>4. Containers
  BY <1>1, <1>2 DEF Containers
<1>5. SendBuffer /\ Outcome
  BY <1>1 DEF SendBuffer, Outcome
<1>6. ReadsAreFresh
  BY DEF Init, ReadsAreFresh
<1> QED BY <1>3, <1>4, <1>5, <1>6 DEF IInv

LEMMA IInvName ==
  ASSUME IInv, NEW w \in Wrappers, Name(w)
  PROVE  IInv'
<1>1. pc = "caller" /\ pc' = "named" /\ wrapper' = w /\ extracted' = extracted /\ seen' = seen
      /\ buffer' = buffer
  BY DEF Name
<1>2. PICK ps \in {qs \in Calls(w) : Compiles(w, qs)} :
        /\ args' = ps
        /\ built' = [t \in Types |-> IF t \in {ps[i].type : i \in {j \in DOMAIN ps : Own(ps[j])}}
                                     THEN container[t] ELSE Nothing]
        /\ container' = [t \in Types |-> IF t \in {ps[i].type : i \in {j \in DOMAIN ps : Moved(ps[j])}}
                                         THEN "moved-from" ELSE container[t]]
  BY DEF Name
<1>3. IsCall(wrapper', args')
  <2>1. PICK n \in 0 .. MaxParameters : ps \in [1 .. n -> Usable(w)]
    BY DEF Calls
  <2>2. n \in Nat
    OBVIOUS
  <2> QED BY <1>1, <1>2, <2>1, <2>2 DEF IsCall
<1>4. \A t \in Types : container[t] = "initial"
  BY <1>1 DEF IInv, Containers
<1>5. Shape'
  BY <1>1, <1>2, <1>3 DEF IInv, Shape
<1>6. ASSUME NEW i \in DOMAIN args'
      PROVE  /\ (args')[i].type \in Types
             /\ (args')[i].type \in TypesPassed(args')
             /\ Selected((args')[i].type, args') = (args')[i]
  BY <1>3, SelectsParameter, ParameterFacts
<1>7. Containers'
  <2> SUFFICES ASSUME NEW t \in Types
               PROVE  \/ container'[t] = "initial"
                      \/ /\ container'[t] = "moved-from"
                         /\ t \in TypesPassed(args') /\ Moved(Selected(t, args'))
    BY <1>1 DEF Containers
  <2>1. CASE \E i \in DOMAIN ps : Moved(ps[i]) /\ ps[i].type = t
    BY <1>2, <1>6, <2>1
  <2>2. CASE ~\E i \in DOMAIN ps : Moved(ps[i]) /\ ps[i].type = t
    BY <1>2, <1>4, <2>2
  <2> QED BY <2>1, <2>2
<1>8. SendBuffer'
  <2>1. ASSUME SendBufferMoved'
        PROVE  built'["send_buf"] = "initial"
    <3>1. PICK i \in DOMAIN ps : ps[i].type = "send_buf" /\ Moved(ps[i])
      BY <1>2, <2>1 DEF SendBufferMoved
    <3>2. "send_buf" \in Types /\ Own(ps[i])
      BY <1>2, <1>6, <3>1 DEF Own, Moved
    <3>3. "send_buf" \in {ps[j].type : j \in {k \in DOMAIN ps : Own(ps[k])}}
      BY <3>1, <3>2
    <3> QED BY <1>2, <1>4, <3>2, <3>3
  <2> QED BY <1>1, <2>1 DEF SendBuffer
<1>9. Outcome' /\ ReadsAreFresh'
  BY <1>1 DEF IInv, Outcome, ReadsAreFresh
<1> QED BY <1>5, <1>7, <1>8, <1>9 DEF IInv

LEMMA IInvConstructBuffers ==
  ASSUME IInv, ConstructBuffers
  PROVE  IInv'
<1>1. /\ pc = "named" /\ pc' = "constructed"
      /\ wrapper' = wrapper /\ args' = args /\ container' = container
      /\ extracted' = extracted /\ seen' = seen
  BY DEF ConstructBuffers
<1>2. IsCall(wrapper, args)
  BY <1>1 DEF IInv, Shape
<1>3. Shape'
  BY <1>1 DEF IInv, Shape, ConstructBuffers
<1>4. Containers'
  BY <1>1 DEF IInv, Containers, Written
<1>5. ASSUME SendBufferMoved
      PROVE  buffer'["send_buf"] = "initial"
  <2>1. PICK i \in DOMAIN args : args[i].type = "send_buf" /\ Moved(args[i])
    BY <1>5 DEF SendBufferMoved
  <2>2. /\ "send_buf" \in Types /\ "send_buf" \in Passed
        /\ Own(Arg("send_buf"))
    BY <1>2, <2>1, SelectsParameter, ParameterFacts DEF TypesPassed, Passed, Selected, Arg, Own, Moved
  <2>3. Arg("send_buf").owner # "library"
    BY <2>2 DEF Own
  <2>4. built["send_buf"] = "initial"
    BY <1>1, <1>5 DEF IInv, SendBuffer
  <2>5. buffer'["send_buf"] =
          CASE Own(Arg("send_buf"))                -> built["send_buf"]
            [] Arg("send_buf").owner = "library" -> "allocated"
            [] OTHER                             -> Nothing
    BY <2>2 DEF ConstructBuffers
  <2> QED BY <2>2, <2>3, <2>4, <2>5
<1>6. SendBuffer'
  BY <1>1, <1>5 DEF SendBuffer, SendBufferMoved
<1>7. Outcome' /\ ReadsAreFresh'
  BY <1>1 DEF IInv, Outcome, ReadsAreFresh
<1> QED BY <1>3, <1>4, <1>6, <1>7 DEF IInv

LEMMA IInvExecute ==
  ASSUME IInv, Execute
  PROVE  IInv'
<1>1. /\ pc = "constructed" /\ pc' = "executed"
      /\ wrapper' = wrapper /\ args' = args /\ built' = built
      /\ extracted' = extracted /\ seen' = seen
  BY DEF Execute
<1>2. IsCall(wrapper, args)
  BY <1>1 DEF IInv, Shape
<1>3. Shape'
  BY <1>1 DEF IInv, Shape, Execute
<1>4. \A t : Arg(t) = Selected(t, args)
  BY DEF Arg, Selected
<1>5. Passed = TypesPassed(args)
  BY DEF Passed, TypesPassed
<1>6. \A t \in Types : t \in Computed /\ ~IsOwning(Arg(t)) <=> Written(t)
  <2> SUFFICES ASSUME NEW t \in Types
               PROVE  t \in Computed /\ ~IsOwning(Arg(t)) <=> Written(t)
    OBVIOUS
  <2>1. CASE t \in TypesPassed(args)
    <3>1. PICK i \in DOMAIN args : args[i].type = t
      BY <2>1, <1>2, SelectsParameter
    <3>2. args[i] \in AllParameters /\ Selected(t, args) = args[i]
      BY <1>2, <3>1, SelectsParameter
    <3>3. t = "send_buf" /\ IsOut(Selected(t, args)) => IsOwning(Selected(t, args))
      BY <3>1, <3>2, ParameterFacts DEF Moved, IsOwning
    <3>4. ~IsOwning(Selected(t, args)) => (has_to_be_computed(Selected(t, args)) <=> IsOut(Selected(t, args)))
      BY DEF IsOwning, has_to_be_computed
    <3>5. t \in Computed <=> has_to_be_computed(Selected(t, args)) /\ t # "send_buf"
      BY <1>4, <1>5, <2>1 DEF Computed
    <3> QED BY <1>4, <2>1, <3>3, <3>4, <3>5 DEF Written
  <2>2. CASE t \notin TypesPassed(args)
    <3>1. Selected(t, args) = Default(t)
      BY <1>2, <2>2, SelectsParameter
    <3>2. ~IsOwning(Default(t)) => ~has_to_be_computed(Default(t))
      BY DEF Default, IsOwning, has_to_be_computed, IsOut
    <3> QED BY <1>4, <2>2, <3>1, <3>2 DEF Written, Computed
  <2> QED BY <2>1, <2>2
<1>7. Containers'
  <2> SUFFICES ASSUME NEW t \in Types
               PROVE  \/ container'[t] = "initial" /\ ~Written(t)
                      \/ /\ container'[t] = "moved-from"
                         /\ t \in TypesPassed(args) /\ Moved(Selected(t, args))
                      \/ container'[t] = "computed" /\ Written(t)
    BY <1>1 DEF Containers, Written
  <2>1. container'[t] = IF Written(t) THEN "computed" ELSE container[t]
    BY <1>6 DEF Execute
  <2>2. \/ container[t] = "initial"
        \/ /\ container[t] = "moved-from"
           /\ t \in TypesPassed(args) /\ Moved(Selected(t, args))
    BY <1>1 DEF IInv, Containers
  <2> QED BY <2>1, <2>2
<1>8. ASSUME NEW t \in ToSet(make_mpi_result(wrapper, args).types)
      PROVE  buffer'[t] = Final(t)
  <2>1. t \in Types
    <3>1. make_mpi_result(wrapper, args).types \in Seq(Types)
      BY <1>2, ResultFacts
    <3> QED BY <3>1 DEF ToSet
  <2>2. CASE t = "send_buf"
    <3>1. SendBufferMoved
      BY <1>2, <2>2, ResultFacts DEF SendBufferMoved
    <3>2. buffer["send_buf"] = "initial"
      BY <1>1, <3>1 DEF IInv, SendBuffer
    <3>3. t \notin Computed
      BY <2>2 DEF Computed
    <3> QED BY <2>1, <2>2, <3>2, <3>3 DEF Execute, Final
  <2>3. CASE t # "send_buf"
    <3>1. /\ t \in TypesPassed(args) \union wrapper.returned
          /\ has_to_be_computed(Selected(t, args))
          /\ IsOwning(Selected(t, args))
      BY <1>2, <2>3, ResultFacts
    <3>2. t \in Computed
      BY <1>4, <1>5, <2>3, <3>1 DEF Computed
    <3> QED BY <1>4, <2>1, <2>3, <3>1, <3>2 DEF Execute, Final
  <2> QED BY <2>2, <2>3
<1>9. SendBuffer' /\ Outcome'
  BY <1>1, <1>8 DEF SendBuffer, Outcome, Final
<1>10. ReadsAreFresh'
  BY <1>1 DEF IInv, ReadsAreFresh, Final
<1> QED BY <1>3, <1>7, <1>9, <1>10 DEF IInv

LEMMA IInvReturn ==
  ASSUME IInv, Return
  PROVE  IInv'
<1>1. /\ pc = "executed" /\ pc' = "returned"
      /\ wrapper' = wrapper /\ args' = args /\ container' = container /\ extracted' = extracted
      /\ result' = make_mpi_result(wrapper, args)
  BY DEF Return
<1>2. IsCall(wrapper, args) /\ seen = <<>>
  BY <1>1 DEF IInv, Shape
<1> DEFINE types == make_mpi_result(wrapper, args).types
<1>3. slot' = [i \in DOMAIN types |-> buffer[types[i]]]
  BY <1>1 DEF Return
<1>4. \A i \in DOMAIN types : slot'[i] = Final(types[i])
  <2> SUFFICES ASSUME NEW i \in DOMAIN types
               PROVE  slot'[i] = Final(types[i])
    OBVIOUS
  <2>1. types[i] \in ToSet(types)
    BY DEF ToSet
  <2> QED BY <1>1, <1>3, <2>1 DEF IInv, Outcome
<1>5. Shape'
  BY <1>1 DEF IInv, Shape, Return, Empty
<1>6. Containers'
  BY <1>1 DEF IInv, Containers, Written
<1>7. SendBuffer'
  BY <1>1 DEF SendBuffer
<1>8. Outcome'
  BY <1>1, <1>3, <1>4 DEF Outcome, Final
<1>9. ReadsAreFresh'
  <2>1. CASE result'.kind = "value"
    <3>1. Len(types) = 1 /\ types \in Seq(Types)
      BY <1>1, <1>2, <2>1, ResultTypes, ResultFacts
    <3>2. 1 \in DOMAIN types
      BY <3>1
    <3>3. seen' = <<types[1], slot'[1]>>
      BY <1>1, <2>1 DEF Return
    <3>4. slot'[1] = Final(types[1])
      BY <1>4, <3>2
    <3>5. (seen')[1] = types[1] /\ (seen')[2] = slot'[1]
      BY <3>3
    <3> QED BY <3>4, <3>5 DEF ReadsAreFresh, Final
  <2>2. CASE result'.kind # "value"
    BY <1>2, <2>2 DEF Return, ReadsAreFresh
  <2> QED BY <2>1, <2>2
<1> QED BY <1>5, <1>6, <1>7, <1>8, <1>9 DEF IInv

(* get_recv_buffer() and its siblings find a buffer of the result.          *)
LEMMA FindsPosition ==
  ASSUME IInv, pc = "returned", NEW t \in ToSet(result.types)
  PROVE  PositionOf(t) \in DOMAIN result.types
<1> DEFINE I == {i \in 1 .. Len(result.types) : result.types[i] = t}
<1>1. result.types \in Seq(Types)
  BY ResultFacts DEF IInv, Shape, Outcome
<1>2. DOMAIN result.types = 1 .. Len(result.types) /\ Len(result.types) \in Nat
  BY <1>1
<1>3. I # {} /\ I \in SUBSET (1 .. Len(result.types))
  BY <1>2 DEF ToSet
<1>4. \A i, j \in I : i = j
  <2> SUFFICES ASSUME NEW i \in I, NEW j \in I
               PROVE  i = j
    OBVIOUS
  <2>1. \A k, m \in DOMAIN result.types : k < m => result.types[k] # result.types[m]
    BY ResultFacts DEF IInv, Shape, Outcome
  <2>2. ~(i < j) /\ ~(j < i)
    BY <1>2, <2>1
  <2> QED BY <1>2, <2>2
<1>5. PICK k \in I : I = {k}
  BY <1>3, <1>4
<1>6. Min({k}) = k
  BY <1>2, <1>5 DEF Min
<1>7. PositionOf(t) = k
  BY <1>5, <1>6 DEF PositionOf, SelectInSeq
<1> QED BY <1>2, <1>5, <1>7

LEMMA IInvGet ==
  ASSUME IInv, NEW i \in DOMAIN result.types, Get(i)
  PROVE  IInv'
<1>1. /\ pc = "returned" /\ pc' = pc /\ wrapper' = wrapper /\ args' = args
      /\ container' = container /\ built' = built /\ buffer' = buffer
      /\ result' = result /\ slot' = slot /\ extracted' = extracted
      /\ seen' = <<result.types[i], slot[i]>> /\ i \notin extracted
  BY DEF Get, NotExtracted
<1>2. slot[i] = Final(result.types[i])
  BY <1>1 DEF IInv, Outcome
<1>3. Shape'
  BY <1>1 DEF IInv, Shape
<1>4. Containers' /\ SendBuffer'
  BY <1>1 DEF IInv, Containers, Written, SendBuffer, SendBufferMoved
<1>5. Outcome'
  BY <1>1 DEF IInv, Outcome, Final
<1>6. ReadsAreFresh'
  BY <1>1, <1>2 DEF ReadsAreFresh, Final
<1> QED BY <1>3, <1>4, <1>5, <1>6 DEF IInv

LEMMA IInvExtract ==
  ASSUME IInv, NEW i \in DOMAIN result.types, Extract(i)
  PROVE  IInv'
<1>1. /\ pc = "returned" /\ pc' = pc /\ wrapper' = wrapper /\ args' = args
      /\ container' = container /\ built' = built /\ buffer' = buffer /\ result' = result
      /\ slot' = [slot EXCEPT ![i] = "moved-from"] /\ extracted' = extracted \union {i}
      /\ seen' = <<result.types[i], slot[i]>> /\ i \notin extracted
  BY DEF Extract, NotExtracted, SetExtracted
<1>2. slot[i] = Final(result.types[i])
  BY <1>1 DEF IInv, Outcome
<1>3. Shape'
  BY <1>1 DEF IInv, Shape
<1>4. Containers' /\ SendBuffer'
  BY <1>1 DEF IInv, Containers, Written, SendBuffer, SendBufferMoved
<1>5. Outcome'
  <2>1. /\ result = make_mpi_result(wrapper, args) /\ DOMAIN slot = DOMAIN result.types
        /\ \A j \in DOMAIN result.types \ extracted : slot[j] = Final(result.types[j])
    BY <1>1 DEF IInv, Outcome
  <2>2. \A j \in DOMAIN result.types \ extracted' : slot'[j] = Final(result.types[j])
    BY <1>1, <2>1
  <2>3. DOMAIN slot' = DOMAIN slot
    BY <1>1
  <2> QED BY <1>1, <2>1, <2>2, <2>3 DEF Outcome, Final
<1>6. ReadsAreFresh'
  BY <1>1, <1>2 DEF ReadsAreFresh, Final
<1> QED BY <1>3, <1>4, <1>5, <1>6 DEF IInv

LEMMA IInvNext == IInv /\ [Next]_vars => IInv'
<1> SUFFICES ASSUME IInv, [Next]_vars
             PROVE  IInv'
  OBVIOUS
<1>1. CASE \E w \in Wrappers : Name(w)
  BY <1>1, IInvName
<1>2. CASE ConstructBuffers
  BY <1>2, IInvConstructBuffers
<1>3. CASE Execute
  BY <1>3, IInvExecute
<1>4. CASE Return
  BY <1>4, IInvReturn
<1>5. CASE \E t \in ToSet(result.types) : Get(PositionOf(t)) \/ Extract(PositionOf(t))
  <2>1. PICK t \in ToSet(result.types) : Get(PositionOf(t)) \/ Extract(PositionOf(t))
    BY <1>5
  <2>2. pc = "returned"
    BY <2>1 DEF Get, Extract
  <2>3. PositionOf(t) \in DOMAIN result.types
    BY <2>2, FindsPosition
  <2> QED BY <2>1, <2>3, IInvGet, IInvExtract
<1>6. CASE \E i \in DOMAIN slot : Get(i)
  <2>1. PICK i \in DOMAIN slot : Get(i)
    BY <1>6
  <2>2. pc = "returned"
    BY <2>1 DEF Get
  <2>3. i \in DOMAIN result.types
    BY <2>2 DEF IInv, Outcome
  <2> QED BY <2>1, <2>3, IInvGet
<1>7. CASE UNCHANGED vars
  <2>1. /\ pc' = pc /\ wrapper' = wrapper /\ args' = args /\ container' = container
        /\ built' = built /\ buffer' = buffer /\ result' = result /\ slot' = slot
        /\ extracted' = extracted /\ seen' = seen
    BY <1>7 DEF vars
  <2>2. Shape' /\ ReadsAreFresh'
    BY <2>1 DEF IInv, Shape, ReadsAreFresh, Final
  <2>3. Containers' /\ SendBuffer'
    BY <2>1 DEF IInv, Containers, Written, SendBuffer, SendBufferMoved
  <2>4. Outcome'
    BY <2>1 DEF IInv, Outcome, Final
  <2> QED BY <2>2, <2>3, <2>4 DEF IInv
<1> QED BY <1>1, <1>2, <1>3, <1>4, <1>5, <1>6, <1>7 DEF Next, Finished

LEMMA IInvHolds == Spec => []IInv
<1> QED BY IInvInit, IInvNext, PTL DEF Spec

--------------------------------------------------------------------------------
(* What the caller can rely on                                              *)

(* Whatever is read from a result, through get, get_<buffer>, a structured  *)
(* binding or extract_<buffer>, in any order, is the value of the call: the *)
(* assertions of DataBuffer keep the caller from one that was moved away.   *)
THEOREM FreshReads == Spec => []ReadsAreFresh
<1>1. IInv => ReadsAreFresh
  BY DEF IInv
<1> QED BY <1>1, IInvHolds, PTL

(* A variable of the caller loses its value only where a parameter factory  *)
(* took it as an rvalue, is written only where it was passed as an lvalue   *)
(* to be written, and has been written when the call returns.               *)
THEOREM CallerData == Spec => []CallerKeepsItsData
<1>1. IInv => CallerKeepsItsData
  BY DEF IInv, Containers, Written, CallerKeepsItsData, Passed, TypesPassed, Arg, Selected, Moved, IsOwning
<1> QED BY <1>1, IInvHolds, PTL

(* make_mpi_result returns exactly the owning out parameters of the call and *)
(* the receive buffer nobody named, each once and whole, in the order of the *)
(* caller, the unnamed receive buffer first.                                 *)
THEOREM ResultDelivered == Spec => []Delivered
<1>1. IInv => Delivered
  <2> SUFFICES ASSUME IInv, pc = "returned"
               PROVE  Delivered
    BY DEF Delivered
  <2> DEFINE types == result.types
  <2>1. /\ IsCall(wrapper, args) /\ types = make_mpi_result(wrapper, args).types
        /\ \A i \in DOMAIN types \ extracted : slot[i] = Final(types[i])
    BY DEF IInv, Shape, Outcome
  <2>2. /\ ToSet(types) = Asked(args) \union Unnamed(wrapper, args)
        /\ \A i, j \in DOMAIN types : i < j =>
             /\ types[i] # types[j]
             /\ types[j] \notin Unnamed(wrapper, args)
             /\ types[i] \in Unnamed(wrapper, args) \/ find_pos(types[i], args) < find_pos(types[j], args)
    BY <2>1, ResultFacts
  <2>3. /\ Asked(args) = {t \in Passed \ Ignored : IsOut(Arg(t)) /\ IsOwning(Arg(t))}
        /\ Unnamed(wrapper, args) = (wrapper.returned \intersect RecvTypes) \ Passed
    BY DEF Asked, Unnamed, Passed, TypesPassed, Arg, Selected
  <2> HIDE DEF types
  <2> QED BY <2>1, <2>2, <2>3 DEF Delivered, types
<1> QED BY <1>1, IInvHolds, PTL
================================================================================

--------------------------------- MODULE Timer ---------------------------------
(***************************************************************************)
(* The distributed timer (measurements/timer.hpp and measurement_utils.hpp): *)
(* each rank keeps a tree of nested measurements with one active node;     *)
(* aggregate() walks each rank's own tree and makes collectives at every   *)
(* node, so it works only as far as the walks of the ranks agree.          *)
(* A duration is the sequence of the measured intervals it sums up, and a  *)
(* point in time the number of the call that took it.                      *)
(***************************************************************************)
EXTENDS MPICollectives

CONSTANTS
  Root,         (* root() of the communicator.                             *)
  Keys,         (* Names of measurements, sequences of characters.         *)
  Aggregations, (* The global_aggregation_modes a stop may be given.       *)
  MaxCalls,     (* Calls of a rank before it aggregates, by diverge.       *)
  MaxBarriers,  (* Synchronized starts; none if the ranks may diverge.     *)
  Levels        (* "light", "light_communication", "heavy_communication": *)
                (* the assertions enabled, each with those before it.      *)

ASSUME RootAssumption == Root \in Rank

VARIABLES
  level,        (* The assertion level the program is built with.          *)
  diverge,      (* The ranks may make different calls.                     *)
  program,      (* program[r]: the calls rank r has made.                  *)
  order,        (* order[r]: its nodes as they were inserted,              *)
  node,         (* node[r][path]: what it stores at each,                  *)
  current,      (* current[r]: the current node,                           *)
  visited,      (* visited[r]: the node its aggregation is at,             *)
  evaluation    (* evaluation[r]: its tree of aggregated durations.        *)

tree == <<order, node, current>>
vars == <<at, calls, level, diverge, program, order, node, current, visited, evaluation>>

(* A node is named by the keys from the root to it. *)
RootNode == << >>

NewNode == [start |-> 0, active |-> FALSE, durations |-> << >>, operations |-> <<"max">>]

Names(path) == IF path = RootNode THEN <<"r", "o", "o", "t">> ELSE Last(path)

LightCommunication == level \in {"light_communication", "heavy_communication"}
HeavyCommunication == level = "heavy_communication"

Init ==
  /\ level \in Levels
  /\ diverge \in BOOLEAN
  /\ at = [r \in Rank |-> "program"]
  /\ calls = [r \in Rank |-> << >>]
  /\ program = [r \in Rank |-> << >>]
  /\ order = [r \in Rank |-> <<RootNode>>]
  /\ node = [r \in Rank |-> RootNode :> NewNode]
  /\ current = [r \in Rank |-> RootNode]
  /\ visited = [r \in Rank |-> RootNode]
  /\ evaluation = [r \in Rank |-> << >>]

--------------------------------------------------------------------------------
Now(r) == Len(program[r]) + 1

(* The rank makes a call; unless the ranks may diverge, the one the others have made. *)
Calls(r, call) ==
  /\ Runs(r, "program")
  /\ Now(r) <= MaxCalls[diverge] \/ call.do = "aggregate"
  /\ diverge \/ \A s \in Rank : Now(r) \in DOMAIN program[s] => program[s][Now(r)] = call
  /\ program' = [program EXCEPT ![r] = Append(@, call)]

(* A plausible mistake, used nowhere. *)
FindOrInsert_AlwaysInserts(r, path) == path :> NewNode @@ node[r]

(* The nodes of the tree once a key has been looked up below the current node. *)
FindOrInsert(r, path) == node[r] @@ path :> NewNode

(* A node is activated before the barrier and gets its start point after it. *)
Start(r) ==
  \/ \E key \in Keys, synchronize \in IF diverge \/ Len(calls[r]) >= MaxBarriers THEN {FALSE} ELSE BOOLEAN :
       LET path == Append(current[r], key)
           begin == IF synchronize THEN FindOrInsert(r, path)[path].start ELSE Now(r)
       IN  /\ Calls(r, [do |-> "start", key |-> key, synchronize |-> synchronize])
           /\ order' = IF path \in DOMAIN node[r] THEN order ELSE [order EXCEPT ![r] = Append(@, path)]
           /\ node' = [node EXCEPT ![r] =
                [FindOrInsert(r, path) EXCEPT ![path] = [@ EXCEPT !.active = TRUE, !.start = begin]]]
           /\ IF synchronize
              THEN Enter(r, Collective("MPI_Barrier", Root, ToAll(<<key>>), None), "start") /\ UNCHANGED current
              ELSE current' = [current EXCEPT ![r] = path] /\ UNCHANGED <<at, calls>>
  \/ /\ Runs(r, "start")
     /\ LET path == Append(current[r], Last(program[r]).key)
        IN  /\ node' = [node EXCEPT ![r][path].start = Len(program[r])]
            /\ current' = [current EXCEPT ![r] = path]
     /\ Go(r, "program")
     /\ UNCHANGED <<calls, program, order>>

(* A plausible mistake, used nowhere. *)
Aggregated_NewestOnly(durations, interval, mode) ==
  IF mode = "append" THEN Append(durations, <<interval>>) ELSE <<<<interval>>>>

(* aggregate_measurements_locally *)
Aggregated(durations, interval, mode) ==
  IF mode = "append" \/ durations = << >>
  THEN Append(durations, <<interval>>)
  ELSE [durations EXCEPT ![Len(durations)] = Append(@, interval)]

(* stop, stop_and_add and stop_and_append.  At a root that has been reset, an inactive node  *)
(* without a parent, the assertion is what stops the program.  Only the modes of the root    *)
(* differ from the default: nobody looks at those of the others.                             *)
Stop(r) ==
  \E mode \in {"accumulate", "append"}, operations \in IF r = Root THEN Aggregations ELSE {<< >>} :
    LET path == current[r]
        stopped == node[r][path]
    IN  /\ Calls(r, [do |-> "stop", mode |-> mode])
        /\ IF ~stopped.active
           THEN Abort(r) /\ UNCHANGED tree
           ELSE /\ node' = [node EXCEPT ![r][path] =
                     [@ EXCEPT !.active = FALSE,
                               !.durations = Aggregated(@, <<stopped.start, Now(r)>>, mode),
                               !.operations = IF operations = << >> THEN @ ELSE operations]]
                /\ current' = [current EXCEPT ![r] = Front(path)]
                /\ UNCHANGED <<at, calls, order>>

Clear(r) ==
  /\ Calls(r, [do |-> "clear"])
  /\ order' = [order EXCEPT ![r] = <<RootNode>>]
  /\ node' = [node EXCEPT ![r] = RootNode :> NewNode]
  /\ current' = [current EXCEPT ![r] = RootNode]
  /\ UNCHANGED <<at, calls>>

--------------------------------------------------------------------------------
(* aggregate() walks the tree depth first, the children in the order of their insertion. *)
Children(r, path) == SelectSeq(order[r], LAMBDA child : child # RootNode /\ Front(child) = path)

(* The child of the same node that was inserted next. *)
YoungerSiblings(r, path) ==
  LET siblings == Children(r, Front(path))
  IN  {siblings[i] : i \in {j \in DOMAIN siblings : j > 1 /\ siblings[j - 1] = path}}

(* The nodes whose visit ends with that of a node and who have a younger sibling. *)
Turns(r, path) ==
  {SubSeq(path, 1, d) : d \in {e \in DOMAIN path : YoungerSiblings(r, SubSeq(path, 1, e)) # {}}}

(* A plausible mistake, used nowhere. *)
After_SiblingsFirst(r, path) ==
  IF path # RootNode /\ YoungerSiblings(r, path) # {}
  THEN YoungerSiblings(r, path)
  ELSE IF Children(r, path) # << >> THEN {Head(Children(r, path))} ELSE {}

(* The node visited after one: its first child, or the sibling where the walk turns; none at the end. *)
After(r, path) ==
  IF Children(r, path) # << >>
  THEN {Head(Children(r, path))}
  ELSE UNION {YoungerSiblings(r, turn) : turn \in
                {t \in Turns(r, path) : \A u \in Turns(r, path) : Len(u) <= Len(t)}}

Durations(r) == node[r][visited[r]].durations

(* What the root has received with a gatherv, and an entry of it; behind its end lies other memory. *)
Gathered(r) == FlattenSeq([i \in 1 .. P |-> Delivered(r)[i - 1]])

Gatherv(r, block, next) ==
  Enter(r, Collective("MPI_Gatherv", Root, ToAll(block), None), next)

(* Plausible mistakes, used nowhere. *)
CurDurations_Swapped(r, idx) == [s \in Rank |-> Slice(Gathered(r), idx * P + s, 1)[1]]

(* The durations of all ranks for one measurement, by the root's count. *)
CurDurations(r, idx) == [s \in Rank |-> Slice(Gathered(r), idx + s * Len(Durations(r)), 1)[1]]

(* The evaluation of a node by each of its operations, over the durations of all ranks. *)
Evaluated(r) ==
  [mode \in IF Durations(r) = << >> THEN {} ELSE Range(node[r][visited[r]].operations) |->
     [i \in DOMAIN Durations(r) |-> CurDurations(r, i - 1)]]

(* The root compares the names; the others are told. *)
NamesEqual(r) == r = Root => \A s \in Rank : Delivered(r)[s] = Names(visited[r])

(* A plausible mistake, used nowhere. *)
Told_OwnResult(r) == r = Root => Delivered(r)[Root]

Told(r) == Delivered(r)[Root]

Aggregate(r) ==
  /\ Calls(r, [do |-> "aggregate"])
  /\ Go(r, "visit")
  /\ UNCHANGED <<calls, visited, evaluation>>

(* The assertion that the node has the same name on all ranks: is_string_same_on_all_ranks. *)
CompareNames(r) ==
  /\ \/ /\ Runs(r, "visit")
        /\ IF HeavyCommunication
           THEN Enter(r, Same(Len(Names(visited[r]))), "name")
           ELSE Go(r, "size") /\ UNCHANGED calls
     \/ Runs(r, "name") /\ Gatherv(r, Names(visited[r]), "compare")
     \/ /\ Runs(r, "compare")
        /\ Enter(r, Collective("MPI_Bcast", Root, ToAll(NamesEqual(r)), None), "told")
     \/ /\ Runs(r, "told")
        /\ IF Told(r) THEN Go(r, "size") /\ UNCHANGED calls ELSE Reject(r)
  /\ UNCHANGED <<visited, evaluation>>

GatherDurations(r) ==
  /\ \/ /\ Runs(r, "size")
        /\ IF LightCommunication
           THEN Enter(r, Same(Len(Durations(r))), "gather")
           ELSE Go(r, "gather") /\ UNCHANGED calls
     \/ Runs(r, "gather") /\ Gatherv(r, Durations(r), "combine")
  /\ UNCHANGED <<visited, evaluation>>

(* The ranks turn out to disagree on the length of the name or the number of durations. *)
Diverged(r) ==
  /\ at[r] \in {"name", "gather"} /\ CanLeave(r) /\ ~Agreed(r)
  /\ Reject(r)
  /\ UNCHANGED <<visited, evaluation>>

(* The root evaluates the durations of the node; then the recursion goes on with the next one. *)
Combine(r) ==
  /\ Runs(r, "combine")
  /\ evaluation' = IF r = Root THEN [evaluation EXCEPT ![r] = @ @@ visited[r] :> Evaluated(r)] ELSE evaluation
  /\ IF After(r, visited[r]) = {}
     THEN Go(r, "returned") /\ UNCHANGED visited
     ELSE Go(r, "visit") /\ \E path \in After(r, visited[r]) : visited' = [visited EXCEPT ![r] = path]
  /\ UNCHANGED calls

(* Everybody is done, or an assertion has ended the program. *)
Finished == (\A r \in Rank : at[r] \in Ended) \/ (\E r \in Rank : at[r] = "aborted")

Terminated == Finished /\ UNCHANGED vars

Step(r) ==
  /\ \/ (Start(r) \/ Stop(r) \/ Clear(r)) /\ UNCHANGED <<visited, evaluation>>
     \/ Aggregate(r) /\ UNCHANGED tree
     \/ (CompareNames(r) \/ GatherDurations(r) \/ Diverged(r) \/ Combine(r)) /\ UNCHANGED <<tree, program>>
  /\ UNCHANGED <<level, diverge>>

Next == (\E r \in Rank : Step(r)) \/ Terminated

Spec == Init /\ [][Next]_vars

--------------------------------------------------------------------------------
(* The intervals the calls of a rank have measured, read off the calls as one reads brackets. *)

(* The calls since the last clear, as positions. *)
Recent(r) ==
  {i \in DOMAIN program[r] : \A j \in DOMAIN program[r] : program[r][j].do = "clear" => j < i}

Starts(r) == {i \in Recent(r) : program[r][i].do = "start"}
Stops(r)  == {i \in Recent(r) : program[r][i].do = "stop"}

(* Measurements running before a position. *)
Running(r, i) ==
  Cardinality({j \in Starts(r) : j < i}) - Cardinality({j \in Stops(r) : j < i})

(* A start is open before a position until the first stop that brings the depth back to its own. *)
Open(r, i) ==
  {s \in Starts(r) : s < i /\ \A e \in Stops(r) : s < e /\ e < i => Running(r, e + 1) > Running(r, s)}

KeysOf(r, starts) == [k \in 1 .. Cardinality(starts) |->
  program[r][CHOOSE s \in starts : Cardinality({t \in starts : t <= s}) = k].key]

(* The stops at a node, and the intervals they end, where a stop that accumulates joins the one before. *)
StopsAt(r, path) == SetToSortSeq({e \in Stops(r) : KeysOf(r, Open(r, e)) = path}, <)

IntervalOf(r, e) == <<CHOOSE s \in Open(r, e) : \A t \in Open(r, e) : t <= s, e>>

Measured(r, path) ==
  FoldLeft(LAMBDA durations, e :
             IF program[r][e].mode = "append" \/ durations = << >>
             THEN Append(durations, <<IntervalOf(r, e)>>)
             ELSE Append(Front(durations), Append(Last(durations), IntervalOf(r, e))),
           << >>, StopsAt(r, path))

(* Between two calls, the tree of a rank holds exactly the measurements its calls bracket: each  *)
(* node the intervals started and stopped under its keys, the active nodes those of the open     *)
(* starts, the innermost of them the current one (the comment of the class on nested keys,       *)
(* stop_and_add and stop_and_append).                                                            *)
MeasuresNested ==
  \A r \in Rank : at[r] = "program" =>
    /\ current[r] = KeysOf(r, Open(r, Len(program[r]) + 1))
    /\ {path \in DOMAIN node[r] : node[r][path].active} =
         {SubSeq(current[r], 1, d) : d \in DOMAIN current[r]}
    /\ DOMAIN node[r] = {RootNode} \cup {KeysOf(r, Open(r, s + 1)) : s \in Starts(r)}
    /\ \A path \in DOMAIN node[r] : node[r][path].durations = Measured(r, path)

(* Timers that the documentation allows: the same nodes, inserted in the same order, with as many durations. *)
SameTimers ==
  \A r, s \in Rank : order[r] = order[s] /\
    \A path \in DOMAIN node[r] : Len(node[r][path].durations) = Len(node[s][path].durations)

(* Ranks that make the same calls, each at its own pace, are never told that their timers have      *)
(* diverged; and on such timers the root has combined, for every node, the i-th durations of all     *)
(* ranks under each of its own operations, whatever operations the others gave.                      *)
AggregatesSameTimers ==
  /\ ~diverge => \A r \in Rank : at[r] # "rejected"
  /\ SameTimers /\ at[Root] = "returned" =>
       /\ DOMAIN evaluation[Root] = DOMAIN node[Root]
       /\ \A path \in DOMAIN node[Root] :
            LET measured == node[Root][path]
            IN  evaluation[Root][path] =
                  [mode \in IF measured.durations = << >> THEN {} ELSE Range(measured.operations) |->
                     [i \in DOMAIN measured.durations |-> [s \in Rank |-> node[s][path].durations[i]]]]

(* A rank left waiting by one that has ended, in spite of the assertions on every node: the other *)
(* has returned from a walk over fewer nodes, the one divergence that no comparison of a node     *)
(* finds.  In particular a rank is never told alone that the timers have diverged.                *)
OnlyLongerWalksWait ==
  HeavyCommunication =>
    \A r \in Rank : \A s \in SendersOf(r) :
      at[s] \in {"returned", "rejected"} /\ Len(calls[s]) < Len(calls[r]) =>
        at[s] = "returned" /\ Cardinality(DOMAIN node[s]) < Cardinality(DOMAIN node[r])
================================================================================

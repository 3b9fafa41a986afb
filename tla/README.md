# TLA+ models of the MPI wrapper library

The library in `src/include/__mping/` is a header-only C++17 layer over MPI:
named parameters in, result objects out, with plugins that add algorithms of
their own to a communicator. This directory holds TLA+ modules that model what
its code does at run time, TLC configurations that check them on small
instances, and proofs checked by TLAPS. Paths below are relative to
`src/include/__mping/` unless they begin with `src/`.

`PROJECT.json` is the index: components, runs, the source lines every
definition stands for (`map`), one mutant per checked property, the places where
the code is hard to test (`hazards`) and the theorems. Disagreements between the
code and what it or its documentation says are in section 4.

## 1. Inventory

| Component | State | Operations | Interacts with | What makes it correct |
|---|---|---|---|---|
| Sparse all-to-all, `plugin/alltoall_sparse.hpp` | request pool, barrier request, status | `alltoallv_sparse`, callback's `recv` | issend, iprobe, ibarrier, barrier, RequestPool | every message is handed over once, in the call it belongs to; every call returns |
| Reproducible reduce, `plugin/reproducible_reduce.hpp` | partial sums, outbox with target and isend, inbox, receive buffer | `make_reproducible_comm`, `reproducible_reduce` | isend, recv, bcast | the value is that of one fixed tree for every distribution; no deadlock |
| Grid all-to-all, `plugin/alltoall_grid.hpp` | row and column communicator, shape | `make_grid_communicator`, `alltoallv`, `alltoallv_with_envelope` | split, alltoallv | equal to an alltoallv, for every number of ranks |
| Dispatch, `plugin/alltoall_dispatch.hpp` | optional grid communicator | `initialize`, `alltoallv_dispatch` | allreduce, grid, alltoallv | all ranks take the same way |
| Requests, `request.hpp`, `request_pool.hpp`, `result.hpp` (NonBlockingResult), `p2p/isend.hpp`, `p2p/irecv.hpp` | MPI_Request, slots of a pool, owned buffer | wait, test, extract, wait_all, test_all, wait_any, test_any | MPI's progress, the caller's moves | memory outlives the operation, the value taken is the message |
| Collectives, `collectives/{gather,scatter,allgather,alltoall,bcast}.hpp` | counts, displacements, buffers of one call | 13 wrappers | each other, `is_same_on_all_ranks` | promised blocks at promised places; ranks meet in the same collectives |
| Reductions and scans, `collectives/{reduce,allreduce,scan,exscan}.hpp` | buffers of one call | 11 wrappers | operations, `is_same_on_all_ranks` | each cell combines the elements of the right ranks with the operation given; exscan's value on rank 0 |
| Point to point, `p2p/*.hpp`, `status.hpp` | probed status, buffer | send modes, recv, irecv, try_recv, probe, iprobe | requests | the buffer has the size of the message received; nobody waits for ever |
| Operations, `mpi_ops.hpp`, `operation_builder.hpp` | MPI_Op, a static functor | construct, move, free | reductions | a lambda reduces with what it captured |
| Communicator, Group, `communicator.hpp`, `group.hpp` | owned handles, default tag and root | copy, move, swap, disown, split, set operations | all others | everything owned is freed once, by its owner |
| Environment, `environment.hpp` | registered types, `_finalize`, attached buffer | init, finalize, commit, register, free, buffer attach and detach | data types | MPI initialized and finalized once, types freed before |
| Named parameters, `named_parameter*.hpp`, `parameter_objects.hpp` | one object per argument | factories, check, selection, filtering | every wrapper | the right argument, its default, and its place in the result |
| Results and data buffers, `result.hpp`, `data_buffer.hpp` | storage or reference, extracted flag | construct, resize, get, extract | every wrapper | values end up once, where they were asked for |
| Timer, `measurements/` | tree of measurements, active node | start, stop, clear, aggregate | gatherv, bcast, allreduce | the tree holds what was bracketed and is walked alike by all ranks |
| Sort, `plugin/sort.hpp`, `utils/flatten.hpp` | – | `sort` | allgatherv, alltoallv | sorted permutation; indices in range |
| ULFM, `plugin/ulfm.hpp`, `src/examples/applications/ulfm.cpp` | failed processes, revoked communicators | revoke, is_revoked, shrink, agree, ack | error hook | nobody is left behind; survivors go on together |
| Data types, serialization, traits | none at run time | type mapping | all others | compile time |

What is hard here: ranks run ahead of each other in chains of collectives;
messages of consecutive calls share one tag; requests outlive buffers or the
other way round; a probe and its receive are two steps; processes fail between
any two steps; handles and buffers change their owner on a move; assertions
that communicate, or that fail at one rank only; shapes and sizes at boundaries
(one element, an incomplete row, empty vectors and ranks).
The full list with lines is under `hazards` in `PROJECT.json`; an entry without
a property has a note.

## 2. Modules and the code

**SparseAlltoall** (core) is `alltoallv_sparse`. `Call`, `Issend` and
`SkipEmpty` are the loop over the send buffer, `IprobeHit`, `IprobeMiss`,
`CallbackReceives` and `CallbackDefers` the probe and the user's callback (which
may leave a message where it is), `StartIbarrier`, `TestFails` and `LeaveLoop`
the three outcomes of the tests on pool and barrier request, `Return` the final
barrier. `net` holds messages under way, `pool[r]` the open requests; because
messages are sent with issend, a request completes only when its message is
received. Barriers are counters of entries per rank; a message is identified by
its sender, call and position, and its payload left out.
**SparseExchange** is the interface: post, hand over, return, with no probing
and no barrier. `Implements` is the refinement; a message counts as posted from
the beginning of the call, so the send loop is invisible.

**ReproducibleReduce** over **ReductionTree** (the pure functions
`tree_parent`, `tree_subtree_size`, `tree_height`, ...). A value is the
expression tree that computed it, so equality of results is equality of the order of
operations. `LocalLevel`, `GetFromInbox`, `GetMiss`, `GetWait`, `Receive` and
`EndLevels` are `_perform_reduce` and `MessageBuffer::get`, `PutFlush` and
`PutStore` are `put`, `FinalFlush` to `ReceiveBroadcast` the end of
`reproducible_reduce`. The receive buffer that is reused, and copied as a whole
into the inbox, is state of its own. An isend completes at once or only with
its receive, as MPI may choose for each.

**GridAlltoall** over **GridShape** (columns, rows, colors of the splits; the order
of ranks is that of **Orders**, as is the order of named parameters) moves
the elements with their headers through both exchanges: `Call` fills the row
exchange, `EndRowwise` sorts what came by final destination and enters the
column exchange, `EndColumnwise` restores the order of the sources. A rank
leaves an exchange when all of its communicator have entered it.
**DispatchAlltoall** extends it: the allreduce of the volume, the decision, the
two splits of the lazily made grid communicator, and either the builtin
alltoallv as one collective or the two hops. The nested alltoall of the counts
in each row or column exchange is part of that exchange.

**NonBlocking** is one rank's operations. Data is reduced to which memory MPI
was given (`Given`), whether it is still there (`Live`) and whether it holds the
message; a vector that moves keeps its block, a single value does not. `generation` and
`reference` say whether a PooledRequest still points into the pool's vector.

**MPICollectives** is MPI, external to the code: rank `r`'s log `calls[r]` of the
collectives it entered; the k-th of each rank meet; a rank leaves when those it
receives from have entered. It also holds the arithmetic the wrappers share:
`ExclusiveScan`, `RequiredSize`; **DataBuffers** has what resizing does to the
cells of a buffer and what lies behind its end.
**Collectives** models one call of one wrapper by all ranks. `at[r]` names the
code between two MPI calls; a step runs that code, with every assertion in it,
and enters the next. Nested wrappers (alltoall for the counts of alltoallv, and
so on) are steps like any other. Cells carry sender, receiver and index, so a
block at a wrong place, or memory past the end of a buffer, shows. `Init` chooses
what the ranks are given: the same, or (`Misuses`) different roots, counts and
amounts, or a broadcast whose root has no buffer, which bcast announces by
`NO_BUF_ON_ROOT` in place of a count and bcast_single by a flag.

**Reductions** does the same for reduce, allreduce, scan and exscan. A
reduction records which elements it combined, by whose operator and in which
order; `BuildOperation` and `Called` say which captured values that operator
sees. The calls are made in a loop, since a lambda is copied once per place in
the program.
**PointToPoint** runs scripts of calls, one per thread of a rank. Messages are
under way in `wire`, arrive in `inbox` and are taken by receives in `posted`;
`Probed` and the receive that follows are two steps, `try_recv` claims the
message it probes. A send is complete when buffered, or with its receive.

**NamedParameters** has no variables. A call is a sequence of parameters, a
parameter a type with what `make_data_buffer` makes of the argument: in, out or
both, owning or referencing. `CheckParameters` and `Compiles` are the compile
time checks, `select_parameter_type_or_default`, `FilterOut` and
`make_mpi_result` decide what a wrapper uses and returns.
**Results** makes such a call: `Name` the arguments, `ConstructBuffers`,
`Execute` the wrapper, `Return` the result object, then `Get` and `Extract` in
any order. A container of the caller holds its old value, the computed one, or
nothing because it was moved from.

**Handles** over **Environment** is one process: the objects, the handles they
hold and own, what MPI has open, and what belongs to the program (`raw`).
**Ownership** is the abstract life of a resource, which the communicators of
Handles implement. Environment has the objects and their modes, MPI's state, and
the data types committed and registered; both share `trouble`, what MPI was
asked for and does not allow.

**Timer** keeps each rank's tree as a function from paths of keys to nodes. The
same calls by all ranks, or different ones, precede `Aggregate`; then the
collectives of the walk over each rank's own tree follow, one node at a time.
A duration is the pair of calls that bracket it.

**Sorting** is `sort`: `Gather` samples, `Exchange` picks the splitters, builds
the buckets, flattens and sends them, `Finish` sorts. What std::sample selects,
and a splitter read behind the samples, are choices.

**Recovery** is the loop of the ULFM example, with MPI external: `Fail` at any
moment, an allreduce that fails for some and succeeds for others, a revocation
that reaches the ranks one by one, shrink as an agreement whose result may
contain a process that failed meanwhile. An assertion that ends a rank is a
failure like any other.

MC modules only give values to constants. Definitions under "Plausible
mistakes" are mutants used by no specification.

## 3. Runs

| Run | Instance | What it shows |
|---|---|---|
| sparse | 2 ranks, 3 calls, fair | Quiescence, CallIsolation, Complete, the inductive invariant, the refinement, and that every call returns |
| reduce | 3 ranks, 2 rounds, fair; all distributions of 2 to 5 elements with messages of 2, uneven ones of 34 elements with the code's limits 4 and 16 | Reproducible, AssertionsHold, Drained, Terminates |
| dispatch | 1 to 7 ranks, 2 calls up to 4 ranks, fair | ranks decide alike; the grid is made once; both exchanges are an alltoallv; all calls return |
| nonblocking | 3 operations | memory, values and pool reports of correct programs |
| collectives | 2 ranks, all wrappers, amounts 0 and 2, each policy with buffers of 1 and 9, communicating assertions on and off, ranks that agree or disagree | promised contents, matching collectives and counts, legal calls return, a disagreement is rejected by all |
| p2p | scripts of 2 or 3 ranks, some with 2 threads on a rank, fair | a receive has one message, whole and alone; scripts that pair up end |
| handles | 3 communicators, 2 groups, 2 operations, one class at a time, 2 environments, 2 types | one owner for each handle, freed once; communicators implement Ownership; MPI allows all that is asked of it |
| timer | 2 ranks, 2 keys; 5 calls of the same program or 3 of different ones | the tree holds what the calls bracket; the root combines the same measurements; what diverged timers can lead to |
| reductions | 3 ranks, 11 wrappers, 2 rounds | each cell combines the right elements by the right operation; legal calls return; disagreement is rejected by all |
| results | 7 wrappers, up to 3 parameters in any order, any reads | values are delivered in the caller's order, never read after a move, and overwrite nothing else |
| recovery | 3 ranks, 2 failures, fair | nobody is stranded; the survivors end up on one working communicator |
| sorting | 3 ranks, 5 elements of 3 keys, any samples | the input in order; samples suffice |

The bounds. Three calls of the sparse exchange are the least in which a rank
has a past and a future call (what more ranks could add is proved, section 5).
Sizes 1 to 7 of the grid contain squares, complete rectangles and incomplete
rows of one and two ranks. With 34 elements on two ranks each of the limits of
the message buffer is exceeded; with 3 ranks and 5 elements every distribution,
with empty ranks and regions in any order, is enumerated, and the reduced limits
bring the same branches into reach there. Buffers of 1 and 9 cells are smaller
and larger than what two ranks need. Three handles of a class let an assignment
overwrite an owner while a third object looks on. Five calls of a timer give
nested, repeated and accumulated measurements with a clear in between. Three
parameters are enough to put an unnamed receive buffer beside two returned
ones in either order. A second failure can hit the recovery from the first.
The factor of the sort is 2 instead of 16: the least with which three ranks have
enough samples, so a rank can have more elements than samples, or fewer.
All bounds are constants (`MaxCalls`, `MaxRounds`, `Sizes`, `Amounts`, ...), and
behaviours stop at them. The configurations say `CHECK_DEADLOCK FALSE` where
that is no deadlock: ranks that have made all their calls (sparse, reduce,
dispatch), a process that has nothing left to destroy (handles), timers that
diverged and wait for each other, which OnlyLongerWalksWait is about. The
others have an explicit step for the end, so that a rank that waits for ever is
reported.

Fairness. `CallReturns` assumes MPI's progress rule (a rank that probes or tests
again and again finds the message or the completion: strong fairness of those
steps) and that the callback receives some time. `Terminates` and `AllReturn`
assume that each rank goes on when it can (weak fairness): ranks run code or wait
in blocking MPI calls, and MPI completes calls that can complete. `Terminates`
does not assume that an isend completes without its receive.
In `dispatch` that is one weak fairness for all: each step takes some rank
further through finitely many calls. In `p2p` each thread, and the delivery
between each pair of ranks, is weakly fair. In `recovery` ranks and MPI go on,
and a revocation reaches each rank in the end (what MPIX_Comm_revoke promises);
failures are not fair and at most two.

Mistakes a program can make are constants too, and the passing runs leave them
out; section 4 says what happens with them.

## 4. Disagreements

Where the code does something else than it, its documentation or its tests say.
Most were seen in a counterexample of the module, with the constants named; what
does not compile was read.

- The comment of gatherv promises for `recv_buf` that "at all other ranks, the buffer
  will have size 0" (`collectives/gather.hpp:199-200`), and `resize_to_fit` is documented as
  resizing to exactly the number of elements received (`docs/resize_policy.dox:6`). The
  code resizes at the root only (363), so elsewhere a buffer keeps its size and its
  elements under every policy; so the tests expect ("buffer will not be touched",
  `mpi_gatherv_test.cpp:335`), and so the comment of gather says (`gather.hpp:54`).
  `INVARIANT OtherRanksEmpty` with `Ops = {"gatherv"}` and the other constants of the run
  is violated. For these ranks ReturnsPromise states what
  the code, the tests and the comment of gather agree on.
- `recv_counts` is offered as an optional parameter of the grid's alltoallv
  (`plugin/alltoall_grid.hpp:250`) and of `alltoallv_dispatch`
  (`plugin/alltoall_dispatch.hpp:101`), but if it is given, line 324 of the grid
  calls a `size()` that GridCommunicator does not have, and the call does not compile.
- Reducing a single element reproducibly returns a default value
  (`plugin/reproducible_reduce.hpp:438`): `Layouts <- OneElement` violates Reproducible.
- A PooledRequest refers to an element of the pool's vector, and dangles when a
  further `get_request` makes it grow (`request_pool.hpp:82`):
  `KeepsReferences = TRUE` violates RequestsReached.
- `isend` of a temporary: its memory dies before MPI has read it
  (`p2p/isend.hpp:143`): `"temporary"` in `Buffers` violates BuffersOutlive.
- `extract` of a pending receive of a single value (`result.hpp:736`) copies the
  value before MPI has written it: `"single"` in `EarlyExtract` violates
  ReceivedAfterCompletion.
- Moving a Group makes the new object an owner whatever the source was, and the
  group it held is not freed (`group.hpp:45-57`, against 72, "freeing the
  encapsulated group if owned"): `MovesBorrowed = TRUE` violates FreesOnlyOwned.
- An operation may be "a function object a lambda or a `std::function`"
  (`mpi_ops.hpp:557`), but a default constructible function object is made afresh
  when MPI calls it (463), and a lambda is copied to a static variable once
  (676): what was captured, or captured later, is lost.
  `Operations = {"functor", "lambda"}` violates ReducesWithGivenOperation.
- `values_on_rank_0` is documented to have the size of `recv_buf`
  (`collectives/exscan.hpp:63-64`), but has to have that of `send_recv_count`
  (178-186), which may be smaller.
- Two threads that receive with plain `recv` and no count: the message probed may
  be taken by the other (`p2p/recv.hpp:155`): `Scripts <- MCRacing` violates WholeMessage.
- `scatter_single` asserts the size of the root's buffer at the root alone
  (`collectives/scatter.hpp:253`), the others wait; `bcast` with a count on all
  ranks and no buffer at the root does the same (`collectives/bcast.hpp:177-182`,
  against the comment at 170-171).
- An empty vector may have no data and is then taken for a missing buffer
  (`collectives/alltoall.hpp:167`, `collectives/scatter.hpp:114`): without the
  conjunct NonEmpty, LegalReturns is violated.
- A `send_counts` longer than the communicator passes one assertion
  (`collectives/alltoall.hpp:374`) and is then handed as a whole to the nested
  `alltoall` (422): `Slack = {0, 1}` with `Ops = {"alltoallv"}` violates LegalReturns.
- With 2, 6, 7 or 8 ranks the grid has fewer rows than columns, which the comment at
  `plugin/alltoall_grid.hpp:162` excludes.
- The splitters of a sort are read behind the samples when at most
  p - 1 - 16 * floor(log2 p) of p ranks have elements (`plugin/sort.hpp:122`):
  from 98 ranks on, if one of them has all elements. `Factor = 1` shows it with three ranks.
- The assertion `!comm.is_revoked()` after a successful allreduce
  (`src/examples/applications/ulfm.cpp:33`) can fail without any mistake: another
  rank has already revoked. The shrunken communicators of that loop are never
  freed, for `shrink` returns one that does not own its handle (`plugin/ulfm.hpp:107`).
- `agree(bool)` calls itself (`plugin/ulfm.hpp:125`).
- `send_buf_out` is documented for every wrapper (`named_parameters.hpp:103-121`)
  and compiles only where the send buffer is returned, which is `isend`; there an
  owning `send_count_out()` or `send_type_out()` does not compile.
- Timers whose walks have the same nodes in the same order but other parents (a, b
  and a, b below a) are aggregated as if they were alike.

## 5. Proofs

Every theorem holds for every value of the constants that the named assumptions
allow: any number of ranks, objects, calls, parameters and sizes. The
assumptions say what the constants are (`MaxCalls` is a natural number, the
wrappers called are those of the module, and so on), TLC evaluates them in each
run, and nothing else is assumed but the hypotheses named below. Each module
`X_proofs` extends `X` and has one inductive invariant, `IInv` (in
Collectives_proofs `WholeInv`, of four parts; in DispatchAlltoall_proofs a second one,
`DataInv`), which TLC has
checked on the instance of the run before it was proved; a lemma per action (or
per conjunct and action) shows that a step keeps it.

| Module | Theorems (of `Spec`, the property in section 3) | Hypothesis |
|---|---|---|
| SparseAlltoall_proofs | `TypeCorrect`, `Inductive`, `SparseQuiescence`, `SparseCallIsolation`, `SparseComplete`, `SparseImplements` | |
| Collectives_proofs | `CollectivesMeet`, `CallsReturnTheirPromise`, `CountsAgree`, `MisuseIsNoticed`, `ControlInvariant`, `WholeInvariant` | |
| | `LegalCallsReturn`, `MisuseIsRejected` | `Slack \subseteq {0}` |
| DispatchAlltoall_proofs | `DispatchCollectivesMatch`, `DispatchGridMadeOnce`, `DispatchIsAlltoallv` | |
| NonBlocking_proofs | `TypeCorrect`, `PoolAllOrNone`, `PoolReportsRetired` | |
| | `MemoryOutlives`, `ValuesReceived` | `Cautious` |
| Handles_proofs | `HandlesOwned`, `EnvironmentAllowed`, `CommunicatorsImplement` | `~MovesBorrowed` |
| Reductions_proofs | `LegalReductionsReturn`, `MisusedReductionsRejected` | |
| | `ReductionsReturnPromise` | `Faithful` |
| Results_proofs | `ResultDelivered`, `FreshReads`, `CallerData` | |
| Recovery_proofs | `NeverStranded` | |

The four hypotheses exclude what section 4 shows the code gets wrong, and no
more: `Slack \subseteq {0}` that no `send_counts` is longer than the communicator; `Cautious` that a program passes no temporary to `isend` and extracts no
single value before its operation is complete; `~MovesBorrowed` that it moves no
Group that does not own what it holds; `Faithful` that it reduces with no
function object that has a state, and with a lambda at most once per place.
The passing runs have them too, and without them TLC finds the
counterexamples of section 4.

The arguments.

*Sparse exchange.* Neither Quiescence nor CallIsolation is inductive: whether a
message can still be under way depends on how far other ranks are. `IInv` adds
`BarrierCounts` (the barriers a rank has entered follow from its call and its
place), `LoopPhases` (the barrier request exists only when the rank's own
requests are all matched), `InFlight` (a message under way has an open request at
its sender, so it is of the sender's present call), `Lockstep` (nobody is ahead
of a barrier that another has still to enter) and `Accounting` (each message is
unsent, under way or received). A rank that leaves the loop knows by `Lockstep`
that all others have entered the ibarrier of the call, by `LoopPhases` that
their pools are empty, and by `InFlight` that nothing is under way:
Quiescence. The rank that is at most one barrier ahead cannot have
sent for its next call to one still in the loop: CallIsolation. `Accounting` then
gives Complete, and the steps of the refinement.

*Dispatch.* CollectivesMatch compares traces that grow at different times. `Follows`
says that the next collective of a rank is a function (`Following`) of the
trace so far, of the calls that take the grid, and of the call before which the
program initializes it; `Reached` that the state of a rank is what its trace
says. The calls that take the grid are the same for all ranks because the
volume they compare with the threshold is a maximum over all. So two traces that
agree so far go on alike. GridMadeOnce follows: `Following` makes the grid
only where the trace does not contain it yet, and `MadeTogether` says that a rank
has a grid only when all have entered its last split.

*The grid.* IsAlltoallv holds for any number of ranks, rows and counts; the assumptions
say that there is a rank, and that numbers of calls and counts are natural
(`SizesAssumption`, `MaxCallsAssumption`, `CountAssumption`). The order in which
elements arrive after the first hop is that of a concatenation of concatenations, which
no later step needs. So `DataInv` keeps less of it: a sequence of envelopes `Carries` a
set of elements when each is in it once, nothing else is, and those with the same source and
destination are in the order sent. A concatenation of sequences that carry sets with
different ends carries their union (`ConcatCarries`), and a selection carries what it
selects, so each hop keeps it. What the sets are is the geometry: the columns are
full except for the incomplete row, which has no more ranks than there are rows to
append them to, also where the grid has fewer rows than columns, and for any source and
destination exactly one rank of the complete rectangle lies in the source's row and
in the destination's column (`MeetingIs`, `MeetingUnique`). After the second hop a rank
has thus all elements for it and no other. For such a sequence the counts, the
displacements and the positions written are those of the promise: the position is
the rank of an element by source and number, a bijection onto the result, whose size
is where the block of the last rank ends (`RequiredRecvBufSize`).
`DataInv` says this of every exchange begun so far, how many exchanges and
results there are at each place of the code (`Progress`), and that the row and column
of a rank are those of the grid. Concat and the sums are recursive functions, on which
induction goes over the set of numbers for which a statement holds. TLC checked
`DataInv` with the elements of the instance for `Word`.

*Collectives.* Here the chain of collectives of a rank depends on what it was given:
who gave no counts has to find them, and with which nested wrapper differs.
`Kinds` is the chain of a wrapper by whether counts are found, `Position` how many of
its collectives are behind a location of the code (a comparison counts only where the
assertions are on), and `Value` what each comparison compares. `ControlInv` says that
the trace of a rank is a prefix of its chain as long as its location says
(`TraceInv`), and that a rank past a comparison has met the same value from all
(`KnownInv`), as a comparison waits for everybody. The chains of
a wrapper agree up to and including the comparison that tells whether counts are
found, or the arguments cannot differ (`ArgsInv`); `KindsMatch` draws
CollectivesMatch from that, one lemma per wrapper (`GatherChain` and so on) that
its steps go along its chain. MisuseNoticed, that no call returns when the ranks
disagree or the root of a broadcast has no buffer, follows for compared arguments
from `KnownInv` at the end of the chain; for the buffer `SignalInv` adds that the
collective by which the root says so carries what `Signal` and `Signals` say, and that
nobody who has heard it goes on.

The data is `DataInv`. `ShapeInv` says what the arguments are (the amounts of a wrapper
with one count are equal, a single element is one). `DataEntryOK` says of the k-th
collective of a rank what it carries: a comparison one value, the collective that finds
the counts (`NumberAt`) the number of elements for each rank, the last one the payloads,
expecting from each source what is due. `LocalInv` gives the local variables by location:
the counts are those due, the displacements those of the promise, the buffer is as it
came, then as the policy leaves it (`Filled`), then with all payloads in place (`Done`).
`FaultInv` says that a rank fails only where `MayAbort` or `MayReject`, that is for a misuse or
an empty buffer. When a rank leaves a collective, `ControlInv` says that the other ranks were in
the same one, and `DataEntryOK` of theirs what it receives: `FoundCounts` for the counts,
`Delivered` for the payloads. There is one lemma per action, and
a theorem of the library never applies to the sums: `ExclusiveScan` adds up over
sets, `Sum` is defined by CHOOSE, so the proofs first show that it is defined, that it does
not depend on the order (`SumWithout`), and that displacements do not
overlap (`Offsets`, `AscendingParts`). `Layout` and `DoneIs` then say where the payloads
of a promise lie and that writing one leaves the others.

*Requests.* `SlotsOfPooled` (each pooled request has one slot, the vector as
many slots as there are pooled requests) makes the pool's calls exact. For the
memory, `ValueKept` says where the value of an operation is: still in the
result, or taken out of a block that does not move, or taken out after completion.

*Handles.* OwnershipInv is nearly inductive; `IInv` adds that what an object holds
was made (`HeldWasMade`), which keeps a new handle from being somebody's
already, and that nothing that MPI does not allow has happened. MPIAllows needs
`EnvInitialized`: an Environment that is alive and may initialize
has found or made MPI initialized. The refinement maps a handle to unused,
freed, or its owner.

*Reductions.* The k-th collective of a rank follows from k and its arguments
(`Entry`, `Phase`: in every round the comparisons, then the reduction). So the
k-th collectives of two ranks meet in the same comparison, and a rank that has passed
it knows that all gave the same (`PassedInv`). That rejects a misuse and, as a
reduction is entered only by ranks that have passed, fixes what each
contributed. `FuncInv` and `BufInv` say which operator and which buffer the
reduction is entered with, hence what it leaves in each cell.

*Results.* Everything follows from `ResultFacts`: the types of a result are those
of the owning out parameters and of the unnamed receive buffer, each once
and in order, and each stands for a buffer that the call computes, or for a send
buffer that was moved in. Order is that of `Ascending`, the places of the
parameters that are kept. `Containers`, `SendBuffer` and `Outcome` follow a value
from place to place.

*Recovery.* A rank reaches `shrink` only after it has found the communicator
revoked or has revoked it; what a rank knows it does not forget, and
communicators are numbered upwards.

Only model-checked:

- liveness (CallReturns, Terminates, AllReturn, EveryCallReturns, Recovers): fairness
  and ENABLED are outside what the prover handles;
- what recursive definitions compute for every input: the value of the reduction
  tree (Reproducible), the sorted sequence (SortsGlobally), the walk over a timer's tree (AggregatesSameTimers, OnlyLongerWalksWait). The
  induction theorems of the library take an operator as a parameter, which the
  provers cannot instantiate. Where the recursion is a function, induction can be
  done on the set of numbers for which a statement holds (`Induction`, from the
  least number left out), as for the sums and concatenations of Collectives and of the grid;
- the rest, as yet: PointToPoint, the message buffer of
  ReproducibleReduce, MeasuresNested of Timer.

## 6. Not modelled, and the plan

Left out for good: type mapping, serialization and printing, which have no state
to check, and the diagnostics of calls that do not compile. Payloads, datatypes
given by the user (which switch size checks off), truncation, overflow of counts
beyond `int`, and other traffic of the program on the tag of an exchange are
abstracted away; the notes of the hazards name them. Further:

- Point to point: ready sends. The assertion that a matching receive is posted is MPI's.
- Handles: attaching and detaching the buffer of buffered sends, copies of RankRanges,
  the groups `create_subcommunicators` makes for itself, the move assignment of
  an operation over one that owns.
- Grid: the receive side is left to the wrapper, as default or out parameters that are
  resized to fit. Given `recv_displs`, the other resize policies of `recv_buf`, and buffers
  for counts or displacements that are longer than the communicator are not
  modelled, so IsAlltoallv and its theorem say nothing of them. They matter at
  `plugin/alltoall_grid.hpp:373-385`, where the required size of `recv_buf` and its
  assertion take the last block to be the one that ends last (377; `RequiredRecvBufSize`),
  which is right for computed displacements only, and at 341-343, where the scan goes over all
  of `recv_counts` and writes as much to `recv_displs`.
- Results: const buffers that are both in and out, and serialization buffers;
  the results of non-blocking calls are in NonBlocking.
- Recovery: agree, acknowledging failures, the group of failed processes.
- The applications in `src/examples` other than the ULFM loop. The suffix sorting
  there (`prefix_doubling.hpp`) was read: it shifts the last instead of
  the first characters of a rank to its predecessor (near line 125), takes rank 0
  for "no suffix" and so does not end on a text of one letter, and calls `front()` on
  an empty rank. It is not part of the library.

Done: every component of the library with state at run time has a module, and
eight of them proofs. Next, in this order:

1. Proofs: WholeMessage of PointToPoint, whose messages are each in one place;
   MeasuresNested of Timer; SortsGlobally, for which sortedness and permutation would
   have to be shown of SortSeq.
2. The attached buffer in Environment, whose flag is per object.
3. An abstract collective call, every rank gets its promise or all are
   rejected, which Collectives and Reductions should refine.

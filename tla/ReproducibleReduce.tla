------------------------- MODULE ReproducibleReduce -------------------------
(***************************************************************************)
(* ReproducibleCommunicator::reproducible_reduce of                        *)
(* plugin/reproducible_reduce.hpp.  A global array is distributed over the *)
(* ranks; each rank reduces the subtrees that begin in its region, in      *)
(* index order, gets the missing right halves from the ranks that hold     *)
(* them and puts its results into a MessageBuffer that bundles up to       *)
(* MaxMessageLength of them for one target; the rank that holds index 0    *)
(* finishes the tree and broadcasts the result.                            *)
(*                                                                         *)
(* MPI is external.  An isend completes when the target has received the   *)
(* message or, if it fits MPI's buffers, at once: both are allowed.        *)
(***************************************************************************)
EXTENDS ReductionTree, Functions

CONSTANTS
  Rank,              (* 0 .. p-1                                           *)
  Layouts,           (* Sets of send_counts and recv_displs, with limits.  *)
  MaxRounds,         (* Calls per rank. Bounds the model.                  *)
  Completion,        (* Possible isends: TRUE eager, FALSE rendezvous.     *)
  NoRank             (* An empty optional.                                 *)

ASSUME RankAssumption == Rank = 0 .. Max(Rank)

VARIABLES
  layout,       (* [count, displ, starts, message, flush]: the array's     *)
                (* distribution and the two limits below.                  *)
  round,        (* Number of the call a rank is in, or was in last.        *)
  pc,
  todo,         (* Elements of _rank_intersecting_elements still to do.    *)
  index,        (* The subtree a rank reduces.                             *)
  y,            (* Its level,                                              *)
  n,            (* elements_in_buffer,                                     *)
  buf,          (* _reduce_buffer.                                         *)
  value,        (* Result of the last subtree.                             *)
  inbox,        (* _inbox: index -> value.                                 *)
  outbox,       (* _outbox                                                 *)
  target,       (* _target_rank                                            *)
  clear,        (* _send_buffer_clear                                      *)
  sent,         (* Whether the isend behind _request is complete.          *)
  recvBuf,      (* _buffer, the buffer receive() reuses.                   *)
  chan,         (* chan[s, r]: messages under way from s to r.             *)
  bcasts,       (* Results broadcast so far, in order.                     *)
  result        (* What the last call returned.                            *)

reduceVars == <<round, todo, index, y, n, buf, value, bcasts, result>>
sendVars == <<outbox, target, clear>>
mpiVars == <<sent, chan>>
recvVars == <<inbox, recvBuf>>
vars == <<layout, pc, reduceVars, sendVars, mpiVars, recvVars>>

-----------------------------------------------------------------------------
(* MAX_MESSAGE_LENGTH, 4 in the code, and the subtree size above which to   *)
(* flush first, 16 there: smaller ones let small arrays reach them.         *)
MaxMessageLength == layout.message
FlushSize == layout.flush

(***************************************************************************)
(* make_reproducible_comm: from the counts and displacements of all ranks  *)
(* to start_indices, whose last key is the guardian element.               *)
(***************************************************************************)
NonEmpty(l) == {r \in Rank : l.count[r] > 0}

ArrayLength(l) == MapThenSumSet(LAMBDA r : l.count[r], Rank)

(* Of ranks with one displacement the last stays; the guardian comes last. *)
start_indices(l) ==
  [s \in {l.displ[r] : r \in NonEmpty(l)} \cup {ArrayLength(l)} |->
     IF s = ArrayLength(l) THEN NoRank ELSE Max({r \in NonEmpty(l) : l.displ[r] = s})]

(* What it asserts: index 0 is there, and every region ends where the next *)
(* one starts.                                                             *)
ValidLayout(l) ==
  LET starts == start_indices(l)
      Keys   == DOMAIN starts
  IN  /\ 0 \in Keys
      /\ \A s \in Keys \ {Max(Keys)} :
           /\ starts[s] # NoRank
           /\ s + l.count[starts[s]] = Min({t \in Keys : t > s})

GlobalSize == Max(DOMAIN layout.starts)
RegionBegin(r) == layout.displ[r]
RegionEnd(r) == layout.displ[r] + layout.count[r]

(* upper_bound(i), then one back. *)
tree_rank_from_index_map(i) == layout.starts[Max({s \in DOMAIN layout.starts : s <= i})]

Origin == tree_rank_from_index_map(0)

-----------------------------------------------------------------------------
(* The element i of the array of a round, and a default-constructed T. *)
Leaf(rnd, i) == <<100 * rnd + i>>
DefaultValue == <<0>>

EmptyEntry == [index |-> 0, value |-> DefaultValue]

Init ==
  /\ layout \in {[count |-> l.count, displ |-> l.displ, starts |-> start_indices(l),
                   message |-> l.message, flush |-> l.flush] :
                  l \in {m \in Layouts : ValidLayout(m)}}
  /\ round = [r \in Rank |-> 0]
  /\ pc = [r \in Rank |-> "idle"]
  /\ todo = [r \in Rank |-> <<>>]
  /\ index = [r \in Rank |-> 0]
  /\ y = [r \in Rank |-> 0]
  /\ n = [r \in Rank |-> 0]
  /\ buf = [r \in Rank |-> [j \in 1 .. layout.count[r] |-> DefaultValue]]
  /\ value = [r \in Rank |-> DefaultValue]
  /\ inbox = [r \in Rank |-> <<>>]
  /\ outbox = [r \in Rank |-> <<>>]
  /\ target = [r \in Rank |-> NoRank]
  /\ clear = [r \in Rank |-> TRUE]
  /\ sent = [r \in Rank |-> TRUE]
  /\ recvBuf = [r \in Rank |-> [j \in 1 .. MaxMessageLength |-> EmptyEntry]]
  /\ chan = [p \in Rank \X Rank |-> <<>>]
  /\ bcasts = <<>>
  /\ result = [r \in Rank |-> DefaultValue]

Goto(r, from, to) ==
  /\ pc[r] = from
  /\ pc' = [pc EXCEPT ![r] = to]

-----------------------------------------------------------------------------
(***************************************************************************)
(* Plausible mistakes, used by no action.                                  *)
(***************************************************************************)
EndsHere_OffByOne(r, indexB) == indexB >= GlobalSize - 1
DifferentTarget_Ignored(r, t) == FALSE
Full_OffByOne(ob) == Len(ob) > MaxMessageLength
OutboxAfterWait_NotCleared(r) == outbox[r]

-----------------------------------------------------------------------------
(***************************************************************************)
(* MessageBuffer                                                           *)
(***************************************************************************)
(* flush() with the outbox ob addressed to tg. *)
Flush(r, ob, tg) ==
  IF tg = NoRank \/ ob = <<>>
    THEN /\ target' = [target EXCEPT ![r] = tg]
         /\ UNCHANGED <<clear, mpiVars>>
    ELSE /\ target' = [target EXCEPT ![r] = NoRank]
         /\ clear' = [clear EXCEPT ![r] = FALSE]
         /\ \E eager \in Completion :
              /\ chan' = [chan EXCEPT ![r, tg] =
                            Append(@, [entries |-> ob, eager |-> eager])]
              /\ sent' = [sent EXCEPT ![r] = eager]

(* wait() returns, ... *)
WaitDone(r) == clear[r] \/ sent[r]

(* ... and has cleared the outbox that was sent. *)
OutboxAfterWait(r) == IF clear[r] THEN outbox[r] ELSE <<>>

(* put: the outbox is meant for somebody else. *)
DifferentTarget(r, t) == target[r] # NoRank /\ target[r] # t

Full(ob) == Len(ob) >= MaxMessageLength

(* receive() copies the whole of _buffer, of which a short message         *)
(* overwrites the beginning only, into the inbox.                          *)
BufferAfter(r, entries) ==
  [j \in 1 .. MaxMessageLength |->
     IF j <= Len(entries) THEN entries[j] ELSE recvBuf[r][j]]

InboxAfter(r, b) ==
  LET Fresh == {b[j].index : j \in DOMAIN b} \cup {0} IN
  [i \in DOMAIN inbox[r] \cup Fresh |->
     IF \E j \in DOMAIN b : b[j].index = i
       THEN b[Max({j \in DOMAIN b : b[j].index = i})].value
       ELSE IF i = 0 THEN DefaultValue ELSE inbox[r][i]]

Erase(box, i) == Restrict(box, DOMAIN box \ {i})

-----------------------------------------------------------------------------
(***************************************************************************)
(* _perform_reduce of one subtree, level by level.                         *)
(***************************************************************************)
MaxX(i) ==
  IF i = 0 THEN GlobalSize - 1 ELSE Min({GlobalSize - 1, i + tree_subtree_size(i) - 1})

MaxY(i) == IF i = 0 THEN tree_height(GlobalSize) ELSE subtree_height(i)

(* The right half does not exist: the subtree ends here. *)
EndsHere(r, indexB) == indexB > MaxX(index[r])

(* The buffer a level reads: the caller's at first, then its own result. *)
Source(r) ==
  IF y[r] = 1
    THEN [j \in 1 .. n[r] |-> Leaf(round[r], index[r] + j - 1)]
    ELSE buf[r]

(* Index of the missing right half of the last, unpaired element. *)
IndexB(r) == index[r] + n[r] * 2^(y[r] - 1)

Pairs(r) == n[r] \div 2

(* The buffer after the loop over the pairs of a level. *)
Paired(r) ==
  [j \in DOMAIN buf[r] |->
     IF j <= Pairs(r) THEN Op(Source(r)[2 * j - 1], Source(r)[2 * j])
     ELSE buf[r][j]]

(* Begin with subtree i. An odd index is a leaf. *)
Begin(r, from, i) ==
  /\ index' = [index EXCEPT ![r] = i]
  /\ IF i % 2 = 1
       THEN /\ Goto(r, from, "put")
            /\ value' = [value EXCEPT ![r] = Leaf(round[r], i)]
            /\ UNCHANGED <<y, n>>
       ELSE /\ Goto(r, from, "level")
            /\ y' = [y EXCEPT ![r] = 1]
            /\ n' = [n EXCEPT ![r] = Min({MaxX(i), RegionEnd(r) - 1}) + 1 - i]
            /\ UNCHANGED value

(* The level needs nothing from another rank. *)
LocalLevel(r) ==
  /\ Goto(r, "level", "level")
  /\ y[r] <= MaxY(index[r])
  /\ n[r] = 2 * Pairs(r) \/ EndsHere(r, IndexB(r))
  /\ buf' = [buf EXCEPT ![r] =
       IF n[r] = 2 * Pairs(r) THEN Paired(r)
       ELSE [Paired(r) EXCEPT ![Pairs(r) + 1] = Source(r)[n[r]]]]
  /\ n' = [n EXCEPT ![r] = (n[r] + 1) \div 2]
  /\ y' = [y EXCEPT ![r] = @ + 1]
  /\ UNCHANGED <<layout, round, todo, index, value, bcasts, result, sendVars,
                 mpiVars, recvVars>>

(* What elementB = get(...) completes. *)
Combine(r, elementB) ==
  /\ buf' = [buf EXCEPT ![r] =
       [Paired(r) EXCEPT ![Pairs(r) + 1] = Op(Source(r)[n[r]], elementB)]]
  /\ n' = [n EXCEPT ![r] = Pairs(r) + 1]
  /\ y' = [y EXCEPT ![r] = @ + 1]
  /\ UNCHANGED <<layout, round, todo, index, value, bcasts, result>>

NeedsRemote(r) ==
  /\ pc[r] = "level"
  /\ y[r] <= MaxY(index[r])
  /\ n[r] # 2 * Pairs(r) /\ ~EndsHere(r, IndexB(r))

(* get() finds the value in the inbox. *)
GetFromInbox(r) ==
  /\ NeedsRemote(r)
  /\ IndexB(r) \in DOMAIN inbox[r]
  /\ Combine(r, inbox[r][IndexB(r)])
  /\ inbox' = [inbox EXCEPT ![r] = Erase(@, IndexB(r))]
  /\ UNCHANGED <<pc, sendVars, mpiVars, recvBuf>>

(* get() does not: it flushes, so that nobody waits for our results. *)
GetMiss(r) ==
  /\ NeedsRemote(r)
  /\ IndexB(r) \notin DOMAIN inbox[r]
  /\ Goto(r, "level", "getWait")
  /\ Flush(r, outbox[r], target[r])
  /\ UNCHANGED <<layout, reduceVars, outbox, recvVars>>

(* wait() within get(). *)
GetWait(r) ==
  /\ Goto(r, "getWait", "receive")
  /\ WaitDone(r)
  /\ outbox' = [outbox EXCEPT ![r] = OutboxAfterWait(r)]
  /\ clear' = [clear EXCEPT ![r] = TRUE]
  /\ UNCHANGED <<layout, reduceVars, target, mpiVars, recvVars>>

(* receive() from the holder of the value; it must be in that message. *)
Receive(r) ==
  LET s   == tree_rank_from_index_map(IndexB(r))
      msg == Head(chan[s, r])
      b   == BufferAfter(r, msg.entries)
      box == InboxAfter(r, b)
  IN
  /\ pc[r] = "receive"
  /\ chan[s, r] # <<>>
  /\ chan' = [chan EXCEPT ![s, r] = Tail(@)]
  /\ sent' = IF msg.eager THEN sent ELSE [sent EXCEPT ![s] = TRUE]
  /\ recvBuf' = [recvBuf EXCEPT ![r] = b]
  /\ IF IndexB(r) \in DOMAIN box
       THEN /\ pc' = [pc EXCEPT ![r] = "level"]
            /\ Combine(r, box[IndexB(r)])
            /\ inbox' = [inbox EXCEPT ![r] = Erase(box, IndexB(r))]
       ELSE /\ pc' = [pc EXCEPT ![r] = "failed"]
            /\ inbox' = [inbox EXCEPT ![r] = box]
            /\ UNCHANGED <<layout, reduceVars>>
  /\ UNCHANGED sendVars

(* All levels are done; one element must be left. *)
EndLevels(r) ==
  /\ pc[r] = "level"
  /\ y[r] > MaxY(index[r])
  /\ value' = [value EXCEPT ![r] = buf[r][1]]
  /\ pc' = [pc EXCEPT ![r] = IF n[r] # 1 THEN "failed"
                             ELSE IF index[r] = 0 THEN "bcast" ELSE "put"]
  /\ UNCHANGED <<layout, round, todo, index, y, n, buf, bcasts, result, sendVars,
                 mpiVars, recvVars>>

-----------------------------------------------------------------------------
(***************************************************************************)
(* reproducible_reduce                                                     *)
(***************************************************************************)
Call(r) ==
  /\ Goto(r, "idle", "loop")
  /\ round[r] < MaxRounds
  /\ round' = [round EXCEPT ![r] = @ + 1]
  /\ todo' = [todo EXCEPT ![r] =
                tree_rank_intersecting_elements(RegionBegin(r), RegionEnd(r))]
  /\ UNCHANGED <<layout, index, y, n, buf, value, bcasts, result, sendVars,
                 mpiVars, recvVars>>

(* The next subtree; before a large one the outbox is flushed. *)
NextElement(r) ==
  /\ todo[r] # <<>>
  /\ Begin(r, "loop", Head(todo[r]))
  /\ todo' = [todo EXCEPT ![r] = Tail(@)]
  /\ IF tree_subtree_size(Head(todo[r])) > FlushSize
       THEN Flush(r, outbox[r], target[r])
       ELSE UNCHANGED <<target, clear, mpiVars>>
  /\ UNCHANGED <<layout, round, buf, bcasts, result, outbox, recvVars>>

(* put(): flush if the outbox is full or meant for somebody else. *)
PutFlush(r) ==
  LET t == tree_rank_from_index_map(tree_parent(index[r])) IN
  /\ Goto(r, "put", "putWait")
  /\ IF Full(outbox[r]) \/ DifferentTarget(r, t)
       THEN Flush(r, outbox[r], target[r])
       ELSE UNCHANGED <<target, clear, mpiVars>>
  /\ UNCHANGED <<layout, reduceVars, outbox, recvVars>>

(* put(): wait for the last send, store the value, flush if full now. *)
PutStore(r) ==
  LET t  == tree_rank_from_index_map(tree_parent(index[r]))
      ob == Append(OutboxAfterWait(r), [index |-> index[r], value |-> value[r]])
  IN
  /\ Goto(r, "putWait", "loop")
  /\ WaitDone(r)
  /\ outbox' = [outbox EXCEPT ![r] = ob]
  /\ IF Full(ob)
       THEN Flush(r, ob, t)
       ELSE /\ target' = [target EXCEPT ![r] = t]
            /\ clear' = [clear EXCEPT ![r] = TRUE]
            /\ UNCHANGED mpiVars
  /\ UNCHANGED <<layout, reduceVars, recvVars>>

(* All subtrees are done: flush() ... *)
FinalFlush(r) ==
  /\ Goto(r, "loop", "finalWait")
  /\ todo[r] = <<>>
  /\ Flush(r, outbox[r], target[r])
  /\ UNCHANGED <<layout, reduceVars, outbox, recvVars>>

(* ... and wait(); the rank that holds index 0 goes on with the root. *)
FinalWait(r) ==
  /\ WaitDone(r)
  /\ outbox' = [outbox EXCEPT ![r] = OutboxAfterWait(r)]
  /\ clear' = [clear EXCEPT ![r] = TRUE]
  /\ IF r = Origin THEN Begin(r, "finalWait", 0)
                   ELSE Goto(r, "finalWait", "bcast") /\ UNCHANGED <<index, y, n, value>>
  /\ UNCHANGED <<layout, round, todo, buf, bcasts, result, target, mpiVars, recvVars>>

(* bcast_single: the origin broadcasts, the others wait for it. *)
Broadcast(r) ==
  /\ r = Origin
  /\ Goto(r, "bcast", "idle")
  /\ bcasts' = Append(bcasts, value[r])
  /\ result' = [result EXCEPT ![r] = value[r]]
  /\ UNCHANGED <<layout, round, todo, index, y, n, buf, value, sendVars, mpiVars,
                 recvVars>>

ReceiveBroadcast(r) ==
  /\ r # Origin
  /\ Goto(r, "bcast", "idle")
  /\ Len(bcasts) >= round[r]
  /\ result' = [result EXCEPT ![r] = bcasts[round[r]]]
  /\ UNCHANGED <<layout, round, todo, index, y, n, buf, value, bcasts, sendVars,
                 mpiVars, recvVars>>

RankStep(r) ==
  \/ Call(r) \/ NextElement(r) \/ LocalLevel(r) \/ GetFromInbox(r) \/ GetMiss(r)
  \/ GetWait(r) \/ Receive(r) \/ EndLevels(r) \/ PutFlush(r) \/ PutStore(r)
  \/ FinalFlush(r) \/ FinalWait(r) \/ Broadcast(r) \/ ReceiveBroadcast(r)

Next == \E r \in Rank : RankStep(r)

Spec == Init /\ [][Next]_vars

(* Every rank runs, and all of them make every call. *)
FairSpec == Spec /\ \A r \in Rank : WF_vars(RankStep(r))

-----------------------------------------------------------------------------
Location == {"idle", "loop", "level", "getWait", "receive", "put", "putWait",
             "finalWait", "bcast", "failed"}

TypeOK ==
  /\ round \in [Rank -> 0 .. MaxRounds]
  /\ pc \in [Rank -> Location]
  /\ target \in [Rank -> Rank \cup {NoRank}]
  /\ clear \in [Rank -> BOOLEAN] /\ sent \in [Rank -> BOOLEAN]
  /\ \A r \in Rank : /\ DOMAIN buf[r] = 1 .. layout.count[r]
                     /\ Len(outbox[r]) <= MaxMessageLength

(* Whatever the distribution, every rank gets the value the one fixed tree *)
(* gives for the elements of this very round: no right half is missing,    *)
(* taken twice, taken from an earlier reduction (receive() does copy old   *)
(* entries of its buffer into the inbox again) or combined out of order.   *)
Reproducible ==
  [][\A r \in Rank : pc[r] # "idle" /\ pc'[r] = "idle" =>
       result'[r] = TreeValue(GlobalSize, LAMBDA i : Leaf(round[r], i))]_vars

(* The assertions of the code hold: a message from the holder of a value   *)
(* contains it, a reduced subtree is one element, and a subtree a rank     *)
(* passes on has its parent at another rank.                               *)
AssertionsHold ==
  \A r \in Rank :
    /\ pc[r] # "failed"
    /\ \A j \in DOMAIN todo[r] : tree_parent(todo[r][j]) < RegionBegin(r)

(* Between two reductions a rank leaves no message of its own behind, and  *)
(* nobody sends a rank a message it has not asked for in the same round.   *)
Drained ==
  \A r \in Rank : pc[r] = "idle" =>
    /\ outbox[r] = <<>> /\ clear[r] /\ target[r] = NoRank
    /\ \A s \in Rank : round[s] = round[r] => chan[s, r] = <<>>

(* No distribution makes ranks wait for each other forever, even if MPI    *)
(* buffers no message.                                                     *)
Terminates == <>(\A r \in Rank : pc[r] = "idle" /\ round[r] = MaxRounds)
=============================================================================

------------------------------ MODULE PointToPoint ------------------------------
(***************************************************************************)
(* Sending, receiving and probing single messages (p2p/*.hpp).  Each       *)
(* thread of a rank runs a script of calls.  A receive without recv_count  *)
(* is two MPI calls, a probe and a receive by what the probe found, and    *)
(* other threads and messages come in between.                             *)
(* MPI itself (external): between two ranks messages do not overtake one   *)
(* another, a message on arrival goes to the earliest matching receive     *)
(* that is posted, and a receive with any source may take the first        *)
(* matching message of any rank.                                           *)
(***************************************************************************)
EXTENDS Integers, FiniteSets, Functions, DataBuffers

CONSTANTS
  Rank,
  Scripts      (* Each a function from threads <<rank, number>> to their calls. *)

VARIABLES
  script,      (* The calls of each thread,                                  *)
  pc,          (* the index of the one it is in,                             *)
  at,          (* how far it is in it,                                       *)
  probed,      (* what its last probe found, or the message it has claimed.  *)
  wire,        (* wire[s, d]: messages under way from s to d,                *)
  inbox,       (* arrived and not matched,                                   *)
  posted,      (* posted[d]: receives of d that wait for a message.          *)
  done,        (* Sends that are complete.                                   *)
  buf,         (* The buffer of each receive,                                *)
  status       (* and its status, once it is complete.                       *)

threads == <<pc, at, probed>>
network == <<wire, inbox, posted>>
results == <<done, buf, status>>
vars    == <<script, threads, network, results>>

MPI_ANY_SOURCE == -1
MPI_ANY_TAG    == -1
MPI_PROC_NULL  == -2
Omitted        == -1   (* No recv_count.                                     *)
FromProbe      == -3   (* Receive what the status of the last probe names.   *)

Thread     == DOMAIN script
Calls      == {<<t, i>> : t \in Thread, i \in 1 .. 4}
Ended(t)   == pc[t] > Len(script[t])
Current(t) == script[t][pc[t]]
Rk(t)      == t[1]
Id(t)      == <<t, pc[t]>>
CallOf(id) == script[id[1]][id[2]]

Nothing    == [source |-> MPI_PROC_NULL, tag |-> MPI_ANY_TAG, count |-> -1, of |-> << >>]
NullStatus == [source |-> MPI_PROC_NULL, tag |-> MPI_ANY_TAG, count |-> 0, of |-> << >>]

Content(m) == [j \in 1 .. m.size |-> <<m.id, j>>]

StatusOf(s, m) == [source |-> s, tag |-> m.tag, count |-> m.size, of |-> m.id]

Is(t, ops, stage) == ~Ended(t) /\ Current(t).op \in ops /\ at[t] = stage

NextCall(t) == pc' = [pc EXCEPT ![t] = @ + 1] /\ at' = [at EXCEPT ![t] = "call"]
Go(t, stage) == at' = [at EXCEPT ![t] = stage] /\ UNCHANGED pc

IsReceive(call) == call.op \in {"recv", "irecv", "try_recv"}

Init ==
  /\ script \in Scripts
  /\ pc = [t \in Thread |-> 1]
  /\ at = [t \in Thread |-> "call"]
  /\ probed = [t \in Thread |-> Nothing]
  /\ wire = [p \in Rank \X Rank |-> << >>]
  /\ inbox = [p \in Rank \X Rank |-> << >>]
  /\ posted = [d \in Rank |-> << >>]
  /\ done = {}
  /\ buf = [c \in {<<t, i>> \in Calls : i \in DOMAIN script[t] /\ IsReceive(script[t][i])} |->
              [k \in 1 .. CallOf(c).room |-> Old]]
  /\ status = [c \in DOMAIN buf |-> Nothing]

--------------------------------------------------------------------------------
Fits(envelope, s, m) ==
  envelope.source \in {MPI_ANY_SOURCE, s} /\ envelope.tag \in {MPI_ANY_TAG, m.tag}

(* The first message from s at d that a receive or a probe takes; 0 if there is none. *)
FirstFrom(s, d, envelope) == SelectInSeq(inbox[s, d], LAMBDA m : Fits(envelope, s, m))

Matching(d, envelope) == {s \in Rank : FirstFrom(s, d, envelope) # 0}

Take(s, d, envelope) == inbox' = [inbox EXCEPT ![s, d] = RemoveAt(@, FirstFrom(s, d, envelope))]

Overwrite(cells, m, count) ==
  [k \in DOMAIN cells |-> IF k <= m.size /\ k <= count THEN Content(m)[k] ELSE cells[k]]

(* Receive c, with room for count elements in cells, gets message m of rank s. *)
Match(c, s, m, cells, count) ==
  /\ buf' = [buf EXCEPT ![c] = Overwrite(cells, m, count)]
  /\ status' = [status EXCEPT ![c] = StatusOf(s, m)]
  /\ done' = done \cup {m.id}

(* The next message from s reaches d. *)
Deliver(s, d) ==
  /\ wire[s, d] # << >>
  /\ wire' = [wire EXCEPT ![s, d] = Tail(@)]
  /\ LET m == Head(wire[s, d])
         first == SelectInSeq(posted[d], LAMBDA receive : Fits(receive, s, m))
     IN  IF first = 0
         THEN inbox' = [inbox EXCEPT ![s, d] = Append(@, m)] /\ UNCHANGED <<posted, results>>
         ELSE /\ Match(posted[d][first].c, s, m, buf[posted[d][first].c], posted[d][first].count)
              /\ posted' = [posted EXCEPT ![d] = RemoveAt(@, first)]
              /\ UNCHANGED inbox
  /\ UNCHANGED <<script, threads>>

(* Whether the call completes before its message is matched: a choice of MPI for the standard mode. *)
Eager(mode) ==
  CASE mode = "standard"    -> BOOLEAN
    [] mode = "buffered"    -> {TRUE}
    [] mode = "synchronous" -> {FALSE}

(* send, isend and the wrappers that give them a mode. *)
Send(t) ==
  /\ Is(t, {"send", "isend"}, "call")
  /\ IF Current(t).to = MPI_PROC_NULL
     THEN NextCall(t) /\ done' = done \cup {Id(t)} /\ UNCHANGED wire
     ELSE /\ wire' = [wire EXCEPT ![Rk(t), Current(t).to] =
                        Append(@, [id |-> Id(t), tag |-> Current(t).tag, size |-> Current(t).size])]
          /\ \E eager \in Eager(Current(t).mode) :
               /\ done' = IF eager THEN done \cup {Id(t)} ELSE done
               /\ IF Current(t).op = "isend" \/ eager THEN NextCall(t) ELSE Go(t, "sending")
  /\ UNCHANGED <<script, probed, inbox, posted, buf, status>>

Sent(t) ==
  /\ Is(t, {"send"}, "sending")
  /\ Id(t) \in done
  /\ NextCall(t)
  /\ UNCHANGED <<script, probed, network, results>>

(* The source, tag and count of the call, or of the status the caller hands on. *)
Given(t) ==
  IF Current(t).source = FromProbe
  THEN probed[t]
  ELSE [source |-> Current(t).source, tag |-> Current(t).tag, count |-> Current(t).count, of |-> << >>]

(* The status of the first message from s that fits what the call asks for. *)
StatusFrom(t, s) == StatusOf(s, inbox[s, Rk(t)][FirstFrom(s, Rk(t), Given(t))])

(* A plausible mistake, used nowhere: the receive repeats the pattern of the probe. *)
Found_CountOnly(t, s) == [Given(t) EXCEPT !.count = StatusFrom(t, s).count]

(* What the probe inside a receive hands on to it: where to receive from, and how much. *)
Found(t, s) == StatusFrom(t, s)

(* A plausible mistake, used nowhere: an irecv probes whether or not a count is given. *)
HasToProbe_Always(call) == call.op = "irecv" \/ call.count = Omitted

HasToProbe(call) == call.count = Omitted

(* A blocking probe, by the caller or by recv and irecv without recv_count. *)
Probe(t) ==
  /\ \/ Is(t, {"probe"}, "call") /\ NextCall(t)
     \/ Is(t, {"recv", "irecv"}, "call") /\ HasToProbe(Current(t)) /\ Go(t, "probed")
  /\ IF Given(t).source = MPI_PROC_NULL
     THEN probed' = [probed EXCEPT ![t] = NullStatus]
     ELSE \E s \in Matching(Rk(t), Given(t)) :
            probed' = [probed EXCEPT ![t] = IF Current(t).op = "probe" THEN StatusFrom(t, s) ELSE Found(t, s)]
  /\ UNCHANGED <<script, network, results>>

(* iprobe, by a caller who polls until it succeeds. *)
IProbe(t) ==
  /\ Is(t, {"iprobe"}, "call")
  /\ \/ /\ Given(t).source # MPI_PROC_NULL /\ Matching(Rk(t), Given(t)) = {}
        /\ UNCHANGED vars
     \/ /\ \/ /\ Given(t).source = MPI_PROC_NULL
              /\ probed' = [probed EXCEPT ![t] = NullStatus]
           \/ \E s \in Matching(Rk(t), Given(t)) : probed' = [probed EXCEPT ![t] = StatusFrom(t, s)]
        /\ NextCall(t)
        /\ UNCHANGED <<script, network, results>>

(* A buffer for a receive of count elements: nothing is touched for the null rank. *)
Prepared(c, count) ==
  IF CallOf(c).source = MPI_PROC_NULL THEN buf[c] ELSE ResizeIfRequested(buf[c], CallOf(c).policy, count)

LargeEnough(c, count) == CallOf(c).source = MPI_PROC_NULL \/ Len(Prepared(c, count)) >= count

(* recv and irecv once the count is known: the message is there, or the receive is posted. *)
Receive(t) ==
  /\ \/ Is(t, {"recv", "irecv"}, "call") /\ ~HasToProbe(Current(t))
     \/ Is(t, {"recv", "irecv"}, "probed")
  /\ LET c == Id(t)
         d == Rk(t)
         e == IF at[t] = "probed" THEN probed[t] ELSE Given(t)
         cells == Prepared(c, e.count)
     IN  IF ~LargeEnough(c, e.count)
         THEN Go(t, "aborted") /\ UNCHANGED <<probed, network, results>>
         ELSE /\ IF Current(t).op = "recv" THEN Go(t, "receiving") ELSE NextCall(t)
              /\ UNCHANGED <<probed, wire>>
              /\ \/ /\ e.source = MPI_PROC_NULL
                    /\ status' = [status EXCEPT ![c] = NullStatus]
                    /\ UNCHANGED <<inbox, posted, done, buf>>
                 \/ /\ \E s \in Matching(d, e) :
                         /\ Take(s, d, e)
                         /\ Match(c, s, inbox[s, d][FirstFrom(s, d, e)], cells, e.count)
                    /\ UNCHANGED posted
                 \/ /\ e.source # MPI_PROC_NULL /\ Matching(d, e) = {}
                    /\ posted' = [posted EXCEPT ![d] = Append(@, [c |-> c, source |-> e.source,
                                                                  tag |-> e.tag, count |-> e.count])]
                    /\ buf' = [buf EXCEPT ![c] = cells]
                    /\ UNCHANGED <<inbox, done, status>>
  /\ UNCHANGED script

Received(t) ==
  /\ Is(t, {"recv"}, "receiving")
  /\ status[Id(t)] # Nothing
  /\ NextCall(t)
  /\ UNCHANGED <<script, probed, network, results>>

(* try_recv, by a caller who polls: the matched probe takes the message out of the reach of others. *)
(* From the null rank it finds at once a message that is none, and the receive leaves the buffer.   *)
TryRecv(t) ==
  /\ Is(t, {"try_recv"}, "call")
  /\ \/ /\ Given(t).source # MPI_PROC_NULL /\ Matching(Rk(t), Given(t)) = {}
        /\ UNCHANGED vars
     \/ /\ \/ /\ Given(t).source = MPI_PROC_NULL
              /\ probed' = [probed EXCEPT ![t] = NullStatus]
              /\ UNCHANGED inbox
           \/ \E s \in Matching(Rk(t), Given(t)) :
                probed' = [probed EXCEPT ![t] = StatusFrom(t, s)] /\ Take(s, Rk(t), Given(t))
        /\ Go(t, "claimed")
        /\ UNCHANGED <<script, wire, posted, results>>

MatchedReceive(t) ==
  /\ Is(t, {"try_recv"}, "claimed")
  /\ LET m == [id |-> probed[t].of, tag |-> probed[t].tag, size |-> probed[t].count]
     IN  \/ /\ probed[t] = NullStatus
             /\ status' = [status EXCEPT ![Id(t)] = NullStatus]
             /\ NextCall(t)
             /\ UNCHANGED <<done, buf>>
         \/ /\ probed[t] # NullStatus
             /\ IF LargeEnough(Id(t), m.size)
                THEN Match(Id(t), probed[t].source, m, Prepared(Id(t), m.size), m.size) /\ NextCall(t)
                ELSE Go(t, "aborted") /\ UNCHANGED results
  /\ UNCHANGED <<script, probed, network>>

(* wait on everything the thread has started. *)
Wait(t) ==
  /\ Is(t, {"wait"}, "call")
  /\ \A i \in 1 .. pc[t] - 1 :
       /\ script[t][i].op = "isend" => <<t, i>> \in done
       /\ script[t][i].op = "irecv" => status[t, i] # Nothing
  /\ NextCall(t)
  /\ UNCHANGED <<script, probed, network, results>>

Run(t) ==
  \/ Send(t) \/ Sent(t)
  \/ Probe(t) \/ IProbe(t) \/ Receive(t) \/ Received(t)
  \/ TryRecv(t) \/ MatchedReceive(t)
  \/ Wait(t)

(* Everybody is done, or an assertion has ended the program. *)
Terminated == (\A t \in Thread : Ended(t)) \/ (\E t \in Thread : at[t] = "aborted")

Stop == Terminated /\ UNCHANGED vars

Next == (\E t \in Thread : Run(t)) \/ (\E s, d \in Rank : Deliver(s, d)) \/ Stop

Fairness ==
  /\ \A t \in UNION {DOMAIN f : f \in Scripts} : WF_vars(t \in Thread /\ Run(t))
  /\ \A s, d \in Rank : WF_vars(Deliver(s, d))

Spec == Init /\ [][Next]_vars /\ Fairness

--------------------------------------------------------------------------------
Size(c) == CallOf(c).room

Required(c) == IF CallOf(c).count \in Nat THEN CallOf(c).count ELSE status[c].count

SizeAfter(c) ==
  IF CallOf(c).source = MPI_PROC_NULL THEN Size(c)
  ELSE CASE CallOf(c).policy = "resize_to_fit" -> Required(c)
         [] CallOf(c).policy = "grow_only" -> IF Size(c) < Required(c) THEN Required(c) ELSE Size(c)
         [] CallOf(c).policy = "no_resize" -> Size(c)

(* A receive that is complete has one message, whole and alone: it was sent to this rank by a  *)
(* call that fits the receive, no other receive has it, the status names its sender, tag and   *)
(* length, and the buffer has the size its policy says and nothing else overwritten; a receive *)
(* from the null rank leaves the buffer alone; only no_resize makes a call fail.  So the count *)
(* found by a probe is the one of the message received, whatever arrives in between and        *)
(* whoever else receives by try_recv.                                                          *)
WholeMessage ==
  /\ \A t \in Thread : at[t] = "aborted" => Current(t).policy = "no_resize"
  /\ \A c \in DOMAIN status : status[c] # Nothing =>
       /\ Len(buf[c]) = SizeAfter(c)
       /\ status[c] # NullStatus =>
            LET sent == CallOf(status[c].of)
            IN  /\ sent.to = c[1][1] /\ status[c].source = status[c].of[1][1]
                /\ CallOf(c).source \in {MPI_ANY_SOURCE, FromProbe, status[c].source}
                /\ CallOf(c).tag \in {MPI_ANY_TAG, FromProbe, sent.tag}
                /\ status[c].tag = sent.tag /\ status[c].count = sent.size
                /\ \A k \in 1 .. sent.size : k \in DOMAIN buf[c] /\ buf[c][k] = <<status[c].of, k>>
                /\ \A d \in DOMAIN status \ {c} : status[d].of # status[c].of
       /\ \A k \in status[c].count + 1 .. Len(buf[c]) : buf[c][k] = IF k <= Size(c) THEN Old ELSE New

(* Scripts in which the sends and receives pair up run to their end, in any order of arrival:  *)
(* all the messages are taken and no call waits for ever.  So irecv with a count does not wait *)
(* (an exchange may start with it on both sides), and no receive misses the message it probed. *)
(* The exception is a program ended by the assertion on a buffer that is too small.            *)
EveryCallReturns == <>Terminated
================================================================================

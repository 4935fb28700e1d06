---------------------------- MODULE MessageQueue ----------------------------
(***************************************************************************)
(* One pubsub topic: publishers, the FoundationDB keys of the topic, and   *)
(* clients that follow it over server-sent events (pubsub/mq.rs,           *)
(* pubsub/sse.rs).                                                         *)
(*                                                                         *)
(* A push writes the message under the versionstamp of its transaction and *)
(* the same versionstamp to the topic's counter.  An SSE task pops what    *)
(* lies beyond its position; with nothing to pop it watches the counter.   *)
(* Every 15 seconds a heartbeat drops the pop and starts another.  A       *)
(* client whose connection ends reconnects with the last id it has seen.   *)
(* Faults (connections, transactions, the host process) are bounded by     *)
(* MaxFaults and versionstamps advance by at most MaxGap per push.         *)
(***************************************************************************)
EXTENDS Naturals, FiniteSets, Sequences

CONSTANTS
    Messages,   \* each published once
    Subs,       \* clients
    Pollers,    \* the clients that may connect with no_wait=1
    MinBatch,   \* MIN_BATCH_SIZE
    MaxBatch,   \* MAX_BATCH_SIZE
    MaxGap,     \* other transactions take versionstamps too
    MaxFaults,
    None

ASSUME PollersAssumption == Pollers \subseteq Subs
ASSUME BatchAssumption ==
    MinBatch \in Nat /\ MaxBatch \in Nat /\ 0 < MinBatch /\ MinBatch <= MaxBatch
ASSUME BoundsAssumption == MaxGap \in Nat /\ MaxFaults \in Nat
ASSUME NoneAssumption == None \notin Messages /\ None \notin Nat

VARIABLES
    store,      \* the data keys of the topic: versionstamp and message
    counter,    \* the counter key; 0 when it is absent
    version,    \* the last versionstamp the database gave out
    push,       \* progress of each MessageQueueTopic::push
    acked,      \* the versionstamp a push returned
    mark,       \* where an acknowledged push's entry in hot_topics is: "hot" in the
                \* set, "taken" by the flush thread; "keyed" or "lost" is history
    sse,        \* state of the SseTask of each client
    seq,        \* SseTask.seq
    noWait,     \* ~SseTask.wait
    limit,      \* SseTask.n
    seen,       \* the counter as of the pop's transaction
    batch,      \* messages popped and not yet sent
    open,       \* the client's connection
    pipe,       \* events sent and not yet received
    lastId,     \* the client's last event id
    start,      \* history: the first id the client received
    received,   \* history: the messages the client received
    faults      \* faults so far

pubVars == <<store, counter, version, push, acked, mark>>
subVars == <<sse, seq, noWait, limit, seen, batch, open, pipe, lastId, start, received>>
vars == <<pubVars, subVars, faults>>

Datum == [seq : Nat, msg : Messages]
Event == [id : Nat, msg : Messages \cup {None}]

TypeOK ==
    /\ store \subseteq Datum
    /\ counter \in Nat /\ version \in Nat
    /\ push \in [Messages -> {"new", "trying", "committed", "acked", "failed"}]
    /\ acked \in [Messages -> Nat]
    /\ mark \in [Messages -> {"none", "hot", "taken", "keyed", "lost"}]
    /\ sse \in [Subs -> {"off", "reading", "arming", "watching", "sending"}]
    /\ seq \in [Subs -> Nat]
    /\ noWait \in [Subs -> BOOLEAN]
    /\ limit \in [Subs -> 0..MaxBatch]
    /\ seen \in [Subs -> Nat]
    /\ batch \in [Subs -> SUBSET Datum]
    /\ open \in [Subs -> BOOLEAN]
    /\ pipe \in [Subs -> Seq(Event)]
    /\ lastId \in [Subs -> Nat \cup {None}]
    /\ start \in [Subs -> Nat \cup {None}]
    /\ received \in [Subs -> Seq(Datum)]
    /\ faults \in 0..MaxFaults

Init ==
    /\ store = {} /\ counter = 0 /\ version = 0
    /\ push = [m \in Messages |-> "new"]
    /\ acked = [m \in Messages |-> 0]
    /\ mark = [m \in Messages |-> "none"]
    /\ sse = [s \in Subs |-> "off"]
    /\ seq = [s \in Subs |-> 0]
    /\ noWait = [s \in Subs |-> FALSE]
    /\ limit = [s \in Subs |-> 0]
    /\ seen = [s \in Subs |-> 0]
    /\ batch = [s \in Subs |-> {}]
    /\ open = [s \in Subs |-> FALSE]
    /\ pipe = [s \in Subs |-> <<>>]
    /\ lastId = [s \in Subs |-> None]
    /\ start = [s \in Subs |-> None]
    /\ received = [s \in Subs |-> <<>>]
    /\ faults = 0

Fault == faults < MaxFaults /\ faults' = faults + 1

\* The acknowledged pushes whose entry in hot_topics is at `where'
Marked(where) == {m \in Messages : mark[m] = where}

Move(from, to) ==
    mark' = [m \in Messages |-> IF mark[m] \in from THEN to ELSE mark[m]]

-----------------------------------------------------------------------------
(* Faulty variants: plausible mistakes in the definitions below, which the *)
(* properties at the end of the module must reject.                        *)

\* the message is stored under the read version of its transaction
Write_ReadVersion(m, v) ==
    /\ store' = store \cup {[seq |-> version, msg |-> m]}
    /\ counter' = v
    /\ version' = v

\* the set is emptied after the commit, with what was added to it meanwhile
FlushCommit_ClearAfter ==
    /\ Marked("taken") # {}
    /\ mark' = [m \in Messages |-> IF mark[m] = "taken" THEN "keyed"
                                  ELSE IF mark[m] = "hot" THEN "none" ELSE mark[m]]
    /\ UNCHANGED <<store, counter, version, push, acked, subVars, faults>>

\* the watch is on the value at the commit, not on the one that was read
Arm_Late(s) ==
    /\ sse[s] = "arming"
    /\ sse' = [sse EXCEPT ![s] = "watching"]
    /\ seen' = [seen EXCEPT ![s] = counter]
    /\ UNCHANGED <<seq, noWait, limit, batch, open, pipe, lastId, start, received, pubVars, faults>>

\* the position moves to the counter instead of the last message sent
SendSse_ToCounter(s) ==
    /\ sse[s] = "sending"
    /\ \E d \in batch[s] :
          /\ \A x \in batch[s] : d.seq <= x.seq
          /\ pipe' = [pipe EXCEPT ![s] = Append(@, [id |-> d.seq, msg |-> d.msg])]
          /\ batch' = [batch EXCEPT ![s] = @ \ {d}]
          /\ IF batch[s] # {d} THEN UNCHANGED <<sse, seq>>
             ELSE /\ sse' = [sse EXCEPT ![s] = IF noWait[s] THEN "off" ELSE "reading"]
                  /\ seq' = [seq EXCEPT ![s] = seen[s]]
    /\ UNCHANGED <<noWait, limit, seen, open, lastId, start, received, pubVars, faults>>

-----------------------------------------------------------------------------
(* Publishers: MessageQueueTopic::push, and the flush thread.              *)

\* The mutations of one committed transaction: SetVersionstampedKey for the
\* message and SetVersionstampedValue for the counter
Write(m, v) ==
    /\ store' = store \cup {[seq |-> v, msg |-> m]}
    /\ counter' = v
    /\ version' = v

\* faulty variant: the versionstamp of the attempt before is returned
PushCommit_StaleStamp(m) ==
    /\ push[m] \in {"new", "trying"}
    /\ \E gap \in 1..MaxGap : Write(m, version + gap)
    /\ acked' = [acked EXCEPT ![m] = version]
    /\ push' = [push EXCEPT ![m] = "committed"]
    /\ UNCHANGED <<mark, subVars, faults>>

Pushing(m) == push[m] \in {"new", "trying"}

\* txn.commit() = Ok
PushCommit(m) ==
    /\ Pushing(m)
    /\ \E gap \in 1..MaxGap :
          /\ Write(m, version + gap)
          /\ acked' = [acked EXCEPT ![m] = version + gap]
    /\ push' = [push EXCEPT ![m] = "committed"]
    /\ UNCHANGED <<mark, subVars, faults>>

\* commit_unknown_result and other retryable errors: the transaction may have
\* been applied, and on_error starts it over
PushRetry(m) ==
    /\ Pushing(m) /\ Fault
    /\ \/ \E gap \in 1..MaxGap : Write(m, version + gap)
       \/ UNCHANGED <<store, counter, version>>
    /\ push' = [push EXCEPT ![m] = "trying"]
    /\ UNCHANGED <<acked, mark, subVars>>

\* on_error gives up
PushFail(m) ==
    /\ Pushing(m) /\ Fault
    /\ push' = [push EXCEPT ![m] = "failed"]
    /\ UNCHANGED <<store, counter, version, acked, mark, subVars>>

\* hot_topics.insert, then return the versionstamp
PushAck(m) ==
    /\ push[m] = "committed"
    /\ push' = [push EXCEPT ![m] = "acked"]
    /\ mark' = [mark EXCEPT ![m] = "hot"]
    /\ UNCHANGED <<store, counter, version, acked, subVars, faults>>

\* versionstamp_fut fails: an error for a message that is stored and delivered,
\* and whose topic is not entered into hot_topics
PushStampError(m) ==
    /\ push[m] = "committed" /\ Fault
    /\ push' = [push EXCEPT ![m] = "failed"]
    /\ UNCHANGED <<store, counter, version, acked, mark, subVars>>

\* flush_hot_topics: take the set, once the last flush is over
FlushTake ==
    /\ Marked("hot") # {} /\ Marked("taken") = {}
    /\ Move({"hot"}, "taken")
    /\ UNCHANGED <<store, counter, version, push, acked, subVars, faults>>

\* ... commit the hot keys
FlushCommit ==
    /\ Marked("taken") # {}
    /\ Move({"taken"}, "keyed")
    /\ UNCHANGED <<store, counter, version, push, acked, subVars, faults>>

\* ... or fail for good, before or after the commit was applied: what was taken
\* is not put back
FlushFail ==
    /\ Marked("taken") # {} /\ Fault
    /\ Move({"taken"}, "keyed") \/ Move({"taken"}, "lost")
    /\ UNCHANGED <<store, counter, version, push, acked, subVars>>

-----------------------------------------------------------------------------
(* handle_sse and SseTask::run.                                            *)

\* The sizes of no_wait's batch_size that handle_sse accepts; it answers the others
\* with "batch_size out of range"
BatchSizeOk(n) == ~(n < MinBatch \/ n > MinBatch)

\* handle_sse does not get to a stream: the application refuses the client, or
\* the invocation that asks it or the read of the counter fails
ConnectError(s) ==
    /\ ~open[s] /\ Fault
    /\ UNCHANGED <<pubVars, subVars>>

\* GET /_blueboat/events, past the checks: start at the last event id, or at the end of the
\* topic; the init event carries the position
Connect(s) ==
    /\ ~open[s]
    /\ \/ noWait' = [noWait EXCEPT ![s] = FALSE] /\ limit' = [limit EXCEPT ![s] = MaxBatch]
       \/ /\ s \in Pollers
          /\ noWait' = [noWait EXCEPT ![s] = TRUE]
          /\ \E n \in {k \in MinBatch..MaxBatch : BatchSizeOk(k)} \cup {MaxBatch} :
                limit' = [limit EXCEPT ![s] = n]
    /\ LET from == IF lastId[s] = None THEN counter ELSE lastId[s]
       IN  /\ seq' = [seq EXCEPT ![s] = from]
           /\ pipe' = [pipe EXCEPT ![s] = <<[id |-> from, msg |-> None]>>]
    /\ open' = [open EXCEPT ![s] = TRUE]
    /\ sse' = [sse EXCEPT ![s] = "reading"]
    /\ UNCHANGED <<seen, batch, lastId, start, received, pubVars, faults>>

\* The first `n' messages beyond position `from'
Beyond(from, n) ==
    LET avail == {d \in store : d.seq > from}
    IN  {d \in avail : Cardinality({x \in avail : x.seq < d.seq}) < n}

\* MessageQueueTopic::pop reads counter and range at one read version; the read
\* may stop short of the limit, at its limit of bytes, but not before one row
Pop(s) ==
    /\ sse[s] = "reading"
    /\ \E n \in 1..limit[s] :
          LET got == IF counter > seq[s] THEN Beyond(seq[s], n) ELSE {}
          IN  /\ batch' = [batch EXCEPT ![s] = got]
              /\ sse' = [sse EXCEPT ![s] =
                    IF got # {} THEN "sending"
                    ELSE IF noWait[s] \/ counter \notin {0, seq[s]}
                         THEN "off"  \* "no more data", "current_seq is less than from_seq"
                    ELSE "arming"]
    /\ seen' = [seen EXCEPT ![s] = counter]
    /\ UNCHANGED <<seq, noWait, limit, open, pipe, lastId, start, received, pubVars, faults>>

\* txn.watch + commit: the watch is on the value the transaction read
Arm(s) ==
    /\ sse[s] = "arming"
    /\ sse' = [sse EXCEPT ![s] = "watching"]
    /\ UNCHANGED <<seq, noWait, limit, seen, batch, open, pipe, lastId, start, received, pubVars, faults>>

\* watch.await: pop starts over in a new transaction
WatchFire(s) ==
    /\ sse[s] = "watching" /\ counter # seen[s]
    /\ sse' = [sse EXCEPT ![s] = "reading"]
    /\ UNCHANGED <<seq, noWait, limit, seen, batch, open, pipe, lastId, start, received, pubVars, faults>>

\* 15s pass: the pop is dropped wherever it is, and started again
Heartbeat(s) ==
    /\ sse[s] \in {"arming", "watching"}
    /\ sse' = [sse EXCEPT ![s] = "reading"]
    /\ UNCHANGED <<seq, noWait, limit, seen, batch, open, pipe, lastId, start, received, pubVars, faults>>

\* Messages go out in order; the position moves when the batch is through
SendSse(s) ==
    /\ sse[s] = "sending"
    /\ \E d \in batch[s] :
          /\ \A x \in batch[s] : d.seq <= x.seq
          /\ pipe' = [pipe EXCEPT ![s] = Append(@, [id |-> d.seq, msg |-> d.msg])]
          /\ batch' = [batch EXCEPT ![s] = @ \ {d}]
          /\ IF batch[s] # {d} THEN UNCHANGED <<sse, seq>>
             ELSE /\ sse' = [sse EXCEPT ![s] = IF noWait[s] THEN "off" ELSE "reading"]
                  /\ seq' = [seq EXCEPT ![s] = d.seq]
    /\ UNCHANGED <<noWait, limit, seen, open, lastId, start, received, pubVars, faults>>

\* A transaction or watch of the pop fails for good: the task returns
PopError(s) ==
    /\ sse[s] \in {"reading", "arming", "watching"} /\ Fault
    /\ sse' = [sse EXCEPT ![s] = "off"]
    /\ UNCHANGED <<seq, noWait, limit, seen, batch, open, pipe, lastId, start, received, pubVars>>

-----------------------------------------------------------------------------
(* The client (an EventSource) and its connection.                         *)

Receive(s) ==
    /\ open[s] /\ pipe[s] # <<>>
    /\ LET e == Head(pipe[s])
       IN  /\ lastId' = [lastId EXCEPT ![s] = e.id]
           /\ start' = [start EXCEPT ![s] = IF @ = None THEN e.id ELSE @]
           /\ received' = [received EXCEPT ![s] =
                 IF e.msg = None THEN @ ELSE Append(@, [seq |-> e.id, msg |-> e.msg])]
    /\ pipe' = [pipe EXCEPT ![s] = Tail(@)]
    /\ UNCHANGED <<sse, seq, noWait, limit, seen, batch, open, pubVars, faults>>

\* The fields of an SseTask go with it
TaskGone(gone) ==
    /\ seq' = [s \in Subs |-> IF s \in gone THEN 0 ELSE seq[s]]
    /\ noWait' = [s \in Subs |-> s \notin gone /\ noWait[s]]
    /\ limit' = [s \in Subs |-> IF s \in gone THEN 0 ELSE limit[s]]
    /\ seen' = [s \in Subs |-> IF s \in gone THEN 0 ELSE seen[s]]

\* The body ends once the task has returned
Eof(s) ==
    /\ open[s] /\ pipe[s] = <<>> /\ sse[s] = "off"
    /\ open' = [open EXCEPT ![s] = FALSE]
    /\ TaskGone({s})
    /\ UNCHANGED <<sse, batch, pipe, lastId, start, received, pubVars, faults>>

\* The connection breaks: what is in it is lost, and the task stops when
\* poll_ready or the next send tells it so, without any effect until then
NetDrop(s) ==
    /\ open[s] /\ Fault
    /\ open' = [open EXCEPT ![s] = FALSE]
    /\ pipe' = [pipe EXCEPT ![s] = <<>>]
    /\ sse' = [sse EXCEPT ![s] = "off"]
    /\ batch' = [batch EXCEPT ![s] = {}]
    /\ TaskGone({s})
    /\ UNCHANGED <<lastId, start, received, pubVars>>

\* The host process is replaced: tasks, connections, publishers at work and the
\* hot topics in memory are gone
HostRestart ==
    /\ Fault
    /\ push' = [m \in Messages |-> IF push[m] \in {"trying", "committed"} THEN "failed" ELSE push[m]]
    /\ Move({"hot", "taken"}, "lost")
    /\ open' = [s \in Subs |-> FALSE]
    /\ pipe' = [s \in Subs |-> <<>>]
    /\ sse' = [s \in Subs |-> "off"]
    /\ batch' = [s \in Subs |-> {}]
    /\ TaskGone(Subs)
    /\ UNCHANGED <<store, counter, version, acked, lastId, start, received>>

-----------------------------------------------------------------------------
Publish(m) == PushCommit(m) \/ PushRetry(m) \/ PushFail(m) \/ PushAck(m) \/ PushStampError(m)

Flush == FlushTake \/ FlushCommit \/ FlushFail

Serve(s) ==
    \/ Connect(s) \/ ConnectError(s) \/ Pop(s) \/ Arm(s) \/ WatchFire(s) \/ Heartbeat(s) \/ SendSse(s)
    \/ PopError(s)

Client(s) == Receive(s) \/ Eof(s) \/ NetDrop(s)

Next ==
    \/ \E m \in Messages : Publish(m)
    \/ Flush
    \/ \E s \in Subs : Serve(s) \/ Client(s)
    \/ HostRestart

(***************************************************************************)
(* Tasks run, watches on a changed value fire, the network delivers, and a *)
(* client reconnects, which the application goes on to allow.  Publishers  *)
(* are free not to publish; heartbeats and faults need not happen.         *)
(***************************************************************************)
Fairness ==
    /\ \A m \in Messages : WF_vars(PushAck(m))
    /\ WF_vars(FlushTake) /\ WF_vars(FlushCommit)
    /\ \A s \in Subs :
          /\ WF_vars(Connect(s)) /\ WF_vars(Pop(s)) /\ WF_vars(Arm(s))
          /\ WF_vars(WatchFire(s)) /\ WF_vars(SendSse(s))
          /\ WF_vars(Receive(s)) /\ WF_vars(Eof(s))

Spec == Init /\ [][Next]_vars

FairSpec == Spec /\ Fairness

-----------------------------------------------------------------------------
(* Properties.                                                             *)

\* What a client has received is exactly what was published between the first
\* and the last id it has seen, each message once and in order, whatever
\* disconnections, heartbeats, retries and restarts there were.
GaplessInOrder ==
    \A s \in Subs : start[s] # None =>
        /\ \A i, j \in 1..Len(received[s]) : i < j => received[s][i].seq < received[s][j].seq
        /\ {received[s][i] : i \in 1..Len(received[s])} =
              {d \in store : start[s] < d.seq /\ d.seq <= lastId[s]}

\* The id a publisher gets back is the id its message is delivered under.
AckIdentifies ==
    \A m \in Messages :
        push[m] = "acked" => [seq |-> acked[m], msg |-> m] \in store

\* No message appears behind the position of an SSE task or client.
NothingBehindCursor ==
    [][\A d \in store' \ store, s \in Subs :
          /\ sse[s] # "off" => d.seq > seq[s]
          /\ lastId[s] # None => d.seq > lastId[s]]_vars

\* No wakeup is lost: a client that keeps reconnecting has, again and again,
\* received everything beyond its first id.
EverySubscriberCatchesUp ==
    \A s \in Subs : []<>(start[s] # None =>
        \A d \in store : d.seq > start[s] => \E i \in 1..Len(received[s]) : received[s][i] = d)

\* Every acknowledged push has its topic flagged by a flush that took the set
\* after it, unless that very flush fails or the host restarts before: a flush
\* that fails loses what it took and nothing else, so that a push acknowledged
\* while it ran, or after it failed, is flagged by the next.
AckedBecomesHot ==
    /\ \A m \in Messages : push[m] = "acked" ~> mark[m] \in {"keyed", "lost"}
    /\ [][\A m \in Messages : mark[m] = "hot" /\ mark'[m] = "lost" => HostRestart]_vars

=============================================================================

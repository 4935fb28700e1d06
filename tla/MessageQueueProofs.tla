------------------------- MODULE MessageQueueProofs -------------------------
(***************************************************************************)
(* Proofs about MessageQueue, for every set of messages and clients, every *)
(* batch size and any number of faults.                                    *)
(***************************************************************************)
EXTENDS MessageQueue, FiniteSetTheorems, TLAPS

\* Versionstamps only grow, and name one message each.
StoreInv ==
    /\ counter = version
    /\ IsFiniteSet(store)
    /\ \A d \in store : d.seq <= version
    /\ \A d, e \in store : d.seq = e.seq => d = e

\* The position of a client's stream: the last id in its pipe, or received.
Pos(s) == IF pipe[s] = <<>> THEN lastId[s] ELSE pipe[s][Len(pipe[s])].id

\* Nobody is ahead of the database.
NotAhead(s) ==
    /\ seq[s] <= version
    /\ lastId[s] # None => lastId[s] <= version
    /\ \A i \in 1..Len(pipe[s]) : pipe[s][i].id <= version

NoneBetween(a, b) == \A d \in store : ~(a < d.seq /\ d.seq < b)

\* The pipe goes on where the client is, and skips nothing.
Chain(s) ==
    /\ \A i \in 1..Len(pipe[s]) :
          pipe[s][i].msg # None => [seq |-> pipe[s][i].id, msg |-> pipe[s][i].msg] \in store
    /\ \A i \in 1..Len(pipe[s]) : i # 1 =>
          /\ pipe[s][i].msg # None
          /\ pipe[s][i - 1].id < pipe[s][i].id
          /\ NoneBetween(pipe[s][i - 1].id, pipe[s][i].id)
    /\ pipe[s] # <<>> =>
          IF pipe[s][1].msg = None THEN lastId[s] \in {None, pipe[s][1].id}
          ELSE /\ lastId[s] # None /\ lastId[s] < pipe[s][1].id
               /\ NoneBetween(lastId[s], pipe[s][1].id)

\* The task goes on where the pipe ends; a batch leaves nothing out before its
\* last message.
Serving(s) ==
    /\ sse[s] # "off" => open[s]
    /\ ~open[s] => pipe[s] = <<>>
    /\ open[s] /\ pipe[s] = <<>> => lastId[s] # None
    /\ sse[s] \in {"reading", "arming", "watching"} => seq[s] = Pos(s)
    /\ sse[s] = "sending" =>
          \A d \in batch[s] : /\ d \in store /\ Pos(s) < d.seq
                              /\ \A x \in store : Pos(s) < x.seq /\ x.seq < d.seq => x \in batch[s]

\* What the client has, up to where it is.
Delivered(s) ==
    /\ start[s] = None <=> lastId[s] = None
    /\ start[s] = None => received[s] = <<>>
    /\ start[s] # None =>
          /\ start[s] <= lastId[s]
          /\ \A i, j \in 1..Len(received[s]) : i < j => received[s][i].seq < received[s][j].seq
          /\ \A i \in 1..Len(received[s]) :
                received[s][i] \in store /\ start[s] < received[s][i].seq
                                         /\ received[s][i].seq <= lastId[s]
          /\ \A d \in store : start[s] < d.seq /\ d.seq <= lastId[s] =>
                \E i \in 1..Len(received[s]) : received[s][i] = d

StreamInv(s) == NotAhead(s) /\ Chain(s) /\ Serving(s) /\ Delivered(s)

\* A push that was committed, or acknowledged, has its message in the store.
AckInv ==
    \A m \in Messages :
        push[m] \in {"committed", "acked"} => [seq |-> acked[m], msg |-> m] \in store

Inductive == TypeOK /\ StoreInv /\ AckInv /\ \A s \in Subs : StreamInv(s)

-----------------------------------------------------------------------------
(* Types, the store, and what a push returns.                              *)

LEMMA EmptySeqs == <<>> \in Seq(Event) /\ <<>> \in Seq(Datum)
OBVIOUS

LEMMA InitInductive == Init => Inductive
<1> SUFFICES ASSUME Init PROVE Inductive  OBVIOUS
<1> USE DEF Init
<1>1. TypeOK
  <2>1. noWait \in [Subs -> BOOLEAN] /\ open \in [Subs -> BOOLEAN]  OBVIOUS
  <2>2. faults \in 0..MaxFaults  BY BoundsAssumption
  <2>3. pipe \in [Subs -> Seq(Event)] /\ received \in [Subs -> Seq(Datum)]
    BY EmptySeqs
  <2>4. batch \in [Subs -> SUBSET Datum] /\ limit \in [Subs -> 0..MaxBatch]
    BY BatchAssumption
  <2>5. mark \in [Messages -> {"none", "hot", "taken", "keyed", "lost"}]  OBVIOUS
  <2>6. /\ push \in [Messages -> {"new", "trying", "committed", "acked", "failed"}]
        /\ sse \in [Subs -> {"off", "reading", "arming", "watching", "sending"}]
    OBVIOUS
  <2>7. /\ acked \in [Messages -> Nat] /\ seq \in [Subs -> Nat] /\ seen \in [Subs -> Nat]
        /\ lastId \in [Subs -> Nat \cup {None}] /\ start \in [Subs -> Nat \cup {None}]
        /\ counter \in Nat /\ version \in Nat /\ store \subseteq Datum
    OBVIOUS
  <2> QED  BY <2>1, <2>2, <2>3, <2>4, <2>5, <2>6, <2>7 DEF TypeOK
<1>2. StoreInv /\ AckInv
  BY FS_EmptySet DEF StoreInv, AckInv
<1>3. ASSUME NEW s \in Subs PROVE StreamInv(s)
  BY <1>3 DEF StreamInv, NotAhead, Chain, Serving, Delivered
<1> QED  BY <1>1, <1>2, <1>3 DEF Inductive

LEMMA EventTypes ==
    ASSUME TypeOK, NEW s \in Subs
    PROVE  /\ Len(pipe[s]) \in Nat
           /\ \A i \in 1..Len(pipe[s]) :
                 /\ pipe[s][i] \in Event
                 /\ pipe[s][i].id \in Nat /\ pipe[s][i].msg \in Messages \cup {None}
           /\ \A d \in store : d \in Datum /\ d.seq \in Nat /\ d.msg \in Messages
           /\ \A d \in batch[s] : d \in Datum /\ d.seq \in Nat /\ d.msg \in Messages
<1>1. pipe[s] \in Seq(Event) /\ store \subseteq Datum /\ batch[s] \subseteq Datum
  BY DEF TypeOK
<1>2. (\A e \in Event : e.id \in Nat /\ e.msg \in Messages \cup {None})
      /\ \A d \in Datum : d.seq \in Nat /\ d.msg \in Messages
  BY DEF Event, Datum
<1> QED  BY <1>1, <1>2

\* A committed write is new, and beyond everything there is.
LEMMA WriteNew ==
    ASSUME TypeOK, StoreInv, NEW m \in Messages, NEW gap \in 1..MaxGap, Write(m, version + gap)
    PROVE  /\ store' = store \cup {[seq |-> version + gap, msg |-> m]}
           /\ version' \in Nat /\ version' > version
           /\ store' \subseteq Datum
           /\ \A d \in store' \ store : d.seq > version /\ d.seq = version'
           /\ StoreInv'
<1>1. /\ store' = store \cup {[seq |-> version + gap, msg |-> m]}
      /\ counter' = version + gap /\ version' = version + gap
  BY DEF Write
<1>2. gap \in Nat /\ gap > 0 /\ version \in Nat /\ store \subseteq Datum
  BY BoundsAssumption DEF TypeOK
<1>3. [seq |-> version + gap, msg |-> m] \in Datum
  BY <1>2 DEF Datum
<1>4. IsFiniteSet(store')
  BY <1>1, FS_AddElement DEF StoreInv
<1>5. \A d \in store : d.seq \in Nat
  BY <1>2 DEF Datum
<1>6. (\A d \in store' : d.seq <= version') /\ \A d, e \in store' : d.seq = e.seq => d = e
  BY <1>1, <1>2, <1>5 DEF StoreInv
<1> QED  BY <1>1, <1>2, <1>3, <1>4, <1>6 DEF StoreInv

LEMMA FaultType == TypeOK /\ (Fault \/ UNCHANGED faults) => faults' \in 0..MaxFaults
BY BoundsAssumption DEF TypeOK, Fault

LEMMA PublishStep ==
    ASSUME Inductive, NEW m \in Messages, Publish(m)
    PROVE  TypeOK' /\ StoreInv' /\ AckInv'
<1> USE DEF Inductive
<1>1. ASSUME NEW gap \in 1..MaxGap, PushCommit(m), Write(m, version + gap),
             acked' = [acked EXCEPT ![m] = version + gap]
      PROVE  TypeOK' /\ StoreInv' /\ AckInv'
  <2>1. version + gap \in Nat
    BY BoundsAssumption DEF TypeOK
  <2>2. TypeOK'
    BY <1>1, <2>1, WriteNew DEF PushCommit, TypeOK, subVars, Write
  <2>3. AckInv'
    BY <1>1, <2>1, WriteNew DEF PushCommit, TypeOK, AckInv
  <2> QED  BY <1>1, <2>2, <2>3, WriteNew
<1>2. CASE PushRetry(m)
  <2>1. CASE \E gap \in 1..MaxGap : Write(m, version + gap)
    <3>1. PICK gap \in 1..MaxGap : Write(m, version + gap)
      BY <2>1
    <3>2. TypeOK'
      BY <1>2, <3>1, WriteNew, FaultType DEF PushRetry, TypeOK, subVars, Write
    <3>3. AckInv'
      BY <1>2, <3>1, WriteNew DEF PushRetry, TypeOK, AckInv
    <3> QED  BY <3>1, <3>2, <3>3, WriteNew
  <2>2. CASE UNCHANGED <<store, counter, version>>
    BY <1>2, <2>2, FaultType DEF PushRetry, TypeOK, StoreInv, AckInv, subVars
  <2> QED  BY <1>2, <2>1, <2>2 DEF PushRetry
<1>3. CASE PushFail(m)
  BY <1>3, FaultType DEF PushFail, TypeOK, StoreInv, AckInv, subVars
<1>4. CASE PushAck(m)
  BY <1>4 DEF PushAck, TypeOK, StoreInv, AckInv, subVars
<1>5. CASE PushStampError(m)
  BY <1>5, FaultType DEF PushStampError, TypeOK, StoreInv, AckInv, subVars
<1> QED  BY <1>1, <1>2, <1>3, <1>4, <1>5 DEF Publish, PushCommit

LEMMA TaskGoneType ==
    ASSUME TypeOK, NEW gone, TaskGone(gone)
    PROVE  /\ seq' \in [Subs -> Nat] /\ limit' \in [Subs -> 0..MaxBatch]
           /\ noWait' \in [Subs -> BOOLEAN] /\ seen' \in [Subs -> Nat]
<1>1. 0 \in 0..MaxBatch  BY BatchAssumption
<1> QED  BY <1>1 DEF TypeOK, TaskGone

\* What the steps of the clients and their tasks leave alone.
LEMMA ServeType ==
    ASSUME Inductive, NEW s \in Subs, Serve(s) \/ Client(s)
    PROVE  TypeOK' /\ StoreInv' /\ AckInv'
<1> USE DEF Inductive
<1>1. UNCHANGED pubVars
  BY DEF Serve, Client, Connect, ConnectError, Pop, Arm, WatchFire, Heartbeat, SendSse,
         PopError, Receive, Eof, NetDrop
<1>2. StoreInv' /\ AckInv'
  BY <1>1 DEF pubVars, StoreInv, AckInv
<1>3. CASE Connect(s)
  <2>1. limit' \in [Subs -> 0..MaxBatch] /\ noWait' \in [Subs -> BOOLEAN]
    <3>1. MaxBatch \in 0..MaxBatch /\ MinBatch..MaxBatch \subseteq 0..MaxBatch
      BY BatchAssumption
    <3>2. \E n \in 0..MaxBatch : limit' = [limit EXCEPT ![s] = n]
      <4>1. CASE limit' = [limit EXCEPT ![s] = MaxBatch]
        BY <3>1, <4>1
      <4>2. CASE \E n \in {k \in MinBatch..MaxBatch : BatchSizeOk(k)} \cup {MaxBatch} :
                    limit' = [limit EXCEPT ![s] = n]
        BY <3>1, <4>2
      <4> QED  BY <1>3, <4>1, <4>2 DEF Connect
    <3>3. noWait' \in [Subs -> BOOLEAN]
      BY <1>3 DEF Connect, TypeOK
    <3>4. limit \in [Subs -> 0..MaxBatch]
      BY DEF TypeOK
    <3> QED  BY <3>2, <3>3, <3>4
  <2> DEFINE from == IF lastId[s] = None THEN counter ELSE lastId[s]
  <2>2. from \in Nat
    BY DEF TypeOK
  <2>3. <<[id |-> from, msg |-> None]>> \in Seq(Event)
    BY <2>2 DEF Event
  <2>4. pipe' \in [Subs -> Seq(Event)] /\ seq' \in [Subs -> Nat]
    BY <1>3, <2>2, <2>3 DEF Connect, TypeOK
  <2> QED  BY <1>1, <1>2, <1>3, <2>1, <2>4 DEF Connect, TypeOK, pubVars
<1>4. CASE Pop(s)
  <2>1. \A n : Beyond(seq[s], n) \subseteq store
    BY DEF Beyond
  <2>2. batch' \in [Subs -> SUBSET Datum]
    BY <1>4, <2>1 DEF Pop, TypeOK
  <2>3. sse' \in [Subs -> {"off", "reading", "arming", "watching", "sending"}]
    BY <1>4 DEF Pop, TypeOK
  <2> QED  BY <1>1, <1>2, <1>4, <2>2, <2>3 DEF Pop, TypeOK, pubVars
<1>5. CASE Arm(s) \/ WatchFire(s) \/ Heartbeat(s) \/ PopError(s)
  BY <1>1, <1>2, <1>5, FaultType DEF Arm, WatchFire, Heartbeat, PopError, TypeOK, pubVars
<1>6. CASE SendSse(s)
  <2>1. PICK d \in batch[s] :
          /\ pipe' = [pipe EXCEPT ![s] = Append(@, [id |-> d.seq, msg |-> d.msg])]
          /\ batch' = [batch EXCEPT ![s] = @ \ {d}]
          /\ IF batch[s] # {d} THEN UNCHANGED <<sse, seq>>
             ELSE /\ sse' = [sse EXCEPT ![s] = IF noWait[s] THEN "off" ELSE "reading"]
                  /\ seq' = [seq EXCEPT ![s] = d.seq]
    BY <1>6 DEF SendSse
  <2>2. d.seq \in Nat /\ d.msg \in Messages
    BY EventTypes
  <2>3. [id |-> d.seq, msg |-> d.msg] \in Event
    BY <2>2 DEF Event
  <2>4. pipe' \in [Subs -> Seq(Event)]
    BY <2>1, <2>3 DEF TypeOK
  <2>5. batch' \in [Subs -> SUBSET Datum] /\ seq' \in [Subs -> Nat]
        /\ sse' \in [Subs -> {"off", "reading", "arming", "watching", "sending"}]
    BY <2>1, <2>2 DEF TypeOK
  <2> QED  BY <1>1, <1>2, <1>6, <2>4, <2>5 DEF SendSse, TypeOK, pubVars
<1>7. CASE Receive(s)
  <2> DEFINE e == Head(pipe[s])
  <2>1. e \in Event /\ e.id \in Nat /\ e.msg \in Messages \cup {None}
        /\ Tail(pipe[s]) \in Seq(Event)
    <3>1. pipe[s] \in Seq(Event) /\ pipe[s] # <<>>
      BY <1>7 DEF Receive, TypeOK
    <3>2. e \in Event /\ Tail(pipe[s]) \in Seq(Event)
      BY <3>1
    <3> QED  BY <3>2 DEF Event
  <2>2. pipe' \in [Subs -> Seq(Event)] /\ lastId' \in [Subs -> Nat \cup {None}]
        /\ start' \in [Subs -> Nat \cup {None}]
    BY <1>7, <2>1 DEF Receive, TypeOK
  <2>3. received' \in [Subs -> Seq(Datum)]
    <3>1. CASE e.msg = None
      BY <1>7, <3>1 DEF Receive, TypeOK
    <3>2. CASE e.msg # None
      <4>1. [seq |-> e.id, msg |-> e.msg] \in Datum
        BY <2>1, <3>2 DEF Datum
      <4>2. received[s] \in Seq(Datum)
        BY DEF TypeOK
      <4>3. Append(received[s], [seq |-> e.id, msg |-> e.msg]) \in Seq(Datum)
        BY <4>1, <4>2
      <4> QED  BY <1>7, <3>2, <4>3 DEF Receive, TypeOK
    <3> QED  BY <3>1, <3>2
  <2> QED  BY <1>1, <1>2, <1>7, <2>2, <2>3 DEF Receive, TypeOK, pubVars
<1>8. CASE Eof(s)
  BY <1>1, <1>2, <1>8, TaskGoneType DEF Eof, TypeOK, pubVars
<1>9. CASE NetDrop(s)
  BY <1>1, <1>2, <1>9, TaskGoneType, FaultType, EmptySeqs DEF NetDrop, TypeOK, pubVars
<1>10. CASE ConnectError(s)
  BY <1>1, <1>2, <1>10, FaultType DEF ConnectError, TypeOK, pubVars, subVars
<1> QED  BY <1>3, <1>4, <1>5, <1>6, <1>7, <1>8, <1>9, <1>10 DEF Serve, Client

LEMMA TypeStep == Inductive /\ [Next]_vars => TypeOK' /\ StoreInv' /\ AckInv'
<1> SUFFICES ASSUME Inductive, [Next]_vars PROVE TypeOK' /\ StoreInv' /\ AckInv'  OBVIOUS
<1>1. ASSUME NEW m \in Messages, Publish(m) PROVE TypeOK' /\ StoreInv' /\ AckInv'
  BY <1>1, PublishStep
<1>2. CASE Flush
  BY <1>2, FaultType DEF Flush, FlushTake, FlushCommit, FlushFail, Move, Inductive, TypeOK, StoreInv,
                         AckInv, subVars
<1>3. ASSUME NEW s \in Subs, Serve(s) \/ Client(s) PROVE TypeOK' /\ StoreInv' /\ AckInv'
  BY <1>3, ServeType
<1>4. CASE HostRestart
  <2> USE <1>4 DEF HostRestart, Inductive
  <2>1. StoreInv' /\ AckInv'
    BY DEF StoreInv, AckInv, TypeOK
  <2>2. /\ pipe' \in [Subs -> Seq(Event)] /\ batch' \in [Subs -> SUBSET Datum]
        /\ push' \in [Messages -> {"new", "trying", "committed", "acked", "failed"}]
        /\ sse' \in [Subs -> {"off", "reading", "arming", "watching", "sending"}]
    BY EmptySeqs DEF TypeOK
  <2>3. open' \in [Subs -> BOOLEAN] /\ mark' \in [Messages -> {"none", "hot", "taken", "keyed", "lost"}]
    BY DEF Move, TypeOK
  <2> QED  BY <2>1, <2>2, <2>3, TaskGoneType, FaultType DEF TypeOK
<1>5. CASE UNCHANGED vars
  BY <1>5 DEF vars, pubVars, subVars, Inductive, TypeOK, StoreInv, AckInv
<1> QED  BY <1>1, <1>2, <1>3, <1>4, <1>5 DEF Next

-----------------------------------------------------------------------------
(* The stream of a client, step by step.                                   *)

\* A step that is about neither this client nor the store.
LEMMA SubUnchanged ==
    ASSUME NEW s, StreamInv(s), store' = store, version' = version,
           sse'[s] = sse[s], seq'[s] = seq[s], batch'[s] = batch[s], open'[s] = open[s],
           pipe'[s] = pipe[s], lastId'[s] = lastId[s], start'[s] = start[s],
           received'[s] = received[s]
    PROVE  StreamInv(s)'
<1>1. NotAhead(s)'  BY DEF StreamInv, NotAhead
<1>2. Chain(s)'  BY DEF StreamInv, Chain, NoneBetween
<1>3. Serving(s)'  BY DEF StreamInv, Serving, Pos
<1>4. Delivered(s)'  BY DEF StreamInv, Delivered
<1> QED  BY <1>1, <1>2, <1>3, <1>4 DEF StreamInv

\* The position of a connected client is an id the database gave out.
LEMMA PosType ==
    ASSUME TypeOK, NEW s \in Subs, StreamInv(s), open[s]
    PROVE  Pos(s) \in Nat /\ Pos(s) <= version /\ version \in Nat
<1>1. CASE pipe[s] = <<>>
  BY <1>1 DEF TypeOK, StreamInv, Serving, NotAhead, Pos
<1>2. CASE pipe[s] # <<>>
  <2>1. Len(pipe[s]) \in 1..Len(pipe[s])
    <3>1. pipe[s] \in Seq(Event)  BY DEF TypeOK
    <3> QED  BY <1>2, <3>1
  <2> QED  BY <1>2, <2>1, EventTypes DEF TypeOK, StreamInv, NotAhead, Pos
<1> QED  BY <1>1, <1>2

\* A write is beyond every client, and in no gap of its stream.
LEMMA StreamUnderWrite ==
    ASSUME TypeOK, StoreInv, NEW m \in Messages, NEW gap \in 1..MaxGap, Write(m, version + gap),
           UNCHANGED subVars, NEW s \in Subs, StreamInv(s)
    PROVE  StreamInv(s)'
<1> USE DEF subVars
<1>1. /\ store \subseteq store' /\ version' \in Nat /\ version' > version
      /\ \A d \in store' \ store : d.seq \in Nat /\ d.seq > version
      /\ version \in Nat
  BY WriteNew DEF TypeOK
<1>2. NotAhead(s)'
  <2>1. seq[s] \in Nat /\ (lastId[s] # None => lastId[s] \in Nat)
    BY DEF TypeOK
  <2>2. \A i \in 1..Len(pipe[s]) : pipe[s][i].id \in Nat
    BY EventTypes
  <2> QED  BY <1>1, <2>1, <2>2 DEF StreamInv, NotAhead
<1>3. Chain(s)'
  <2>1. \A a, b \in Nat : b <= version /\ NoneBetween(a, b) => NoneBetween(a, b)'
    BY <1>1 DEF NoneBetween
  <2>2. \A i \in 1..Len(pipe[s]) : i # 1 =>
            i - 1 \in 1..Len(pipe[s]) /\ pipe[s][i - 1].id \in Nat /\ pipe[s][i].id \in Nat
            /\ pipe[s][i].id <= version
    BY EventTypes DEF StreamInv, NotAhead
  <2>3. pipe[s] # <<>> => pipe[s][1].id \in Nat /\ pipe[s][1].id <= version
    <3>1. pipe[s] # <<>> => 1 \in 1..Len(pipe[s])
      <4>1. pipe[s] \in Seq(Event)  BY DEF TypeOK
      <4> QED  BY <4>1
    <3> QED  BY <3>1, EventTypes DEF StreamInv, NotAhead
  <2>4. lastId[s] # None => lastId[s] \in Nat
    BY DEF TypeOK
  <2> QED  BY <1>1, <2>1, <2>2, <2>3, <2>4 DEF StreamInv, Chain
<1>4. Serving(s)'
  <2>1. sse[s] = "sending" => \A d \in batch[s] : d.seq <= version /\ d.seq \in Nat
    BY EventTypes DEF StreamInv, Serving, StoreInv
  <2> QED  BY <1>1, <2>1 DEF StreamInv, Serving, Pos
<1>5. Delivered(s)'
  <2>1. start[s] # None => lastId[s] \in Nat /\ lastId[s] <= version
    BY DEF StreamInv, Delivered, NotAhead, TypeOK
  <2> QED  BY <1>1, <2>1 DEF StreamInv, Delivered
<1> QED  BY <1>2, <1>3, <1>4, <1>5 DEF StreamInv

\* handle_sse starts where the client is, or at the end of the topic.
LEMMA StreamUnderConnect ==
    ASSUME TypeOK, StoreInv, NEW s \in Subs, StreamInv(s), Connect(s)
    PROVE  StreamInv(s)'
<1> DEFINE from == IF lastId[s] = None THEN counter ELSE lastId[s]
<1>1. from \in Nat /\ from <= version
  BY DEF TypeOK, StoreInv, StreamInv, NotAhead
<1>2. /\ pipe'[s] = <<[id |-> from, msg |-> None]>> /\ seq'[s] = from
      /\ open'[s] = TRUE /\ sse'[s] = "reading"
      /\ UNCHANGED <<lastId, start, received, store, version>>
  BY DEF Connect, TypeOK, pubVars
<1>3. /\ Len(pipe'[s]) = 1 /\ pipe'[s][1].id = from /\ pipe'[s][1].msg = None
      /\ pipe'[s] # <<>>
  BY <1>2
<1>4. NotAhead(s)'
  BY <1>1, <1>2, <1>3 DEF StreamInv, NotAhead
<1>5. Chain(s)'
  BY <1>2, <1>3 DEF Chain
<1>6. Serving(s)'
  BY <1>2, <1>3 DEF Serving, Pos
<1>7. Delivered(s)'
  BY <1>2 DEF StreamInv, Delivered
<1> QED  BY <1>4, <1>5, <1>6, <1>7 DEF StreamInv

\* A pop takes the messages next to the position, and leaves none out.
LEMMA BeyondDense ==
    ASSUME TypeOK, StoreInv, NEW from \in Nat, NEW n \in Nat
    PROVE  \A d \in Beyond(from, n) :
              /\ d \in store /\ from < d.seq
              /\ \A x \in store : from < x.seq /\ x.seq < d.seq => x \in Beyond(from, n)
<1> DEFINE avail == {d \in store : d.seq > from}
           below(d) == {x \in avail : x.seq < d.seq}
<1> SUFFICES ASSUME NEW d \in Beyond(from, n)
             PROVE  /\ d \in store /\ from < d.seq
                    /\ \A x \in store : from < x.seq /\ x.seq < d.seq => x \in Beyond(from, n)
  OBVIOUS
<1>1. \A x \in store : x.seq \in Nat
  BY DEF TypeOK, Datum
<1>2. d \in avail /\ Cardinality(below(d)) < n
  BY DEF Beyond
<1>3. ASSUME NEW x \in store, from < x.seq, x.seq < d.seq
      PROVE  x \in Beyond(from, n)
  <2>1. below(x) \subseteq below(d)
    BY <1>1, <1>2, <1>3
  <2>2. IsFiniteSet(below(d))
    BY FS_Subset DEF StoreInv
  <2>3. Cardinality(below(x)) <= Cardinality(below(d))
    BY <2>1, <2>2, FS_Subset
  <2>4. Cardinality(below(x)) \in Nat /\ Cardinality(below(d)) \in Nat
    BY <2>1, <2>2, FS_Subset, FS_CardinalityType
  <2>5. Cardinality(below(x)) < n
    BY <1>2, <2>3, <2>4
  <2>6. x \in avail
    BY <1>1, <1>3
  <2> QED  BY <2>5, <2>6 DEF Beyond
<1> QED  BY <1>1, <1>2, <1>3

LEMMA StreamUnderPop ==
    ASSUME TypeOK, StoreInv, NEW s \in Subs, StreamInv(s), Pop(s)
    PROVE  StreamInv(s)'
<1>0. limit[s] \in Nat /\ \A k \in 1..limit[s] : k \in Nat
  BY BatchAssumption DEF TypeOK
<1>a. PICK n \in 1..limit[s] :
         LET got == IF counter > seq[s] THEN Beyond(seq[s], n) ELSE {}
         IN  /\ batch' = [batch EXCEPT ![s] = got]
             /\ sse' = [sse EXCEPT ![s] =
                   IF got # {} THEN "sending"
                   ELSE IF noWait[s] \/ counter \notin {0, seq[s]} THEN "off"
                   ELSE "arming"]
  BY DEF Pop
<1> DEFINE got == IF counter > seq[s] THEN Beyond(seq[s], n) ELSE {}
<1>1. /\ batch'[s] = got /\ sse'[s] \in {"off", "arming", "sending"}
      /\ sse[s] = "reading"
      /\ UNCHANGED <<seq, open, pipe, lastId, start, received, store, version>>
  BY <1>a DEF Pop, TypeOK, pubVars
<1>2. seq[s] = Pos(s) /\ Pos(s)' = Pos(s) /\ open[s]
  BY <1>1 DEF StreamInv, Serving, Pos
<1>3. seq[s] \in Nat /\ n \in Nat
  BY <1>0 DEF TypeOK
<1>4. \A d \in got : /\ d \in store /\ Pos(s) < d.seq
                     /\ \A x \in store : Pos(s) < x.seq /\ x.seq < d.seq => x \in got
  BY <1>2, <1>3, BeyondDense
<1>5. NotAhead(s)'  BY <1>1 DEF StreamInv, NotAhead
<1>6. Chain(s)'  BY <1>1 DEF StreamInv, Chain, NoneBetween
<1>7. Serving(s)'  BY <1>1, <1>2, <1>4 DEF StreamInv, Serving
<1>8. Delivered(s)'  BY <1>1 DEF StreamInv, Delivered
<1> QED  BY <1>5, <1>6, <1>7, <1>8 DEF StreamInv

LEMMA StreamUnderWait ==
    ASSUME TypeOK, NEW s \in Subs, StreamInv(s),
           Arm(s) \/ WatchFire(s) \/ Heartbeat(s) \/ PopError(s)
    PROVE  StreamInv(s)'
<1>1. /\ sse[s] \in {"reading", "arming", "watching"}
      /\ sse'[s] \in {"reading", "arming", "watching", "off"}
      /\ UNCHANGED <<seq, batch, open, pipe, lastId, start, received, store, version>>
  BY DEF Arm, WatchFire, Heartbeat, PopError, TypeOK, pubVars
<1>2. NotAhead(s)'  BY <1>1 DEF StreamInv, NotAhead
<1>3. Chain(s)'  BY <1>1 DEF StreamInv, Chain, NoneBetween
<1>4. Serving(s)'  BY <1>1 DEF StreamInv, Serving, Pos
<1>5. Delivered(s)'  BY <1>1 DEF StreamInv, Delivered
<1> QED  BY <1>2, <1>3, <1>4, <1>5 DEF StreamInv

\* A message of a batch goes out next to what is in the pipe.
LEMMA StreamUnderSend ==
    ASSUME TypeOK, StoreInv, NEW s \in Subs, StreamInv(s), SendSse(s)
    PROVE  StreamInv(s)'
<1> DEFINE n == Len(pipe[s])
<1>1. PICK d \in batch[s] :
        /\ \A x \in batch[s] : d.seq <= x.seq
        /\ pipe' = [pipe EXCEPT ![s] = Append(@, [id |-> d.seq, msg |-> d.msg])]
        /\ batch' = [batch EXCEPT ![s] = @ \ {d}]
        /\ IF batch[s] # {d} THEN UNCHANGED <<sse, seq>>
           ELSE /\ sse' = [sse EXCEPT ![s] = IF noWait[s] THEN "off" ELSE "reading"]
                /\ seq' = [seq EXCEPT ![s] = d.seq]
  BY DEF SendSse
<1>2. /\ sse[s] = "sending" /\ open[s]
      /\ UNCHANGED <<open, lastId, start, received, store, version>>
  BY DEF SendSse, StreamInv, Serving, pubVars
<1>3. d.seq \in Nat /\ d.msg \in Messages /\ d.msg # None /\ d \in Datum
  BY EventTypes, NoneAssumption
<1>4. /\ d \in store /\ Pos(s) < d.seq /\ d.seq <= version
      /\ \A x \in store : Pos(s) < x.seq /\ x.seq < d.seq => x \in batch[s]
  BY <1>2 DEF StreamInv, Serving, StoreInv
<1>5. Pos(s) \in Nat /\ version \in Nat
  BY <1>2, PosType
<1>6. \A x \in store : x.seq \in Nat
  BY EventTypes
<1>7. NoneBetween(Pos(s), d.seq)
  BY <1>1, <1>3, <1>4, <1>6 DEF NoneBetween
<1>8. /\ n \in Nat /\ Len(pipe'[s]) = n + 1 /\ pipe'[s] # <<>>
      /\ pipe'[s][n + 1].id = d.seq /\ pipe'[s][n + 1].msg = d.msg
      /\ \A i \in 1..n : pipe'[s][i] = pipe[s][i]
      /\ pipe[s] = <<>> <=> n = 0
  <2>1. pipe[s] \in Seq(Event) /\ [id |-> d.seq, msg |-> d.msg] \in Event
    BY <1>3 DEF TypeOK, Event
  <2>2. pipe'[s] = Append(pipe[s], [id |-> d.seq, msg |-> d.msg])
    BY <1>1 DEF TypeOK
  <2> QED  BY <2>1, <2>2
<1>9. \A i \in 1..(n + 1) : i \in 1..n \/ i = n + 1
  BY <1>8
<1>10. Pos(s)' = d.seq
  BY <1>8 DEF Pos
<1>11. /\ \A x \in batch'[s] : x \in batch[s] /\ x # d
       /\ sse'[s] \in {"sending", "off", "reading"}
       /\ sse'[s] = "reading" => seq'[s] = d.seq
       /\ seq'[s] \in {seq[s], d.seq}
  BY <1>1, <1>2 DEF TypeOK
<1>12. NotAhead(s)'
  BY <1>2, <1>4, <1>8, <1>9, <1>11 DEF StreamInv, NotAhead
<1>13. Chain(s)'
  <2>1. d = [seq |-> d.seq, msg |-> d.msg]
    BY <1>3 DEF Datum
  <2>2. \A i \in 1..(n + 1) :
           pipe'[s][i].msg # None => [seq |-> pipe'[s][i].id, msg |-> pipe'[s][i].msg] \in store
    BY <1>4, <1>8, <1>9, <2>1 DEF StreamInv, Chain
  <2>3. ASSUME NEW i \in 1..(n + 1), i # 1
        PROVE  /\ pipe'[s][i].msg # None
               /\ pipe'[s][i - 1].id < pipe'[s][i].id
               /\ NoneBetween(pipe'[s][i - 1].id, pipe'[s][i].id)
    <3>1. CASE i \in 1..n
      <4>1. i - 1 \in 1..n
        BY <1>8, <2>3, <3>1
      <4> QED  BY <1>8, <2>3, <3>1, <4>1 DEF StreamInv, Chain
    <3>2. CASE i = n + 1
      <4>1. n \in 1..n /\ i - 1 = n /\ Pos(s) = pipe[s][n].id
        BY <1>8, <2>3, <3>2 DEF Pos
      <4> QED  BY <1>3, <1>4, <1>7, <1>8, <3>2, <4>1
    <3> QED  BY <1>9, <3>1, <3>2
  <2>4. IF pipe'[s][1].msg = None THEN lastId[s] \in {None, pipe'[s][1].id}
        ELSE /\ lastId[s] # None /\ lastId[s] < pipe'[s][1].id
             /\ NoneBetween(lastId[s], pipe'[s][1].id)
    <3>1. CASE n = 0
      BY <1>2, <1>3, <1>4, <1>7, <1>8, <3>1 DEF Pos, StreamInv, Serving
    <3>2. CASE n # 0
      BY <1>8, <3>2 DEF StreamInv, Chain
    <3> QED  BY <3>1, <3>2
  <2> QED  BY <1>2, <1>8, <2>2, <2>3, <2>4 DEF Chain, NoneBetween
<1>14. Serving(s)'
  <2>1. \A x \in batch'[s] : x \in store /\ x.seq # d.seq /\ d.seq <= x.seq
                               /\ \A y \in store : Pos(s) < y.seq /\ y.seq < x.seq => y \in batch[s]
    BY <1>1, <1>2, <1>4, <1>11 DEF StreamInv, Serving, StoreInv
  <2>2. \A x \in batch'[s] : d.seq < x.seq
    BY <1>3, <1>6, <2>1
  <2>3. ASSUME NEW x \in batch'[s], NEW y \in store, d.seq < y.seq, y.seq < x.seq
        PROVE  y \in batch'[s]
    <3>1. y \in batch[s]
      BY <1>3, <1>4, <1>5, <1>6, <2>1, <2>3
    <3>2. y # d
      BY <1>3, <2>3
    <3> QED  BY <1>1, <3>1, <3>2 DEF TypeOK
  <2> QED  BY <1>2, <1>8, <1>10, <1>11, <2>1, <2>2, <2>3 DEF Serving
<1>15. Delivered(s)'
  BY <1>2 DEF StreamInv, Delivered
<1> QED  BY <1>12, <1>13, <1>14, <1>15 DEF StreamInv

\* The client takes the first event of its pipe.
LEMMA StreamUnderReceive ==
    ASSUME TypeOK, StoreInv, NEW s \in Subs, StreamInv(s), Receive(s)
    PROVE  StreamInv(s)'
<1> DEFINE n == Len(pipe[s])
           e == pipe[s][1]
<1>1. /\ n \in Nat /\ n # 0 /\ pipe[s] # <<>> /\ Head(pipe[s]) = e
      /\ Len(pipe'[s]) = n - 1
      /\ \A i \in 1..(n - 1) : pipe'[s][i] = pipe[s][i + 1]
      /\ pipe'[s] = <<>> <=> n = 1
  <2>1. pipe[s] \in Seq(Event) /\ pipe[s] # <<>> /\ pipe'[s] = Tail(pipe[s])
    BY DEF Receive, TypeOK
  <2>2. n \in Nat \ {0} /\ Head(pipe[s]) = e /\ Len(Tail(pipe[s])) = n - 1
        /\ \A i \in 1..(n - 1) : Tail(pipe[s])[i] = pipe[s][i + 1]
    BY <2>1
  <2>3. Tail(pipe[s]) = <<>> <=> Len(Tail(pipe[s])) = 0
    <3>1. Tail(pipe[s]) \in Seq(Event)  BY <2>1
    <3>2. \A q \in Seq(Event) : q = <<>> <=> Len(q) = 0  OBVIOUS
    <3> QED  BY <3>1, <3>2
  <2> QED  BY <2>1, <2>2, <2>3
<1>2. /\ open[s] /\ UNCHANGED <<sse, seq, batch, open, store, version>>
      /\ lastId'[s] = e.id
      /\ start'[s] = IF start[s] = None THEN e.id ELSE start[s]
      /\ received'[s] = IF e.msg = None THEN received[s]
                        ELSE Append(received[s], [seq |-> e.id, msg |-> e.msg])
  BY <1>1 DEF Receive, TypeOK, pubVars
<1>3. e.id \in Nat /\ e.id <= version /\ e.id # None /\ version \in Nat
  <2>1. 1 \in 1..n
    BY <1>1
  <2> QED  BY <2>1, EventTypes, NoneAssumption DEF StreamInv, NotAhead, TypeOK
<1>4. \A i \in 1..(n - 1) : i \in 1..n /\ i + 1 \in 1..n /\ i + 1 # 1 /\ (i + 1) - 1 = i
  BY <1>1
<1>5. Pos(s)' = Pos(s)
  <2>1. CASE n = 1
    BY <1>1, <1>2, <2>1 DEF Pos
  <2>2. CASE n # 1
    <3>1. n - 1 \in 1..(n - 1) /\ (n - 1) + 1 = n
      BY <1>1, <2>2
    <3>2. pipe'[s][n - 1] = pipe[s][n]
      BY <1>1, <3>1
    <3> QED  BY <1>1, <2>2, <3>2 DEF Pos
  <2> QED  BY <2>1, <2>2
<1>6. NotAhead(s)'
  BY <1>1, <1>2, <1>3, <1>4 DEF StreamInv, NotAhead
<1>7. Chain(s)'
  <2>1. \A i \in 1..(n - 1) :
           pipe'[s][i].msg # None => [seq |-> pipe'[s][i].id, msg |-> pipe'[s][i].msg] \in store
    BY <1>1, <1>4 DEF StreamInv, Chain
  <2>2. ASSUME NEW i \in 1..(n - 1), i # 1
        PROVE  /\ pipe'[s][i].msg # None
               /\ pipe'[s][i - 1].id < pipe'[s][i].id
               /\ NoneBetween(pipe'[s][i - 1].id, pipe'[s][i].id)
    <3>1. i - 1 \in 1..(n - 1) /\ (i - 1) + 1 = i
      BY <1>1, <2>2
    <3>2. pipe'[s][i] = pipe[s][i + 1] /\ pipe'[s][i - 1] = pipe[s][i]
      BY <1>1, <3>1
    <3> QED  BY <1>4, <3>2 DEF StreamInv, Chain
  <2>3. n # 1 => /\ pipe'[s][1].msg # None /\ e.id < pipe'[s][1].id
                 /\ NoneBetween(e.id, pipe'[s][1].id)
    <3>1. n # 1 => 1 \in 1..(n - 1) /\ 2 \in 1..n
      BY <1>1
    <3>2. n # 1 => pipe'[s][1] = pipe[s][2]
      BY <1>1, <3>1
    <3> QED  BY <3>1, <3>2 DEF StreamInv, Chain
  <2> QED  BY <1>1, <1>2, <1>3, <2>1, <2>2, <2>3 DEF Chain, NoneBetween
<1>8. Serving(s)'
  BY <1>2, <1>3, <1>5 DEF StreamInv, Serving
<1>9. Delivered(s)'
  <2>1. CASE e.msg = None /\ start[s] = None
    <3>1. received'[s] = <<>> /\ start'[s] = e.id
      BY <1>2, <2>1 DEF StreamInv, Delivered
    <3>2. \A d \in store : d.seq \in Nat
      BY EventTypes
    <3>3. Len(received'[s]) = 0 /\ start'[s] # None /\ lastId'[s] = e.id /\ store' = store
      BY <1>2, <1>3, <3>1
    <3> QED  BY <1>3, <3>1, <3>2, <3>3 DEF Delivered
  <2>2. CASE e.msg = None /\ start[s] # None
    <3>1. lastId[s] = e.id
      BY <1>1, <2>2 DEF StreamInv, Chain, Delivered
    <3> QED  BY <1>2, <2>2, <3>1 DEF StreamInv, Delivered
  <2>3. CASE e.msg # None
    <3> DEFINE d == [seq |-> e.id, msg |-> e.msg]
               k == Len(received[s])
    <3>1. lastId[s] # None /\ lastId[s] < e.id /\ NoneBetween(lastId[s], e.id) /\ d \in store
      <4>1. 1 \in 1..n
        BY <1>1
      <4> QED  BY <1>1, <2>3, <4>1 DEF StreamInv, Chain
    <3>2. start[s] # None /\ start'[s] = start[s] /\ start[s] \in Nat /\ lastId[s] \in Nat
          /\ start[s] <= lastId[s]
      BY <1>2, <3>1 DEF StreamInv, Delivered, TypeOK
    <3>3. /\ k \in Nat /\ Len(received'[s]) = k + 1 /\ received'[s][k + 1] = d
          /\ \A i \in 1..k : received'[s][i] = received[s][i]
      <4>1. received[s] \in Seq(Datum) /\ d \in Datum
        BY <3>1 DEF TypeOK
      <4> QED  BY <1>2, <2>3, <4>1
    <3>4. \A i \in 1..(k + 1) : i \in 1..k \/ i = k + 1
      BY <3>3
    <3>5. \A x \in store : x.seq \in Nat
      BY EventTypes
    <3>6. \A i \in 1..k : /\ received[s][i] \in store /\ received[s][i].seq \in Nat
                          /\ start[s] < received[s][i].seq /\ received[s][i].seq <= lastId[s]
                          /\ received[s][i].seq < e.id
      BY <1>3, <3>1, <3>2, <3>5 DEF StreamInv, Delivered
    <3>7. \A i, j \in 1..(k + 1) : i < j => received'[s][i].seq < received'[s][j].seq
      <4>1. \A i, j \in 1..k : i < j => received[s][i].seq < received[s][j].seq
        BY <3>2 DEF StreamInv, Delivered
      <4>2. ASSUME NEW i \in 1..k, NEW j \in {k + 1}
            PROVE  received'[s][i].seq < received'[s][j].seq
        <5>1. received'[s][i] = received[s][i] /\ received[s][i].seq < e.id
          BY <3>3, <3>6
        <5>2. received'[s][j] = d /\ d.seq = e.id
          BY <3>3, <4>2
        <5> QED  BY <5>1, <5>2
      <4>3. \A i, j \in 1..(k + 1) : i < j => i \in 1..k
        BY <3>3
      <4> QED  BY <3>3, <3>4, <4>1, <4>2, <4>3
    <3>8. ASSUME NEW i \in 1..(k + 1)
          PROVE  /\ received'[s][i] \in store /\ start[s] < received'[s][i].seq
                 /\ received'[s][i].seq <= e.id
      <4>1. CASE i \in 1..k
        <5>1. received'[s][i] = received[s][i]
          BY <3>3, <4>1
        <5> QED  BY <1>3, <3>6, <4>1, <5>1
      <4>2. CASE i = k + 1
        <5>1. received'[s][i] = d /\ d.seq = e.id
          BY <3>3, <4>2
        <5> QED  BY <1>3, <3>1, <3>2, <5>1
      <4> QED  BY <3>4, <4>1, <4>2
    <3>9. ASSUME NEW x \in store, start[s] < x.seq, x.seq <= e.id
          PROVE  \E i \in 1..(k + 1) : received'[s][i] = x
      <4>1. CASE x.seq <= lastId[s]
        <5>1. PICK i \in 1..k : received[s][i] = x
          BY <3>2, <3>9, <4>1 DEF StreamInv, Delivered
        <5> QED  BY <3>3, <5>1
      <4>2. CASE ~(x.seq <= lastId[s])
        <5>1. x.seq = d.seq
          BY <1>3, <3>1, <3>2, <3>5, <3>9, <4>2 DEF NoneBetween
        <5>2. x = d
          BY <3>1, <5>1 DEF StoreInv
        <5> QED  BY <3>3, <5>2
      <4> QED  BY <4>1, <4>2
    <3>10. /\ start'[s] = start[s] /\ start'[s] # None /\ lastId'[s] = e.id /\ store' = store
           /\ lastId'[s] # None /\ start[s] <= e.id /\ Len(received'[s]) = k + 1
      BY <1>2, <1>3, <3>1, <3>2, <3>3
    <3> HIDE DEF d, k
    <3> QED  BY <3>7, <3>8, <3>9, <3>10 DEF Delivered
  <2> QED  BY <2>1, <2>2, <2>3
<1> QED  BY <1>6, <1>7, <1>8, <1>9 DEF StreamInv

\* A connection that is gone leaves what the client has.
LEMMA StreamUnderLoss ==
    ASSUME TypeOK, NEW s \in Subs, StreamInv(s), Eof(s) \/ NetDrop(s) \/ HostRestart
    PROVE  StreamInv(s)'
<1>1. /\ pipe'[s] = <<>> /\ open'[s] = FALSE /\ sse'[s] = "off" /\ seq'[s] = 0
      /\ UNCHANGED <<lastId, start, received, store, version>>
  BY DEF Eof, NetDrop, HostRestart, TaskGone, TypeOK, pubVars
<1>2. NotAhead(s)'  BY <1>1 DEF StreamInv, NotAhead, TypeOK
<1>3. Chain(s)'  BY <1>1 DEF Chain
<1>4. Serving(s)'  BY <1>1 DEF Serving
<1>5. Delivered(s)'  BY <1>1 DEF StreamInv, Delivered
<1> QED  BY <1>2, <1>3, <1>4, <1>5 DEF StreamInv

LEMMA StreamStep ==
    ASSUME Inductive, [Next]_vars, NEW s \in Subs
    PROVE  StreamInv(s)'
<1> USE DEF Inductive
<1>1. ASSUME NEW m \in Messages, Publish(m) PROVE StreamInv(s)'
  <2>1. CASE PushCommit(m) \/ (PushRetry(m) /\ \E gap \in 1..MaxGap : Write(m, version + gap))
    <3>1. PICK gap \in 1..MaxGap : Write(m, version + gap)
      BY <2>1 DEF PushCommit
    <3>2. UNCHANGED subVars
      BY <2>1 DEF PushCommit, PushRetry
    <3> QED  BY <3>1, <3>2, StreamUnderWrite
  <2>2. CASE \/ PushFail(m) \/ PushAck(m) \/ PushStampError(m)
             \/ PushRetry(m) /\ UNCHANGED <<store, counter, version>>
    BY <2>2, SubUnchanged DEF PushFail, PushAck, PushStampError, PushRetry, subVars
  <2> QED  BY <1>1, <2>1, <2>2 DEF Publish, PushRetry
<1>2. CASE Flush \/ UNCHANGED vars
  BY <1>2, SubUnchanged DEF Flush, FlushTake, FlushCommit, FlushFail, vars, pubVars, subVars
<1>3. ASSUME NEW t \in Subs, Serve(t) \/ Client(t) PROVE StreamInv(s)'
  <2>1. CASE t = s
    <3>1. CASE ConnectError(s)
      BY <3>1, SubUnchanged DEF ConnectError, pubVars, subVars
    <3>2. CASE ~ConnectError(s)
      BY <1>3, <2>1, <3>2, StreamUnderConnect, StreamUnderPop, StreamUnderWait,
         StreamUnderSend, StreamUnderReceive, StreamUnderLoss DEF Serve, Client
    <3> QED  BY <3>1, <3>2
  <2>2. CASE t # s
    <3>1. /\ store' = store /\ version' = version
          /\ sse'[s] = sse[s] /\ seq'[s] = seq[s] /\ batch'[s] = batch[s]
          /\ open'[s] = open[s] /\ pipe'[s] = pipe[s] /\ lastId'[s] = lastId[s]
          /\ start'[s] = start[s] /\ received'[s] = received[s]
      <4> USE <2>2 DEF pubVars, TypeOK
      <4>1. CASE Connect(t) \/ ConnectError(t) \/ Pop(t)
        BY <4>1 DEF Connect, ConnectError, Pop, subVars
      <4>2. CASE Arm(t) \/ WatchFire(t) \/ Heartbeat(t) \/ PopError(t)
        BY <4>2 DEF Arm, WatchFire, Heartbeat, PopError
      <4>3. CASE SendSse(t)  BY <4>3 DEF SendSse
      <4>4. CASE Receive(t)  BY <4>4 DEF Receive
      <4>5. CASE Eof(t) \/ NetDrop(t)  BY <4>5 DEF Eof, NetDrop, TaskGone
      <4> QED  BY <1>3, <4>1, <4>2, <4>3, <4>4, <4>5 DEF Serve, Client
    <3> QED  BY <3>1, SubUnchanged
  <2> QED  BY <2>1, <2>2
<1>4. CASE HostRestart
  BY <1>4, StreamUnderLoss
<1> QED  BY <1>1, <1>2, <1>3, <1>4 DEF Next

-----------------------------------------------------------------------------
LEMMA InductiveInvariant == Spec => []Inductive
<1>1. Inductive /\ [Next]_vars => Inductive'
  <2> SUFFICES ASSUME Inductive, [Next]_vars PROVE Inductive'  OBVIOUS
  <2>1. TypeOK' /\ StoreInv' /\ AckInv'  BY TypeStep
  <2>2. ASSUME NEW s \in Subs PROVE StreamInv(s)'  BY StreamStep
  <2> QED  BY <2>1, <2>2 DEF Inductive
<1> QED  BY InitInductive, <1>1, PTL DEF Spec

\* The state of the topic and of its clients is well typed.
THEOREM TypeCorrect == Spec => []TypeOK
  BY InductiveInvariant, PTL DEF Inductive

\* Every client has, at any time, exactly the messages between the first and
\* the last id it has seen, in order, for any number of clients, messages,
\* disconnections, retried transactions and restarts.
THEOREM NoGapNoDuplicate == Spec => []GaplessInOrder
<1>1. Inductive => GaplessInOrder
  <2> SUFFICES ASSUME Inductive, NEW s \in Subs, start[s] # None
               PROVE  /\ \A i, j \in 1..Len(received[s]) :
                            i < j => received[s][i].seq < received[s][j].seq
                      /\ {received[s][i] : i \in 1..Len(received[s])} =
                            {d \in store : start[s] < d.seq /\ d.seq <= lastId[s]}
    BY DEF GaplessInOrder
  <2>1. Delivered(s)
    BY DEF Inductive, StreamInv
  <2> QED  BY <2>1 DEF Delivered
<1> QED  BY InductiveInvariant, <1>1, PTL

\* The versionstamp that push returns is the id its message is delivered under,
\* whatever earlier attempts of its transaction have left behind.
THEOREM AckIsTheId == Spec => []AckIdentifies
<1>1. Inductive => AckIdentifies
  BY DEF Inductive, AckInv, AckIdentifies
<1> QED  BY InductiveInvariant, <1>1, PTL

\* A push never puts a message where a client or its task has been already.
THEOREM NothingAppearsBehind == Spec => NothingBehindCursor
<1>1. Inductive /\ [Next]_vars =>
        [\A d \in store' \ store, s \in Subs :
            /\ sse[s] # "off" => d.seq > seq[s]
            /\ lastId[s] # None => d.seq > lastId[s]]_vars
  <2> SUFFICES ASSUME Inductive, Next, NEW d \in store' \ store, NEW s \in Subs
               PROVE  d.seq > seq[s] /\ (lastId[s] # None => d.seq > lastId[s])
    OBVIOUS
  <2>1. PICK m \in Messages : \E gap \in 1..MaxGap : Write(m, version + gap)
    BY DEF Next, Publish, PushCommit, PushRetry, PushFail, PushAck, PushStampError,
           Flush, FlushTake, FlushCommit, FlushFail, Serve, Client, Connect, ConnectError, Pop, Arm, WatchFire, Heartbeat, SendSse, PopError,
           Receive, Eof, NetDrop, HostRestart, pubVars
  <2>2. PICK gap \in 1..MaxGap : Write(m, version + gap)
    BY <2>1
  <2>3. d.seq > version /\ d.seq \in Nat
    BY <2>2, WriteNew DEF Inductive
  <2>4. /\ seq[s] \in Nat /\ version \in Nat /\ seq[s] <= version
        /\ lastId[s] # None => lastId[s] \in Nat /\ lastId[s] <= version
    BY DEF Inductive, TypeOK, StreamInv, NotAhead
  <2> QED  BY <2>3, <2>4
<1> QED  BY InductiveInvariant, <1>1, PTL DEF Spec, NothingBehindCursor

=============================================================================

-------------------------- MODULE ReliableChannel --------------------------
(***************************************************************************)
(* The RPC channel between a JS worker process and the host               *)
(* (reliable_channel.rs).  The worker numbers a call, registers a oneshot  *)
(* sender for it in the callback map `cb' and writes the request to an     *)
(* IPC pipe.  A host thread takes requests off the pipe one at a time,     *)
(* waits for one of `Permits' semaphore permits and spawns a handler task; *)
(* handlers finish in any order and write their responses to a second      *)
(* pipe.  A dispatch thread in the worker takes responses off that pipe,   *)
(* removes the callback and completes the caller's oneshot.                *)
(*                                                                         *)
(* A member of Calls is one invocation of call() or call_sync_slow(): it   *)
(* happens at most once, and its request body is the call itself, so that  *)
(* an answer can be compared with the request it was computed from.  The   *)
(* channel type is Clone and its fields are behind locks, so calls may     *)
(* interleave at every access to a shared field.                           *)
(***************************************************************************)
EXTENDS Naturals, Sequences, FiniteSets

CONSTANTS
    Calls,      \* every call the worker ever makes
    SyncCalls,  \* the calls made with call_sync_slow: they block, uncancellable
    Stuck,      \* calls whose handler may never return (a hung backend)
    Permits     \* concurrency of the host side: Semaphore::new(8)

ASSUME CallsAssumption == SyncCalls \subseteq Calls /\ Stuck \subseteq Calls
ASSUME PermitsAssumption == Permits \in Nat \ {0}

None == [id |-> 0]

RchReq == [id : Nat, body : Calls]
RchRsp == [id : Nat, body : Calls, ok : BOOLEAN]

VARIABLES
    nextId,     \* ReliableChannelInner.id
    cb,         \* ReliableChannelInner.cb: the entries of the map
    pc,         \* progress of each call
    callId,     \* the id a call drew
    oneshot,    \* what the oneshot receiver of a call holds
    reqs,       \* the request pipe
    rsps,       \* the response pipe
    worker,     \* "up", "dead", or "panic" (callback not found)
    host,       \* the host thread: "recv", "acquire" or "exited"
    cur,        \* the request the host thread holds while it waits for a permit
    handlers,   \* the spawned handler tasks
    permits,    \* free permits of the semaphore
    handled,    \* history: how often the handler of a call was started
    lost        \* history: calls whose response the host failed to write

vars == <<nextId, cb, pc, callId, oneshot, reqs, rsps, worker, host, cur,
          handlers, permits, handled, lost>>

callerVars  == <<nextId, cb, pc, callId, oneshot>>
hostVars    == <<host, cur, handlers, permits, handled, lost>>

TypeOK ==
    /\ nextId \in Nat
    /\ cb \subseteq [id : Nat, call : Calls]
    /\ pc \in [Calls -> {"idle", "numbered", "registered", "waiting",
                         "answered", "failed", "cancelled"}]
    /\ callId \in [Calls -> Nat]
    /\ oneshot \in [Calls -> RchRsp \cup {None}]
    /\ reqs \in Seq(RchReq)
    /\ rsps \in Seq(RchRsp)
    /\ worker \in {"up", "dead", "panic"}
    /\ host \in {"recv", "acquire", "exited"}
    /\ cur \in RchReq \cup {None}
    /\ handlers \subseteq RchReq
    /\ permits \in 0..Permits
    /\ handled \in [Calls -> Nat]
    /\ lost \subseteq Calls

Init ==
    /\ nextId = 1
    /\ cb = {}
    /\ pc = [c \in Calls |-> "idle"]
    /\ callId = [c \in Calls |-> 0]
    /\ oneshot = [c \in Calls |-> None]
    /\ reqs = <<>>
    /\ rsps = <<>>
    /\ worker = "up"
    /\ host = "recv"
    /\ cur = None
    /\ handlers = {}
    /\ permits = Permits
    /\ handled = [c \in Calls |-> 0]
    /\ lost = {}

-----------------------------------------------------------------------------
(* Faulty variants: plausible mistakes in the operations below, which the  *)
(* properties at the end of the module must reject.                        *)

\* id.load(), then id.store(id + 1): two callers may draw the same id
FetchId_LoadStore(c) ==
    /\ worker = "up" /\ pc[c] = "idle"
    /\ pc' = [pc EXCEPT ![c] = "numbered"]
    /\ callId' = [callId EXCEPT ![c] = nextId]
    /\ nextId' \in {nextId, nextId + 1}
    /\ UNCHANGED <<cb, oneshot, reqs, rsps, worker, hostVars>>

\* the error of a request that was written all the same
SendError_Written(c) ==
    /\ worker = "up" /\ pc[c] = "registered"
    /\ pc' = [pc EXCEPT ![c] = "failed"]
    /\ reqs' = IF host = "exited" THEN reqs
               ELSE Append(reqs, [id |-> callId[c], body |-> c])
    /\ UNCHANGED <<nextId, cb, callId, oneshot, rsps, worker, hostVars>>

\* a drop guard that unregisters the callback of an abandoned call
Cancel_Unregister(c) ==
    /\ worker = "up" /\ pc[c] = "waiting" /\ c \notin SyncCalls
    /\ pc' = [pc EXCEPT ![c] = "cancelled"]
    /\ cb' = {e \in cb : e.id # callId[c]}
    /\ UNCHANGED <<nextId, callId, oneshot, reqs, rsps, worker, hostVars>>

\* the callback of a receiver that is gone is left in the map
Dispatch_KeepDead ==
    /\ worker = "up" /\ rsps # <<>>
    /\ LET rsp   == Head(rsps)
           live  == {e \in cb : e.id = rsp.id /\ pc[e.call] = "waiting"}
       IN  /\ cb' = cb \ live
           /\ oneshot' = [c \in Calls |->
                            IF \E e \in live : e.call = c THEN rsp ELSE oneshot[c]]
           /\ rsps' = Tail(rsps)
    /\ UNCHANGED <<nextId, pc, callId, reqs, worker, hostVars>>

\* the receive error is logged and the loop goes on
HostDisconnected_Ignored ==
    host = "recv" /\ reqs = <<>> /\ worker # "up" /\ UNCHANGED vars

\* an early return on a failed write that forgets the permit
HandlerSendError_KeepPermit(r) ==
    /\ r \in handlers
    /\ handlers' = handlers \ {r}
    /\ lost' = lost \cup {r.body}
    /\ UNCHANGED <<callerVars, reqs, rsps, worker, host, cur, permits, handled>>

-----------------------------------------------------------------------------
(* Worker side: prepare_call, then await the oneshot.                      *)

\* id.fetch_add(1)
FetchId(c) ==
    /\ worker = "up" /\ pc[c] = "idle"
    /\ pc' = [pc EXCEPT ![c] = "numbered"]
    /\ callId' = [callId EXCEPT ![c] = nextId]
    /\ nextId' = nextId + 1
    /\ UNCHANGED <<cb, oneshot, reqs, rsps, worker, hostVars>>

\* cb.lock().insert(id, tx): an entry under the same id is replaced
Register(c) ==
    /\ worker = "up" /\ pc[c] = "numbered"
    /\ pc' = [pc EXCEPT ![c] = "registered"]
    /\ cb' = {e \in cb : e.id # callId[c]} \cup {[id |-> callId[c], call |-> c]}
    /\ UNCHANGED <<nextId, callId, oneshot, reqs, rsps, worker, hostVars>>

\* tx.lock().send(..) succeeds while the host holds the receiving end
Send(c) ==
    /\ worker = "up" /\ pc[c] = "registered" /\ host # "exited"
    /\ pc' = [pc EXCEPT ![c] = "waiting"]
    /\ reqs' = Append(reqs, [id |-> callId[c], body |-> c])
    /\ UNCHANGED <<nextId, cb, callId, oneshot, rsps, worker, hostVars>>

\* send(..)? fails (closed pipe, serialisation, OS error): the call returns
\* the error and its callback stays in the map
SendError(c) ==
    /\ worker = "up" /\ pc[c] = "registered"
    /\ pc' = [pc EXCEPT ![c] = "failed"]
    /\ UNCHANGED <<nextId, cb, callId, oneshot, reqs, rsps, worker, hostVars>>

\* rx.await yields the response, Ok or the remote error it carries
Return(c) ==
    /\ worker = "up" /\ pc[c] = "waiting" /\ oneshot[c] # None
    /\ pc' = [pc EXCEPT ![c] = "answered"]
    /\ UNCHANGED <<nextId, cb, callId, oneshot, reqs, rsps, worker, hostVars>>

\* The task awaiting call() is dropped (its request ended): the receiver
\* goes with it, the callback stays registered
Cancel(c) ==
    /\ worker = "up" /\ pc[c] = "waiting" /\ c \notin SyncCalls
    /\ pc' = [pc EXCEPT ![c] = "cancelled"]
    /\ UNCHANGED <<nextId, cb, callId, oneshot, reqs, rsps, worker, hostVars>>

\* The dispatch thread: recv, remove(&rsp.id).expect("callback not found"),
\* then `let _ = cb.send(rsp)', a no-op when the receiver is gone
Dispatch ==
    /\ worker = "up" /\ rsps # <<>>
    /\ LET rsp   == Head(rsps)
           found == {e \in cb : e.id = rsp.id}
       IN  /\ worker' = IF found = {} THEN "panic" ELSE "up"
           /\ cb' = cb \ found
           /\ oneshot' = [c \in Calls |->
                            IF pc[c] = "waiting" /\ \E e \in found : e.call = c
                            THEN rsp ELSE oneshot[c]]
           /\ rsps' = IF found = {} THEN <<>> ELSE Tail(rsps)
    /\ UNCHANGED <<nextId, pc, callId, reqs, hostVars>>

\* rx.recv().unwrap() when the host end is closed and the pipe is drained:
\* panics abort the process
RecvClosed ==
    /\ worker = "up" /\ rsps = <<>> /\ host = "exited"
    /\ worker' = "dead"
    /\ UNCHANGED <<callerVars, reqs, rsps, hostVars>>

\* The worker process is killed, or aborts for a reason of its own
WorkerExit ==
    /\ worker = "up"
    /\ worker' = "dead"
    /\ rsps' = <<>>
    /\ UNCHANGED <<callerVars, reqs, hostVars>>

-----------------------------------------------------------------------------
(* Host side: the receive loop and its handler tasks.                      *)

\* Leaving the loop drops the runtime, which cancels the handler tasks, and
\* with them the last sender of the response pipe
ExitHost ==
    /\ host' = "exited"
    /\ handlers' = {}
    /\ reqs' = <<>>
    /\ UNCHANGED <<callerVars, rsps, worker, cur, permits, handled, lost>>

\* req_rx.recv() = Ok(req)
HostRecv ==
    /\ host = "recv" /\ reqs # <<>>
    /\ host' = "acquire"
    /\ cur' = Head(reqs)
    /\ reqs' = Tail(reqs)
    /\ UNCHANGED <<callerVars, rsps, worker, handlers, permits, handled, lost>>

\* req_rx.recv() = Err(e) for a message that cannot be decoded
HostRecvError == host = "recv" /\ reqs # <<>> /\ ExitHost

\* IpcError::Disconnected: every sender is gone and the pipe is drained
HostDisconnected == host = "recv" /\ reqs = <<>> /\ worker # "up" /\ ExitHost

\* concurrency.acquire_owned().await, then spawn the handler
HostAcquire ==
    /\ host = "acquire" /\ permits > 0
    /\ host' = "recv"
    /\ cur' = None
    /\ handlers' = handlers \cup {cur}
    /\ permits' = permits - 1
    /\ handled' = [handled EXCEPT ![cur.body] = @ + 1]
    /\ UNCHANGED <<callerVars, reqs, rsps, worker, lost>>

\* The handler is done: write the response and drop the permit.  The result
\* of send is ignored, so a failed write only loses the response.
HandlerRespond(r, ok) ==
    /\ r \in handlers
    /\ handlers' = handlers \ {r}
    /\ permits' = permits + 1
    /\ rsps' = IF worker = "up"
               THEN Append(rsps, [id |-> r.id, body |-> r.body, ok |-> ok])
               ELSE rsps
    /\ UNCHANGED <<callerVars, reqs, worker, host, cur, handled, lost>>

HandlerSendError(r) ==
    /\ r \in handlers
    /\ handlers' = handlers \ {r}
    /\ permits' = permits + 1
    /\ lost' = lost \cup {r.body}
    /\ UNCHANGED <<callerVars, reqs, rsps, worker, host, cur, handled>>

-----------------------------------------------------------------------------
Call(c) ==
    FetchId(c) \/ Register(c) \/ Send(c) \/ SendError(c) \/ Return(c) \/ Cancel(c)

Handler(r) == (\E ok \in BOOLEAN : HandlerRespond(r, ok)) \/ HandlerSendError(r)

HostLoop == HostRecv \/ HostRecvError \/ HostDisconnected \/ HostAcquire

Next ==
    \/ \E c \in Calls : Call(c)
    \/ Dispatch \/ RecvClosed \/ WorkerExit
    \/ HostLoop
    \/ \E r \in handlers : Handler(r)

(***************************************************************************)
(* Threads keep running, an await that is ready is polled, and a handler   *)
(* whose backend answers or fails finishes; nothing is assumed of the      *)
(* handlers of Stuck, of cancellation, of crashes or of new calls.         *)
(***************************************************************************)
Fairness ==
    /\ \A c \in Calls : WF_vars(Register(c)) /\ WF_vars(Send(c) \/ SendError(c))
                        /\ WF_vars(Return(c))
    /\ WF_vars(Dispatch) /\ WF_vars(RecvClosed)
    /\ WF_vars(HostLoop)
    /\ \A c \in Calls \ Stuck :
          WF_vars(\E r \in handlers : r.body = c /\ Handler(r))

Spec == Init /\ [][Next]_vars

FairSpec == Spec /\ Fairness

-----------------------------------------------------------------------------
(* Properties.                                                             *)

\* The dispatch thread never meets a response whose callback is missing
\* (expect("callback not found") would abort the worker and every request in
\* it), although callers register, give up and fail to send at any moment.
NoCallbackPanic == worker # "panic"

\* A caller only ever gets the answer to its own request, whatever order the
\* handlers finish in.
AnswersOwnRequest ==
    \A c \in Calls : oneshot[c] # None => oneshot[c].body = c /\ oneshot[c].id = callId[c]

\* What a call's outcome says about the effect of its request: answered means
\* the handler was started exactly once, failed means it never was, and
\* no outcome (cancelled included) ever goes with two executions.
EffectMatchesOutcome ==
    \A c \in Calls :
        /\ handled[c] <= 1
        /\ pc[c] = "answered" => handled[c] = 1
        /\ pc[c] = "failed" => handled[c] = 0

\* What a caller sees of its call
Phase(c) ==
    IF pc[c] = "idle" THEN "new"
    ELSE IF pc[c] \in {"numbered", "registered", "waiting"} THEN "open"
    ELSE pc[c]

Remote == INSTANCE RemoteCall
    WITH call <- [c \in Calls |-> Phase(c)],
         runs <- handled,
         answer <- [c \in Calls |-> IF pc[c] = "answered" THEN oneshot[c].body ELSE None]

\* AnswersOwnRequest and EffectMatchesOutcome, step by step: numbering,
\* registering, the two pipes, the permits and the dispatch by id are to the
\* caller a remote call that is run at most once and answered with its own
\* result.
ImplementsRemoteCall == Remote!Spec

\* While the host loop runs, permits and handler tasks add up: a handler gives
\* its permit back on every path, so the channel cannot run out of permits.
PermitsConserved ==
    host # "exited" => permits + Cardinality(handlers) = Permits

\* A waiting call is never orphaned: its sender is in the map or its answer in
\* the oneshot, so rx.await never fails with "failed to receive response".
SenderKept ==
    \A c \in Calls : pc[c] = "waiting" /\ worker = "up" =>
        oneshot[c] # None \/ [id |-> callId[c], call |-> c] \in cb

\* The callback map does not grow with traffic: once pipes, host loop and
\* handlers are empty, what is left in it are calls whose request or response
\* could not be written.
LeakOnlyOnSendError ==
    (/\ worker = "up" /\ host = "recv" /\ reqs = <<>> /\ rsps = <<>> /\ handlers = {}
     /\ \A c \in Calls : pc[c] # "registered") =>
        \A e \in cb : pc[e.call] = "failed" \/ e.call \in lost

\* Every call that is sent gets its answer, unless the caller gives up, the
\* worker dies or the response could not be written.  Handlers that hang
\* forever do not block the others while fewer than Permits of them hang. And
\* the host thread does not outlive its worker, nor a worker its host thread.
NobodyHangs ==
    /\ \A c \in Calls \ Stuck :
          pc[c] = "waiting" ~> pc[c] # "waiting" \/ worker # "up" \/ c \in lost
    /\ (worker # "up" \/ host = "exited") ~> (worker # "up" /\ host = "exited")

-----------------------------------------------------------------------------
(* The inductive invariant behind the safety properties.                   *)

\* Ids are drawn once: every call that drew one has it for itself
IdsUnique ==
    /\ nextId > 0
    /\ \A c \in Calls : pc[c] # "idle" => callId[c] < nextId
    /\ \A c, d \in Calls :
          pc[c] # "idle" /\ pc[d] # "idle" /\ c # d => callId[c] # callId[d]

\* The callback map only holds entries of calls that registered
CbOwned ==
    \A e \in cb : e.id = callId[e.call] /\ pc[e.call] \notin {"idle", "numbered"}

\* A message on its way belongs to a call that was sent, and the callback of
\* that call is still in the map
Expected(m) ==
    /\ m.id = callId[m.body]
    /\ pc[m.body] \in {"waiting", "cancelled"}
    /\ [id |-> m.id, call |-> m.body] \in cb

\* The request of a call is in one place only: the request pipe, the hands of
\* the host thread, a handler or the response pipe
RequestSide ==
    /\ \A i \in 1..Len(reqs) : Expected(reqs[i]) /\ handled[reqs[i].body] = 0
    /\ \A i, j \in 1..Len(reqs) : i # j => reqs[i].body # reqs[j].body
    /\ host = "acquire" => /\ cur \in RchReq /\ Expected(cur) /\ handled[cur.body] = 0
                           /\ \A i \in 1..Len(reqs) : reqs[i].body # cur.body

ResponseSide ==
    /\ \A r \in handlers : Expected(r) /\ handled[r.body] = 1
    /\ \A i \in 1..Len(rsps) : Expected(rsps[i]) /\ handled[rsps[i].body] = 1
    /\ \A i, j \in 1..Len(rsps) : i # j => rsps[i].body # rsps[j].body
    /\ \A r \in handlers, i \in 1..Len(rsps) : rsps[i].body # r.body

CallerSide ==
    \A c \in Calls :
        /\ handled[c] <= 1
        /\ pc[c] \in {"idle", "numbered", "registered", "failed"} => handled[c] = 0
        /\ oneshot[c] # None => /\ oneshot[c].body = c /\ oneshot[c].id = callId[c]
                                /\ handled[c] = 1
                                /\ [id |-> callId[c], call |-> c] \notin cb
        /\ pc[c] = "answered" => oneshot[c] # None
        /\ pc[c] = "registered" => [id |-> callId[c], call |-> c] \in cb
        /\ pc[c] = "waiting" => oneshot[c] # None \/ [id |-> callId[c], call |-> c] \in cb

\* What the dispatch thread, the host loop and the callers rely on together:
\* unique ids, one place per request, and a callback for whatever is on its way.
IInv ==
    /\ worker # "panic"
    /\ host = "exited" => handlers = {}
    /\ IdsUnique
    /\ CbOwned
    /\ RequestSide
    /\ ResponseSide
    /\ CallerSide

=============================================================================

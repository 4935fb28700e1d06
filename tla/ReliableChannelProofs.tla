----------------------- MODULE ReliableChannelProofs -----------------------
(***************************************************************************)
(* Proofs about ReliableChannel, for every set of calls and every positive *)
(* number of permits.                                                      *)
(***************************************************************************)
EXTENDS ReliableChannel, FiniteSetTheorems, TLAPS

\* A response is never mistaken for an empty oneshot.
LEMMA NoneIsNoResponse == \A r \in RchRsp : r # None
  BY DEF RchRsp, None

\* The semaphore is sound: permits and handler tasks add up until the host
\* thread leaves its loop, and then there is no handler task left to give a
\* permit back.
PermitInv ==
    /\ IsFiniteSet(handlers)
    /\ PermitsConserved
    /\ host = "exited" => handlers = {}

\* Everything the induction needs about a state.
Inductive == TypeOK /\ PermitInv /\ IInv

LEMMA InitInductive == Init => Inductive
<1> SUFFICES ASSUME Init PROVE Inductive  OBVIOUS
<1> USE DEF Init
<1>1. TypeOK  BY PermitsAssumption DEF TypeOK, RchReq, RchRsp
<1>2. PermitInv
  BY FS_EmptySet, PermitsAssumption DEF PermitInv, PermitsConserved
<1>3. IInv
  BY DEF IInv, IdsUnique, CbOwned, RequestSide, ResponseSide, CallerSide
<1> QED  BY <1>1, <1>2, <1>3 DEF Inductive

\* The type of the state, and the permits, under each step.
LEMMA TypeStep == Inductive /\ [Next]_vars => TypeOK' /\ PermitInv'
<1> SUFFICES ASSUME Inductive, [Next]_vars PROVE TypeOK' /\ PermitInv'  OBVIOUS
<1> USE CallsAssumption, PermitsAssumption DEF Inductive
<1>1. ASSUME NEW c \in Calls, Call(c) PROVE TypeOK' /\ PermitInv'
  <2> USE <1>1 DEF TypeOK, PermitInv, PermitsConserved, hostVars, RchReq
  <2>1. CASE FetchId(c)  BY <2>1 DEF FetchId
  <2>2. CASE Register(c)  BY <2>2 DEF Register
  <2>3. CASE Send(c)  BY <2>3 DEF Send
  <2>4. CASE SendError(c)  BY <2>4 DEF SendError
  <2>5. CASE Return(c)  BY <2>5 DEF Return
  <2>6. CASE Cancel(c)  BY <2>6 DEF Cancel
  <2> QED  BY <2>1, <2>2, <2>3, <2>4, <2>5, <2>6 DEF Call
<1>2. CASE Dispatch
  <2>1. Head(rsps) \in RchRsp /\ Tail(rsps) \in Seq(RchRsp) /\ <<>> \in Seq(RchRsp)
    BY <1>2 DEF Dispatch, TypeOK
  <2>2. cb' \subseteq cb
    BY <1>2 DEF Dispatch
  <2>3. oneshot' \in [Calls -> RchRsp \cup {None}]
    BY <1>2, <2>1 DEF Dispatch, TypeOK
  <2>4. rsps' \in Seq(RchRsp) /\ worker' \in {"up", "dead", "panic"}
    BY <1>2, <2>1 DEF Dispatch
  <2> QED
    BY <1>2, <2>2, <2>3, <2>4 DEF Dispatch, TypeOK, PermitInv, PermitsConserved, hostVars
<1>3. CASE RecvClosed
  BY <1>3 DEF RecvClosed, TypeOK, PermitInv, PermitsConserved, hostVars, callerVars
<1>4. CASE WorkerExit
  BY <1>4 DEF WorkerExit, TypeOK, PermitInv, PermitsConserved, hostVars, callerVars
<1>5. CASE HostRecv
  BY <1>5 DEF HostRecv, TypeOK, PermitInv, PermitsConserved, callerVars
<1>6. CASE HostRecvError \/ HostDisconnected
  <2>1. ExitHost  BY <1>6 DEF HostRecvError, HostDisconnected
  <2>2. TypeOK'  BY <2>1 DEF ExitHost, TypeOK, callerVars
  <2>3. PermitInv'  BY <2>1, FS_EmptySet DEF ExitHost, PermitInv, PermitsConserved
  <2> QED  BY <2>2, <2>3
<1>7. CASE HostAcquire
  <2>1. cur \in RchReq /\ cur \notin handlers
    BY <1>7 DEF HostAcquire, IInv, RequestSide, ResponseSide
  <2>2. IsFiniteSet(handlers') /\ Cardinality(handlers') = Cardinality(handlers) + 1
    BY <1>7, <2>1, FS_AddElement DEF HostAcquire, PermitInv
  <2>3. Cardinality(handlers) \in Nat
    BY FS_CardinalityType DEF PermitInv
  <2>4. cur.body \in Calls
    BY <2>1 DEF RchReq
  <2>5. permits' \in 0..Permits
    BY <1>7 DEF HostAcquire, TypeOK
  <2>6. handled' \in [Calls -> Nat] /\ handlers' \subseteq RchReq
    BY <1>7, <2>1, <2>4 DEF HostAcquire, TypeOK
  <2>7. TypeOK'
    BY <1>7, <2>5, <2>6 DEF HostAcquire, TypeOK, callerVars
  <2>8. PermitInv'
    BY <1>7, <2>2, <2>3 DEF HostAcquire, TypeOK, PermitInv, PermitsConserved
  <2> QED  BY <2>7, <2>8
<1>8. ASSUME NEW r \in handlers, Handler(r) PROVE TypeOK' /\ PermitInv'
  <2>1. handlers' = handlers \ {r} /\ permits' = permits + 1 /\ host' = host
    BY <1>8 DEF Handler, HandlerRespond, HandlerSendError
  <2>2. IsFiniteSet(handlers') /\ Cardinality(handlers') = Cardinality(handlers) - 1
    BY <1>8, <2>1, FS_RemoveElement DEF PermitInv
  <2>3. Cardinality(handlers) \in Nat /\ Cardinality(handlers') \in Nat
    BY <2>2, FS_CardinalityType DEF PermitInv
  <2>4. permits' \in 0..Permits /\ PermitInv'
    BY <1>8, <2>1, <2>2, <2>3 DEF TypeOK, PermitInv, PermitsConserved
  <2>5. r \in RchReq /\ r.id \in Nat /\ r.body \in Calls
    BY <1>8 DEF TypeOK, RchReq
  <2>6. ASSUME NEW ok \in BOOLEAN, HandlerRespond(r, ok) PROVE TypeOK'
    <3>1. [id |-> r.id, body |-> r.body, ok |-> ok] \in RchRsp
      BY <2>5 DEF RchRsp
    <3>2. rsps' \in Seq(RchRsp)
      BY <2>6, <3>1 DEF HandlerRespond, TypeOK
    <3> QED  BY <2>1, <2>4, <2>6, <3>2 DEF HandlerRespond, TypeOK, callerVars
  <2>7. CASE HandlerSendError(r)
    BY <2>1, <2>4, <2>5, <2>7 DEF HandlerSendError, TypeOK, callerVars
  <2> QED  BY <1>8, <2>4, <2>6, <2>7 DEF Handler
<1>9. CASE UNCHANGED vars
  BY <1>9 DEF vars, TypeOK, PermitInv, PermitsConserved
<1> QED
  BY <1>1, <1>2, <1>3, <1>4, <1>5, <1>6, <1>7, <1>8, <1>9 DEF Next, HostLoop

\* The messages on their way are well formed.
LEMMA MessageTypes ==
    TypeOK => /\ \A i \in 1..Len(reqs) : reqs[i] \in RchReq /\ reqs[i].body \in Calls
              /\ \A i \in 1..Len(rsps) : rsps[i] \in RchRsp /\ rsps[i].body \in Calls
              /\ \A r \in handlers : r \in RchReq /\ r.body \in Calls
              /\ cur \in RchReq => cur.body \in Calls
<1>1. (\A r \in RchReq : r.body \in Calls) /\ (\A r \in RchRsp : r.body \in Calls)
  BY DEF RchReq, RchRsp
<1>2. TypeOK => reqs \in Seq(RchReq) /\ rsps \in Seq(RchRsp) /\ handlers \subseteq RchReq
  BY DEF TypeOK
<1> QED  BY <1>1, <1>2

\* A step of the worker keeps what the host side relies on when the calls that
\* are on their way stay so, with their ids and their callbacks.
CallsKept ==
    \A d \in Calls :
        pc[d] \in {"waiting", "cancelled"} /\ [id |-> callId[d], call |-> d] \in cb =>
            /\ pc'[d] \in {"waiting", "cancelled"}
            /\ callId'[d] = callId[d]
            /\ [id |-> callId[d], call |-> d] \in cb'

LEMMA WorkerStep ==
    TypeOK /\ CallsKept /\ UNCHANGED hostVars =>
        /\ RequestSide /\ reqs' = reqs => RequestSide'
        /\ ResponseSide /\ rsps' = rsps => ResponseSide'
<1> SUFFICES ASSUME TypeOK, CallsKept, UNCHANGED hostVars
             PROVE  /\ RequestSide /\ reqs' = reqs => RequestSide'
                    /\ ResponseSide /\ rsps' = rsps => ResponseSide'
    OBVIOUS
<1> USE MessageTypes DEF CallsKept, hostVars
<1>1. ASSUME RequestSide, reqs' = reqs PROVE RequestSide'
  <2>1. \A i \in 1..Len(reqs) : Expected(reqs[i])' /\ handled'[reqs'[i].body] = 0
    BY <1>1 DEF RequestSide, Expected
  <2>2. host = "acquire" => Expected(cur)'
    BY <1>1 DEF RequestSide, Expected
  <2> QED  BY <1>1, <2>1, <2>2 DEF RequestSide
<1>2. ASSUME ResponseSide, rsps' = rsps PROVE ResponseSide'
  BY <1>2 DEF ResponseSide, Expected
<1> QED  BY <1>1, <1>2

\* The inductive invariant under each step: one step per action, and one per
\* conjunct the action can disturb.
LEMMA IInvStep == Inductive /\ TypeOK' /\ [Next]_vars => IInv'
<1> SUFFICES ASSUME Inductive, TypeOK', [Next]_vars PROVE IInv'  OBVIOUS
<1> USE DEF Inductive
<1>1. ASSUME NEW c \in Calls, FetchId(c) PROVE IInv'
  <2> USE <1>1 DEF FetchId, TypeOK, IInv
  <2>1. IdsUnique'  BY DEF IdsUnique
  <2>2. CbOwned'  BY DEF CbOwned
  <2>3. CallsKept  BY DEF CallsKept
  <2>4. RequestSide' /\ ResponseSide'  BY <2>3, WorkerStep
  <2>5. CallerSide'  BY DEF CallerSide, hostVars
  <2> QED  BY <2>1, <2>2, <2>4, <2>5 DEF hostVars
<1>2. ASSUME NEW c \in Calls, Register(c) PROVE IInv'
  <2> USE <1>2 DEF Register, TypeOK, IInv
  <2>1. IdsUnique'  BY DEF IdsUnique
  <2>2. CbOwned'  BY DEF CbOwned
  <2>3. CallsKept  BY DEF CallsKept, IdsUnique
  <2>4. RequestSide' /\ ResponseSide'  BY <2>3, WorkerStep
  <2>5. CallerSide'  BY DEF CallerSide, IdsUnique, hostVars
  <2> QED  BY <2>1, <2>2, <2>4, <2>5 DEF hostVars
<1>3. ASSUME NEW c \in Calls, Send(c) PROVE IInv'
  <2> USE <1>3 DEF Send, IInv
  <2>1. IdsUnique'  BY DEF IdsUnique, TypeOK
  <2>2. CbOwned'  BY DEF CbOwned, TypeOK
  <2>3. CallsKept  BY DEF CallsKept, TypeOK
  <2>4. ResponseSide'  BY <2>3, WorkerStep
  <2>5. RequestSide'
    <3> DEFINE m == [id |-> callId[c], body |-> c]
    <3>1. Len(reqs') = Len(reqs) + 1 /\ reqs'[Len(reqs) + 1] = m
          /\ \A i \in 1..Len(reqs) : reqs'[i] = reqs[i]
      BY DEF TypeOK, RchReq
    <3>2. \A i \in 1..Len(reqs) : reqs[i].body # c
      BY DEF RequestSide, Expected
    <3>3. host = "acquire" => cur.body # c
      BY DEF RequestSide, Expected
    <3>4. Expected(m)' /\ handled[c] = 0
      BY DEF Expected, CallerSide, TypeOK
    <3>5. Len(reqs) \in Nat  BY DEF TypeOK
    <3>6. \A i \in 1..Len(reqs') : Expected(reqs[i])' /\ handled'[reqs'[i].body] = 0
      BY <2>3, <3>1, <3>4, <3>5, MessageTypes DEF RequestSide, Expected, CallsKept, hostVars
    <3>7. \A i, j \in 1..Len(reqs') : i # j => reqs'[i].body # reqs'[j].body
      BY <3>1, <3>2, <3>5 DEF RequestSide
    <3>8. host = "acquire" => Expected(cur)'
      BY <2>3, MessageTypes DEF RequestSide, Expected, CallsKept, hostVars
    <3>9. host = "acquire" => \A i \in 1..Len(reqs') : reqs'[i].body # cur.body
      BY <3>1, <3>3, <3>5 DEF RequestSide
    <3> QED  BY <3>6, <3>7, <3>8, <3>9 DEF RequestSide, hostVars
  <2>6. CallerSide'  BY DEF CallerSide, TypeOK, hostVars
  <2> QED  BY <2>1, <2>2, <2>4, <2>5, <2>6 DEF hostVars
<1>4. ASSUME NEW c \in Calls, SendError(c) \/ Cancel(c) PROVE IInv'
  <2> USE <1>4 DEF SendError, Cancel, TypeOK, IInv
  <2>1. IdsUnique'  BY DEF IdsUnique
  <2>2. CbOwned'  BY DEF CbOwned
  <2>3. CallsKept  BY DEF CallsKept
  <2>4. RequestSide' /\ ResponseSide'  BY <2>3, WorkerStep
  <2>5. CallerSide'  BY DEF CallerSide, hostVars
  <2> QED  BY <2>1, <2>2, <2>4, <2>5 DEF hostVars
<1>5. ASSUME NEW c \in Calls, Return(c) PROVE IInv'
  <2> USE <1>5 DEF Return, TypeOK, IInv
  <2>1. IdsUnique'  BY DEF IdsUnique
  <2>2. CbOwned'  BY DEF CbOwned
  <2>3. CallsKept  BY DEF CallsKept, CallerSide
  <2>4. RequestSide' /\ ResponseSide'  BY <2>3, WorkerStep
  <2>5. CallerSide'  BY DEF CallerSide, hostVars
  <2> QED  BY <2>1, <2>2, <2>4, <2>5 DEF hostVars
<1>6. CASE Dispatch
  <2> DEFINE rsp == Head(rsps)
             entry == [id |-> rsp.id, call |-> rsp.body]
             c == rsp.body
  <2> USE <1>6 DEF Dispatch, IInv
  <2>1. /\ Len(rsps) \in Nat \ {0} /\ rsp = rsps[1] /\ Len(Tail(rsps)) = Len(rsps) - 1
        /\ \A i \in 1..Len(Tail(rsps)) : Tail(rsps)[i] = rsps[i + 1]
    BY DEF TypeOK
  <2>2. /\ Expected(rsp) /\ handled[rsp.body] = 1
        /\ rsp \in RchRsp /\ c \in Calls /\ rsp # None
    BY <2>1, MessageTypes, NoneIsNoResponse DEF ResponseSide
  <2>3. \A e \in cb : e.id = rsp.id <=> e = entry
    BY <2>2 DEF TypeOK, Expected, CbOwned, IdsUnique
  <2>4. worker' = "up" /\ cb' = cb \ {entry} /\ entry \in cb /\ rsps' = Tail(rsps)
    BY <2>2, <2>3 DEF Expected
  <2>5. \A d \in Calls : oneshot'[d] = IF pc[d] = "waiting" /\ d = c THEN rsp ELSE oneshot[d]
    BY <2>2, <2>3, <2>4
  <2>6. CbOwned'  BY <2>4 DEF CbOwned
  <2>7. IdsUnique'  BY DEF IdsUnique
  <2>8. \A d \in Calls : d # c /\ [id |-> callId[d], call |-> d] \in cb
                           => [id |-> callId[d], call |-> d] \in cb'
    BY <2>4
  <2>9. RequestSide'
    BY <2>2, <2>8, MessageTypes DEF RequestSide, Expected, hostVars
  <2>10. ResponseSide'
    BY <2>1, <2>2, <2>4, <2>8, MessageTypes DEF ResponseSide, Expected, hostVars
  <2>11. CallerSide'
    BY <2>2, <2>4, <2>5, <2>8 DEF CallerSide, Expected, hostVars
  <2> QED  BY <2>4, <2>6, <2>7, <2>9, <2>10, <2>11 DEF hostVars
<1>7. CASE RecvClosed \/ WorkerExit
  <2> USE <1>7 DEF RecvClosed, WorkerExit, callerVars, IInv
  <2>1. IdsUnique'  BY DEF IdsUnique
  <2>2. CbOwned'  BY DEF CbOwned
  <2>3. CallsKept  BY DEF CallsKept
  <2>4. RequestSide'  BY <2>3, WorkerStep
  <2>5. ResponseSide'  BY DEF ResponseSide, Expected, hostVars
  <2>6. CallerSide'  BY DEF CallerSide, hostVars
  <2> QED  BY <2>1, <2>2, <2>4, <2>5, <2>6 DEF hostVars
<1>8. CASE HostRecv
  <2> USE <1>8 DEF HostRecv, callerVars, IInv
  <2>1. IdsUnique'  BY DEF IdsUnique
  <2>2. CbOwned'  BY DEF CbOwned
  <2>3. RequestSide'
    <3>1. Len(reqs) \in Nat \ {0} /\ Len(reqs') = Len(reqs) - 1 /\ cur' = reqs[1]
          /\ \A i \in 1..Len(reqs') : reqs'[i] = reqs[i + 1]
      BY DEF TypeOK
    <3> QED  BY <3>1, MessageTypes DEF RequestSide, Expected
  <2>4. ResponseSide'  BY DEF ResponseSide, Expected
  <2>5. CallerSide'  BY DEF CallerSide
  <2> QED  BY <2>1, <2>2, <2>3, <2>4, <2>5
<1>9. CASE HostRecvError \/ HostDisconnected
  <2> USE <1>9 DEF HostRecvError, HostDisconnected, ExitHost, callerVars, IInv
  <2>1. IdsUnique'  BY DEF IdsUnique
  <2>2. CbOwned'  BY DEF CbOwned
  <2>3. RequestSide'  BY DEF RequestSide
  <2>4. ResponseSide'  BY DEF ResponseSide, Expected
  <2>5. CallerSide'  BY DEF CallerSide
  <2> QED  BY <2>1, <2>2, <2>3, <2>4, <2>5
<1>10. CASE HostAcquire
  <2> USE <1>10 DEF HostAcquire, callerVars, IInv
  <2>1. IdsUnique'  BY DEF IdsUnique
  <2>2. CbOwned'  BY DEF CbOwned
  <2>3. cur.body \in Calls /\ handled[cur.body] = 0 /\ Expected(cur)
    BY MessageTypes DEF RequestSide
  <2>4. \A d \in Calls : handled'[d] = IF d = cur.body THEN 1 ELSE handled[d]
    BY <2>3 DEF TypeOK
  <2>5. RequestSide'  BY <2>4, MessageTypes DEF RequestSide, Expected
  <2>6. ResponseSide'
    <3>1. \A r \in handlers' : Expected(r)' /\ handled'[r.body] = 1
      BY <2>3, <2>4, MessageTypes DEF ResponseSide, Expected
    <3>2. \A i \in 1..Len(rsps) : Expected(rsps[i])' /\ handled'[rsps[i].body] = 1
      BY <2>3, <2>4, MessageTypes DEF ResponseSide, Expected
    <3>3. \A r \in handlers', i \in 1..Len(rsps) : rsps[i].body # r.body
      BY <2>3 DEF ResponseSide
    <3> QED  BY <3>1, <3>2, <3>3 DEF ResponseSide
  <2>7. CallerSide'  BY <2>3, <2>4 DEF CallerSide, Expected
  <2> QED  BY <2>1, <2>2, <2>5, <2>6, <2>7
<1>11. ASSUME NEW r \in handlers, Handler(r) PROVE IInv'
  <2> USE <1>11 DEF Handler, HandlerRespond, HandlerSendError, callerVars, IInv
  <2>1. IdsUnique'  BY DEF IdsUnique
  <2>2. CbOwned'  BY DEF CbOwned
  <2>3. RequestSide'  BY DEF RequestSide, Expected
  <2>4. Expected(r) /\ handled[r.body] = 1 /\ r.body \in Calls
    BY MessageTypes DEF ResponseSide
  <2>5. \A q \in handlers' : q \in handlers /\ q.body # r.body
    <3>1. \A q \in handlers : q = [id |-> callId[q.body], body |-> q.body]
      <4>1. \A q \in RchReq : q = [id |-> q.id, body |-> q.body]  BY DEF RchReq
      <4>2. \A q \in handlers : q \in RchReq /\ q.id = callId[q.body]
        BY DEF ResponseSide, Expected, TypeOK
      <4> QED  BY <4>1, <4>2
    <3> QED  BY <3>1
  <2>6. ResponseSide'
    <3>1. CASE rsps' = rsps
      BY <3>1, <2>5 DEF ResponseSide, Expected
    <3>2. ASSUME NEW ok \in BOOLEAN,
                 rsps' = Append(rsps, [id |-> r.id, body |-> r.body, ok |-> ok])
          PROVE ResponseSide'
      <4>1. /\ Len(rsps) \in Nat /\ Len(rsps') = Len(rsps) + 1
            /\ rsps'[Len(rsps) + 1] = [id |-> r.id, body |-> r.body, ok |-> ok]
            /\ \A i \in 1..Len(rsps) : rsps'[i] = rsps[i]
        <5>1. [id |-> r.id, body |-> r.body, ok |-> ok] \in RchRsp
          BY DEF TypeOK, RchReq, RchRsp
        <5>2. rsps \in Seq(RchRsp)  BY DEF TypeOK
        <5> QED  BY <3>2, <5>1, <5>2
      <4>2. \A i \in 1..Len(rsps') : Expected(rsps[i])' /\ handled'[rsps'[i].body] = 1
        <5>1. \A i \in 1..Len(rsps) : Expected(rsps[i])' /\ handled'[rsps'[i].body] = 1
          BY <4>1 DEF ResponseSide, Expected
        <5>2. ASSUME NEW i \in 1..Len(rsps'), i = Len(rsps) + 1
              PROVE  Expected(rsps[i])' /\ handled'[rsps'[i].body] = 1
          <6>1. rsps'[i].id = r.id /\ rsps'[i].body = r.body  BY <4>1, <5>2
          <6> QED  BY <2>4, <6>1 DEF Expected
        <5>3. \A i \in 1..Len(rsps') : i \in 1..Len(rsps) \/ i = Len(rsps) + 1
          BY <4>1
        <5> QED  BY <5>1, <5>2, <5>3
      <4>3. \A i, j \in 1..Len(rsps') : i # j => rsps'[i].body # rsps'[j].body
        BY <4>1 DEF ResponseSide
      <4>4. \A q \in handlers', i \in 1..Len(rsps') : rsps'[i].body # q.body
        BY <2>5, <4>1 DEF ResponseSide
      <4>5. \A q \in handlers' : Expected(q)' /\ handled'[q.body] = 1
        BY <2>5 DEF ResponseSide, Expected
      <4> QED  BY <4>2, <4>3, <4>4, <4>5 DEF ResponseSide
    <3> QED  BY <3>1, <3>2
  <2>7. CallerSide'  BY DEF CallerSide
  <2> QED  BY <2>1, <2>2, <2>3, <2>6, <2>7
<1>12. CASE UNCHANGED vars
  <2> USE <1>12 DEF vars, IInv
  <2>1. IdsUnique'  BY DEF IdsUnique
  <2>2. CbOwned'  BY DEF CbOwned
  <2>3. RequestSide'  BY DEF RequestSide, Expected
  <2>4. ResponseSide'  BY DEF ResponseSide, Expected
  <2>5. CallerSide'  BY DEF CallerSide
  <2> QED  BY <2>1, <2>2, <2>3, <2>4, <2>5
<1> QED
  BY <1>1, <1>2, <1>3, <1>4, <1>5, <1>6, <1>7, <1>8, <1>9, <1>10, <1>11, <1>12
  DEF Next, Call, HostLoop

-----------------------------------------------------------------------------
LEMMA InductiveInvariant == Spec => []Inductive
<1>1. Inductive /\ [Next]_vars => Inductive'
  BY TypeStep, IInvStep DEF Inductive
<1> QED  BY InitInductive, <1>1, PTL DEF Spec

\* The state of the channel is well typed; above all the semaphore never holds
\* more permits than it was created with, nor fewer than none.
THEOREM TypeCorrect == Spec => []TypeOK
  BY InductiveInvariant, PTL DEF Inductive

\* expect("callback not found") never fires, for any number of calls.
THEOREM CallbackAlwaysFound == Spec => []NoCallbackPanic
<1>1. Inductive => NoCallbackPanic  BY DEF Inductive, IInv, NoCallbackPanic
<1> QED  BY InductiveInvariant, <1>1, PTL

\* No caller gets the answer to another caller's request.
THEOREM AnswersMatch == Spec => []AnswersOwnRequest
<1>1. Inductive => AnswersOwnRequest
  BY DEF Inductive, IInv, CallerSide, AnswersOwnRequest
<1> QED  BY InductiveInvariant, <1>1, PTL

\* A request is executed at most once; exactly once when its call was answered
\* and never when its call failed.
THEOREM AtMostOnce == Spec => []EffectMatchesOutcome
<1>1. Inductive => EffectMatchesOutcome
  BY DEF Inductive, IInv, CallerSide, EffectMatchesOutcome
<1> QED  BY InductiveInvariant, <1>1, PTL

\* No permit is leaked, on any path of a handler.
THEOREM NoPermitLeak == Spec => []PermitsConserved
<1>1. Inductive => PermitsConserved  BY DEF Inductive, PermitInv
<1> QED  BY InductiveInvariant, <1>1, PTL

\* The oneshot sender of a waiting call is never dropped under it.
THEOREM NoOrphanedCall == Spec => []SenderKept
<1>1. Inductive => SenderKept  BY DEF Inductive, IInv, CallerSide, SenderKept
<1> QED  BY InductiveInvariant, <1>1, PTL

-----------------------------------------------------------------------------
(* The channel implements RemoteCall.                                      *)

\* The variables of RemoteCall, as ReliableChannel's state represents them.
calls == [c \in Calls |-> Phase(c)]
answers == [c \in Calls |-> IF pc[c] = "answered" THEN oneshot[c].body ELSE None]

\* A step that moves call c only, from one phase to another.
LEMMA OneCallMoves ==
    ASSUME TypeOK, NEW c \in Calls, NEW to \in {"numbered", "registered", "waiting",
                                                "answered", "failed", "cancelled"},
           pc' = [pc EXCEPT ![c] = to], oneshot' = oneshot
    PROVE  /\ calls' = [calls EXCEPT ![c] = IF to \in {"numbered", "registered", "waiting"}
                                            THEN "open" ELSE to]
           /\ answers' = [answers EXCEPT ![c] = IF to = "answered" THEN oneshot[c].body ELSE None]
<1>1. \A d \in Calls : pc'[d] = IF d = c THEN to ELSE pc[d]
  BY DEF TypeOK
<1>2. \A d \in Calls : Phase(d)' = IF d = c
                                   THEN IF to \in {"numbered", "registered", "waiting"}
                                        THEN "open" ELSE to
                                   ELSE Phase(d)
  BY <1>1 DEF Phase
<1> QED  BY <1>1, <1>2 DEF calls, answers

\* A step that leaves the phases alone, and the answers that were returned.
LEMMA NoCallMoves ==
    ASSUME TypeOK, pc' = pc,
           \A d \in Calls : pc[d] = "answered" => oneshot'[d] = oneshot[d]
    PROVE  calls' = calls /\ answers' = answers
<1>1. \A d \in Calls : Phase(d)' = Phase(d)
  BY DEF Phase
<1> QED  BY <1>1 DEF calls, answers

LEMMA RemoteInit == Init => Remote!Init
<1> SUFFICES ASSUME Init PROVE Remote!Init  OBVIOUS
<1>1. \A c \in Calls : Phase(c) = "new" /\ pc[c] # "answered"
  BY DEF Init, Phase
<1> QED  BY <1>1 DEF Init, Remote!Init

\* Every step of the channel is a step of RemoteCall or changes nothing of it.
LEMMA RemoteStep == Inductive /\ Inductive' /\ [Next]_vars => [Remote!Next]_(Remote!vars)
<1> SUFFICES ASSUME Inductive, Inductive', [Next]_vars
             PROVE  Remote!Next \/ UNCHANGED <<calls, handled, answers>>
    BY DEF Remote!vars, calls, answers
<1> USE DEF Inductive
<1>1. ASSUME NEW c \in Calls, FetchId(c) PROVE Remote!Open(c)
  <2>1. calls' = [calls EXCEPT ![c] = "open"] /\ answers' = [answers EXCEPT ![c] = None]
    BY <1>1, OneCallMoves DEF FetchId
  <2>2. calls[c] = "new" /\ answers[c] = None
    BY <1>1 DEF Phase, FetchId, calls, answers
  <2>3. answers' = answers
    BY <2>1, <2>2 DEF answers
  <2> QED  BY <1>1, <2>1, <2>2, <2>3 DEF FetchId, hostVars, calls, answers, Remote!Open, Remote!Become
<1>2. ASSUME NEW c \in Calls, Register(c) \/ Send(c) PROVE UNCHANGED <<calls, handled, answers>>
  <2>1. \E to \in {"registered", "waiting"} : pc' = [pc EXCEPT ![c] = to]
    BY <1>2 DEF Register, Send
  <2>2. calls' = [calls EXCEPT ![c] = "open"] /\ answers' = [answers EXCEPT ![c] = None]
    BY <1>2, <2>1, OneCallMoves DEF Register, Send
  <2>3. calls[c] = "open" /\ answers[c] = None
    BY <1>2 DEF Phase, Register, Send, calls, answers
  <2> QED  BY <1>2, <2>2, <2>3 DEF Register, Send, hostVars, calls, answers
<1>3. ASSUME NEW c \in Calls, SendError(c) PROVE Remote!Fail(c)
  <2>1. calls' = [calls EXCEPT ![c] = "failed"] /\ answers' = [answers EXCEPT ![c] = None]
    BY <1>3, OneCallMoves DEF SendError
  <2>2. calls[c] = "open" /\ answers[c] = None /\ handled[c] = 0
    BY <1>3 DEF Phase, SendError, calls, answers, IInv, CallerSide
  <2>3. answers' = answers
    BY <2>1, <2>2 DEF answers
  <2> QED  BY <1>3, <2>1, <2>2, <2>3 DEF SendError, hostVars, calls, answers, Remote!Fail, Remote!Become
<1>4. ASSUME NEW c \in Calls, Return(c) PROVE Remote!Answer(c)
  <2>1. calls' = [calls EXCEPT ![c] = "answered"]
        /\ answers' = [answers EXCEPT ![c] = oneshot[c].body]
    BY <1>4, OneCallMoves DEF Return
  <2>2. calls[c] = "open" /\ oneshot[c].body = c /\ handled[c] = 1
    BY <1>4 DEF Phase, Return, calls, IInv, CallerSide
  <2> QED  BY <1>4, <2>1, <2>2 DEF Return, hostVars, calls, answers, Remote!Answer, Remote!Become
<1>5. ASSUME NEW c \in Calls, Cancel(c) PROVE Remote!GiveUp(c)
  <2>1. calls' = [calls EXCEPT ![c] = "cancelled"] /\ answers' = [answers EXCEPT ![c] = None]
    BY <1>5, OneCallMoves DEF Cancel
  <2>2. calls[c] = "open" /\ answers[c] = None
    BY <1>5 DEF Phase, Cancel, calls, answers
  <2>3. answers' = answers
    BY <2>1, <2>2 DEF answers
  <2> QED  BY <1>5, <2>1, <2>2, <2>3 DEF Cancel, hostVars, calls, answers, Remote!GiveUp, Remote!Become
<1>6. ASSUME Dispatch \/ RecvClosed \/ WorkerExit \/ HostRecv \/ HostRecvError \/ HostDisconnected
             \/ UNCHANGED vars
      PROVE  UNCHANGED <<calls, handled, answers>>
  <2>1. pc' = pc /\ handled' = handled
    BY <1>6 DEF Dispatch, RecvClosed, WorkerExit, HostRecv, HostRecvError, HostDisconnected,
                ExitHost, hostVars, callerVars, vars
  <2>2. \A d \in Calls : pc[d] = "answered" => oneshot'[d] = oneshot[d]
    BY <1>6 DEF Dispatch, RecvClosed, WorkerExit, HostRecv, HostRecvError, HostDisconnected,
                ExitHost, callerVars, vars
  <2> QED  BY <2>1, <2>2, NoCallMoves
<1>7. ASSUME HostAcquire PROVE Remote!Next
  <2> DEFINE c == cur.body
  <2>1. c \in Calls /\ handled[c] = 0 /\ pc[c] \in {"waiting", "cancelled"}
    BY <1>7, MessageTypes DEF HostAcquire, IInv, RequestSide, Expected
  <2>2. handled' = [handled EXCEPT ![c] = 1]
    BY <1>7, <2>1 DEF HostAcquire, TypeOK
  <2>3. calls' = calls /\ answers' = answers
    BY <1>7, NoCallMoves DEF HostAcquire, callerVars
  <2>4. calls[c] \in {"open", "cancelled"}
    BY <2>1 DEF Phase, calls
  <2>5. Remote!Run(c)
    BY <2>1, <2>2, <2>3, <2>4 DEF calls, answers, Remote!Run
  <2> QED  BY <2>1, <2>5 DEF Remote!Next
<1>8. ASSUME NEW r \in handlers, Handler(r) PROVE UNCHANGED <<calls, handled, answers>>
  <2>1. pc' = pc /\ handled' = handled /\ oneshot' = oneshot
    BY <1>8 DEF Handler, HandlerRespond, HandlerSendError, callerVars
  <2> QED  BY <2>1, NoCallMoves
<1> QED
  BY <1>1, <1>2, <1>3, <1>4, <1>5, <1>6, <1>7, <1>8 DEF Next, Call, HostLoop, Remote!Next

\* Whatever the order of the handlers' answers, of cancellations, failed writes
\* and the ends of either process: to its caller the channel is a remote call
\* that is run at most once and answered with its own result.
THEOREM ChannelImplementsRemoteCall == Spec => ImplementsRemoteCall
<1>1. Init => Remote!Init  BY RemoteInit
<1>2. Inductive /\ Inductive' /\ [Next]_vars => [Remote!Next]_(Remote!vars)
  BY RemoteStep
<1> QED
  BY InductiveInvariant, <1>1, <1>2, PTL DEF Spec, ImplementsRemoteCall, Remote!Spec

-----------------------------------------------------------------------------
(* What stays in the callback map.                                         *)

\* The request of the call, or the answer to it, is on its way.
OnItsWay(c) ==
    \/ \E i \in 1..Len(reqs) : reqs[i].body = c
    \/ host = "acquire" /\ cur.body = c
    \/ \E r \in handlers : r.body = c
    \/ \E i \in 1..Len(rsps) : rsps[i].body = c

\* An entry of the map is about to be sent for, waits for an answer that may
\* still come, or is one that LeakOnlyOnSendError allows.
Accounted(e) ==
    pc[e.call] \in {"registered", "failed"} \/ e.call \in lost \/ OnItsWay(e.call)

CbAccounted == worker = "up" /\ host # "exited" => \A e \in cb : Accounted(e)

LEMMA EntryOf ==
    TypeOK /\ CbOwned => \A e \in cb : e.call \in Calls /\ e = [id |-> callId[e.call], call |-> e.call]
BY DEF TypeOK, CbOwned

LEMMA CbAccountedStep == Inductive /\ Inductive' /\ CbAccounted /\ [Next]_vars => CbAccounted'
<1> SUFFICES ASSUME Inductive, Inductive', CbAccounted, [Next]_vars,
                    worker' = "up", host' # "exited", NEW e \in cb'
             PROVE  Accounted(e)'
    BY DEF CbAccounted
<1> USE DEF Inductive
<1>1. ASSUME NEW c \in Calls, Call(c) PROVE Accounted(e)'
  <2>1. CASE FetchId(c)
    <3>1. e \in cb /\ Accounted(e) /\ e.call # c
      BY <2>1, EntryOf DEF FetchId, CbAccounted, hostVars, IInv, CbOwned
    <3> QED  BY <2>1, <3>1, EntryOf DEF FetchId, Accounted, OnItsWay, hostVars, TypeOK, IInv
  <2>2. CASE Register(c)
    <3>1. CASE e = [id |-> callId[c], call |-> c]
      BY <2>2, <3>1 DEF Register, Accounted, TypeOK
    <3>2. CASE e \in cb
      BY <2>2, <3>2, EntryOf DEF Register, CbAccounted, Accounted, OnItsWay, hostVars, TypeOK, IInv
    <3> QED  BY <2>2, <3>1, <3>2 DEF Register
  <2>3. CASE Send(c)
    <3>1. /\ Len(reqs) \in Nat /\ Len(reqs') = Len(reqs) + 1
          /\ reqs'[Len(reqs) + 1].body = c
          /\ \A i \in 1..Len(reqs) : reqs'[i] = reqs[i]
      BY <2>3 DEF Send, TypeOK, RchReq
    <3>2. e \in cb /\ Accounted(e) /\ e.call \in Calls
      BY <2>3, EntryOf DEF Send, CbAccounted, hostVars, IInv
    <3>3. CASE e.call = c
      BY <3>1, <3>3 DEF Accounted, OnItsWay
    <3>4. CASE e.call # c
      BY <2>3, <3>1, <3>2, <3>4 DEF Send, Accounted, OnItsWay, hostVars, TypeOK
    <3> QED  BY <3>3, <3>4
  <2>4. CASE SendError(c) \/ Return(c) \/ Cancel(c)
    <3>1. e \in cb /\ Accounted(e) /\ e.call \in Calls
          /\ e = [id |-> callId[e.call], call |-> e.call]
      BY <2>4, EntryOf DEF SendError, Return, Cancel, CbAccounted, hostVars, IInv
    <3>2. e.call = c => ~Return(c)
      BY <3>1 DEF Return, IInv, CallerSide
    <3>3. OnItsWay(e.call)' <=> OnItsWay(e.call)
      BY <2>4 DEF SendError, Return, Cancel, hostVars, OnItsWay
    <3> QED  BY <2>4, <3>1, <3>2, <3>3 DEF SendError, Return, Cancel, hostVars, TypeOK, Accounted
  <2> QED  BY <1>1, <2>1, <2>2, <2>3, <2>4 DEF Call
<1>2. CASE Dispatch
  <2> DEFINE rsp == Head(rsps)
  <2>1. /\ Len(rsps) \in Nat \ {0} /\ rsp = rsps[1]
        /\ Len(rsps') = Len(rsps) - 1
        /\ \A i \in 1..Len(rsps') : rsps'[i] = rsps[i + 1]
    <3>1. rsps' = Tail(rsps)  BY <1>2 DEF Dispatch
    <3>2. rsps \in Seq(RchRsp) /\ rsps # <<>>  BY <1>2 DEF Dispatch, TypeOK
    <3> QED  BY <3>1, <3>2
  <2>2. e \in cb /\ e.id # rsp.id /\ worker = "up" /\ host # "exited"
    BY <1>2 DEF Dispatch, hostVars
  <2>3. Expected(rsp) /\ e.id = callId[e.call] /\ e.call \in Calls
    BY <2>1, <2>2, EntryOf DEF IInv, ResponseSide, CbOwned
  <2>4. e.call # rsp.body
    BY <2>2, <2>3 DEF Expected
  <2>5. Accounted(e)
    BY <2>2 DEF CbAccounted
  <2>6. (\E i \in 1..Len(rsps) : rsps[i].body = e.call)
           => \E i \in 1..Len(rsps') : rsps'[i].body = e.call
    <3> SUFFICES ASSUME NEW i \in 1..Len(rsps), rsps[i].body = e.call
                 PROVE  \E k \in 1..Len(rsps') : rsps'[k].body = e.call
      OBVIOUS
    <3>1. i # 1 /\ i - 1 \in 1..Len(rsps')
      BY <2>1, <2>4
    <3>2. rsps'[i - 1] = rsps[i]
      BY <2>1, <3>1
    <3> QED  BY <3>1, <3>2
  <2> QED  BY <1>2, <2>5, <2>6 DEF Dispatch, Accounted, OnItsWay, hostVars
<1>3. CASE RecvClosed \/ WorkerExit \/ HostRecvError \/ HostDisconnected
  BY <1>3 DEF RecvClosed, WorkerExit, HostRecvError, HostDisconnected, ExitHost
<1>4. CASE HostRecv
  <2>1. /\ Len(reqs) \in Nat \ {0} /\ cur' = reqs[1]
        /\ Len(reqs') = Len(reqs) - 1
        /\ \A i \in 1..Len(reqs') : reqs'[i] = reqs[i + 1]
    BY <1>4 DEF HostRecv, TypeOK
  <2>2. Accounted(e)
    BY <1>4 DEF HostRecv, CbAccounted, callerVars
  <2>3. (\E i \in 1..Len(reqs) : reqs[i].body = e.call)
           => cur'.body = e.call \/ \E i \in 1..Len(reqs') : reqs'[i].body = e.call
    <3> SUFFICES ASSUME NEW i \in 1..Len(reqs), reqs[i].body = e.call, i # 1
                 PROVE  \E k \in 1..Len(reqs') : reqs'[k].body = e.call
      BY <2>1
    <3>1. i - 1 \in 1..Len(reqs')
      BY <2>1
    <3>2. reqs'[i - 1] = reqs[i]
      BY <2>1, <3>1
    <3> QED  BY <3>1, <3>2
  <2> QED  BY <1>4, <2>2, <2>3 DEF HostRecv, Accounted, OnItsWay, callerVars
<1>5. CASE HostAcquire
  <2>1. Accounted(e)
    BY <1>5 DEF HostAcquire, CbAccounted, callerVars
  <2> QED  BY <1>5, <2>1 DEF HostAcquire, Accounted, OnItsWay, callerVars
<1>6. ASSUME NEW r \in handlers, Handler(r) PROVE Accounted(e)'
  <2>1. Accounted(e) /\ worker = "up"
    BY <1>6 DEF Handler, HandlerRespond, HandlerSendError, CbAccounted, callerVars
  <2>2. ASSUME NEW ok \in BOOLEAN, HandlerRespond(r, ok) PROVE Accounted(e)'
    <3>1. /\ Len(rsps) \in Nat /\ Len(rsps') = Len(rsps) + 1
          /\ rsps'[Len(rsps) + 1].body = r.body
          /\ \A i \in 1..Len(rsps) : rsps'[i] = rsps[i]
      <4>1. r.id \in Nat /\ r.body \in Calls
        BY DEF TypeOK, RchReq
      <4>2. [id |-> r.id, body |-> r.body, ok |-> ok] \in RchRsp
        BY <4>1 DEF RchRsp
      <4> QED  BY <2>1, <2>2, <4>2 DEF HandlerRespond, TypeOK
    <3> QED  BY <2>1, <2>2, <3>1 DEF HandlerRespond, Accounted, OnItsWay, callerVars
  <2>3. CASE HandlerSendError(r)
    BY <2>1, <2>3 DEF HandlerSendError, Accounted, OnItsWay, callerVars
  <2> QED  BY <1>6, <2>2, <2>3 DEF Handler
<1>7. CASE UNCHANGED vars
  BY <1>7 DEF vars, CbAccounted, Accounted, OnItsWay
<1> QED
  BY <1>1, <1>2, <1>3, <1>4, <1>5, <1>6, <1>7 DEF Next, HostLoop

\* The callback map grows by nothing but failed writes, for any number of calls
\* and whoever gives up waiting.
THEOREM MapGrowsByFailedWritesOnly == Spec => []LeakOnlyOnSendError
<1>1. Init => CbAccounted
  BY DEF Init, CbAccounted
<1>2. Inductive /\ CbAccounted => LeakOnlyOnSendError
  <2> SUFFICES ASSUME Inductive, CbAccounted, worker = "up", host = "recv", reqs = <<>>,
                      rsps = <<>>, handlers = {}, \A c \in Calls : pc[c] # "registered",
                      NEW e \in cb
               PROVE  pc[e.call] = "failed" \/ e.call \in lost
    BY DEF LeakOnlyOnSendError
  <2>1. e.call \in Calls
    BY EntryOf DEF Inductive, IInv
  <2>2. Accounted(e)
    BY DEF CbAccounted
  <2> QED  BY <2>1, <2>2 DEF Accounted, OnItsWay
<1> QED
  BY InductiveInvariant, <1>1, <1>2, CbAccountedStep, PTL DEF Spec

=============================================================================

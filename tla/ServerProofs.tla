---------------------------- MODULE ServerProofs ----------------------------
(***************************************************************************)
(* Proofs about the way of a request: the front end, for any requests,     *)
(* deployments, packages, workers and faults; the memory monitor beside it *)
(* in the host, for any watermarks, gap and readings; and the router that  *)
(* serves the request in a worker, for any patterns and paths.             *)
(***************************************************************************)
EXTENDS FrontEnd, MemoryWatermark, Router, FiniteSetTheorems, FunctionTheorems,
        SequenceTheorems, WellFoundedInduction, TLAPS

\* The package the metadata names that a worker was started with.
PackageOf(w) == Metadata[worker[w].key.path][worker[w].md].package

\* A request on its way knows its app and metadata, and its worker is one of
\* that version; if it has to look its metadata up while an entry is there, it
\* had missed before the entry was made.
RequestInv(r) ==
    /\ req[r].at \in {"lookup", "loading", "loaded", "invoke", "sent"} => PathOf(r) \in Paths
    /\ req[r].at \in {"loaded", "invoke", "sent"} => req[r].md \in DOMAIN Metadata[PathOf(r)]
    /\ req[r].at = "sent" =>
          /\ req[r].worker \in Workers /\ worker[req[r].worker].at # "off"
          /\ worker[req[r].worker].key = KeyOf(PathOf(r), req[r].md)
    /\ req[r].at \in {"loading", "loaded"} /\ cache[PathOf(r)] # None => r \in missed[PathOf(r)]

Answered(r) ==
    req[r].at = "done" /\ req[r].answer.status \in {200, 404} /\ PathOf(r) \in Paths =>
        AnswerOf(Metadata[PathOf(r)][req[r].md].package, req[r].in, req[r].answer)

\* A worker that was started has metadata of its version; what it is given and
\* what it runs is the package of that metadata.
WorkerInv(w) ==
    /\ load[w] # "none" => worker[w].at # "off"
    /\ worker[w].at # "off" =>
          /\ worker[w].key \in Keys
          /\ worker[w].md \in DOMAIN Metadata[worker[w].key.path]
          /\ worker[w].key.version = Metadata[worker[w].key.path][worker[w].md].version
    /\ load[w] = "reply" => worker[w].package = PackageOf(w)
    /\ worker[w].at = "ready" =>
          worker[w].package = PackageOf(w) /\ Calls[worker[w].package] # Broken

\* The package cache holds the package of the version, whoever asks for it.
CacheInv ==
    \A p \in Paths : \A n \in DOMAIN Metadata[p] :
        packages[Metadata[p][n].version] \in {None, Metadata[p][n].package}

\* A load that fetches holds the lock of its version, which is not in the cache.
LockInv(w) ==
    load[w] = "fetch" => updating[CacheKey(w)] = w /\ packages[CacheKey(w)] = None

FrontInv ==
    /\ TypeOK
    /\ \A r \in Requests : RequestInv(r) /\ Answered(r)
    /\ \A w \in Workers : WorkerInv(w) /\ LockInv(w)
    /\ CacheInv

-----------------------------------------------------------------------------
LEMMA InitInv == Init => FrontInv
<1> SUFFICES ASSUME Init PROVE FrontInv
  OBVIOUS
<1>1. TypeOK
  BY MetadataAssumption, BoundsAssumption DEF Init, TypeOK, Off
<1>2. ASSUME NEW r \in Requests PROVE RequestInv(r) /\ Answered(r)
  BY DEF Init, RequestInv, Answered
<1>3. ASSUME NEW w \in Workers PROVE WorkerInv(w) /\ LockInv(w)
  BY DEF Init, WorkerInv, LockInv, Off
<1>4. CacheInv
  BY DEF Init, CacheInv, Versions
<1> QED  BY <1>1, <1>2, <1>3, <1>4 DEF FrontInv

-----------------------------------------------------------------------------
(* The host's side.                                                        *)

\* Only one request moves.
OnlyReq(r) ==
    /\ DOMAIN req' = Requests /\ DOMAIN req'[r] = {"at", "in", "md", "worker", "answer"}
    /\ \A q \in Requests : q # r => req'[q] = req[q]

\* What a request needs to know of workers outlives their steps.
Lasting ==
    \A w \in Workers : worker[w].at # "off" =>
        worker'[w].at # "off" /\ worker'[w].key = worker[w].key

\* A request that does not move keeps what is known of it, as long as an entry
\* of the metadata cache is only made with those noted who had missed before.
LEMMA Waiting ==
    ASSUME FrontInv, NEW q \in Requests, req'[q] = req[q], Lasting,
           \/ UNCHANGED <<cache, missed>>
           \/ \E p \in Paths : cache' = [cache EXCEPT ![p] = None] /\ missed' = missed
           \/ \E r \in Requests : MdInsert(r) /\ q # r
    PROVE  RequestInv(q)' /\ Answered(q)'
<1>1. RequestInv(q) /\ Answered(q) /\ DOMAIN cache = Paths /\ missed \in [Paths -> SUBSET Requests]
  BY DEF FrontInv, TypeOK
<1>2. PathOf(q)' = PathOf(q)
  BY DEF PathOf
<1>3. Answered(q)'
  BY <1>1 DEF Answered, PathOf
<1>4. ASSUME req[q].at \in {"loading", "loaded"}, cache'[PathOf(q)] # None
      PROVE  q \in missed'[PathOf(q)]
  <2>1. CASE UNCHANGED <<cache, missed>>
    BY <1>1, <1>4, <2>1 DEF RequestInv
  <2>2. ASSUME NEW p \in Paths, cache' = [cache EXCEPT ![p] = None], missed' = missed
        PROVE  q \in missed'[PathOf(q)]
    BY <1>1, <1>4, <2>2 DEF RequestInv
  <2>3. ASSUME NEW r \in Requests, MdInsert(r), q # r
        PROVE  q \in missed'[PathOf(q)]
    BY <1>1, <1>4, <2>3 DEF RequestInv, MdInsert
  <2> QED  BY <2>1, <2>2, <2>3
<1>5. RequestInv(q)'
  BY <1>1, <1>2, <1>4 DEF RequestInv, Lasting
<1> QED  BY <1>3, <1>5

\* A request's step that leaves workers, loads and the package cache alone.
LEMMA HostStep ==
    ASSUME FrontInv, NEW r \in Requests, OnlyReq(r), UNCHANGED pool,
           req'[r].at \in {"new", "lookup", "loading", "loaded", "invoke", "sent", "done"},
           RequestInv(r)', Answered(r)',
           deployed' = deployed, faults' \in {faults, faults + 1}, faults' # faults => faults < MaxFaults,
           UNCHANGED <<cache, missed>> \/ MdInsert(r)
    PROVE  FrontInv'
<1>1. ASSUME NEW q \in Requests, q # r PROVE RequestInv(q)' /\ Answered(q)'
  <2>1. Lasting
    BY DEF Lasting, pool
  <2> QED  BY <1>1, <2>1, Waiting DEF OnlyReq
<1>2. ASSUME NEW w \in Workers PROVE WorkerInv(w)' /\ LockInv(w)'
  BY DEF FrontInv, WorkerInv, LockInv, PackageOf, CacheKey, pool
<1>3. CacheInv'
  BY DEF FrontInv, CacheInv, pool
<1>4. TypeOK'
  <2>1. TypeOK
    BY DEF FrontInv
  <2>2. /\ DOMAIN cache' = Paths /\ missed' \in [Paths -> SUBSET Requests]
        /\ \A p \in Paths : cache'[p] \in DOMAIN Metadata[p] \cup {None}
    <3>1. CASE UNCHANGED <<cache, missed>>
      BY <2>1, <3>1 DEF TypeOK
    <3>2. CASE MdInsert(r)
      <4>1. PathOf(r) \in Paths /\ req[r].md \in DOMAIN Metadata[PathOf(r)]
        BY <3>2 DEF FrontInv, RequestInv, MdInsert
      <4>2. cache' = [cache EXCEPT ![PathOf(r)] = req[r].md]
        BY <3>2 DEF MdInsert
      <4>3. missed' \in [Paths -> SUBSET Requests]
        BY <2>1, <3>2 DEF TypeOK, MdInsert
      <4> QED  BY <2>1, <4>1, <4>2, <4>3 DEF TypeOK
    <3> QED  BY <3>1, <3>2
  <2>3. ASSUME NEW q \in Requests
        PROVE  /\ DOMAIN req'[q] = {"at", "in", "md", "worker", "answer"}
               /\ req'[q].at \in {"new", "lookup", "loading", "loaded", "invoke", "sent", "done"}
    BY <2>1 DEF TypeOK, OnlyReq
  <2>4. faults' \in 0 .. MaxFaults
    BY <2>1, BoundsAssumption DEF TypeOK
  <2> QED  BY <2>1, <2>2, <2>3, <2>4 DEF TypeOK, OnlyReq, pool
<1> QED  BY <1>1, <1>2, <1>3, <1>4 DEF FrontInv

\* What a worker runs is the package its requests' metadata name.
LEMMA RightPackage ==
    ASSUME FrontInv, NEW r \in Requests, req[r].at = "sent", worker[req[r].worker].at = "ready"
    PROVE  /\ worker[req[r].worker].package = Metadata[PathOf(r)][req[r].md].package
           /\ Calls[worker[req[r].worker].package] # Broken
<1> DEFINE w == req[r].worker
           p == PathOf(r)
           n == req[r].md
           m == worker[w].md
<1>1. /\ p \in Paths /\ n \in DOMAIN Metadata[p] /\ w \in Workers
      /\ worker[w].at # "off" /\ worker[w].key = KeyOf(p, n)
  BY DEF FrontInv, RequestInv
<1>2. worker[w].key.path = p /\ worker[w].key.version = Metadata[p][n].version
  BY <1>1 DEF KeyOf
<1>3. /\ m \in DOMAIN Metadata[p] /\ Metadata[p][n].version = Metadata[p][m].version
      /\ worker[w].package = Metadata[p][m].package /\ Calls[worker[w].package] # Broken
  BY <1>1, <1>2 DEF FrontInv, WorkerInv, PackageOf
<1>4. Metadata[p][n].package = Metadata[p][m].package
  BY <1>1, <1>3, VersionAssumption
<1> QED  BY <1>3, <1>4

\* What Serve answers is the answer of the package.
LEMMA ServedRight ==
    ASSUME NEW package, NEW in, NEW a, Calls[package] # Broken,
           \/ Entry[package][in].is = "handled" /\ a.by = Entry[package][in].by /\ a.status = 200
           \/ Entry[package][in].is = "notFound" /\ a.status = 404
           \/ a.status = 500
    PROVE  a.status \in {200, 404} => AnswerOf(package, in, a)
BY DEF AnswerOf

LEMMA RequestSteps ==
    ASSUME FrontInv, NEW r \in Requests,
           Handle(r) \/ MdHit(r) \/ MdMiss(r) \/ MdRead(r) \/ MdInsert(r) \/ Serve(r)
             \/ InvokeError(r) \/ EarlyError(r)
    PROVE  FrontInv'
<1>1. /\ DOMAIN req = Requests /\ DOMAIN req[r] = {"at", "in", "md", "worker", "answer"}
      /\ RequestInv(r) /\ Answered(r) /\ TypeOK
  BY DEF FrontInv, TypeOK
<1> USE DEF Respond, Fault, PathOf
<1>2. CASE Handle(r)
  <2>1. PICK in \in Inputs :
          req' = [req EXCEPT ![r].in = in,
                             ![r].at = IF in.to \in Paths THEN "lookup" ELSE "done",
                             ![r].answer = IF in.to = "health" THEN [status |-> 200]
                                           ELSE IF in.to = "nobody" THEN [status |-> 400]
                                           ELSE None]
    BY <1>2 DEF Handle
  <2>2. /\ OnlyReq(r) /\ req'[r].in = in
        /\ req'[r].at = IF in.to \in Paths THEN "lookup" ELSE "done"
    BY <1>1, <2>1 DEF OnlyReq
  <2>3. RequestInv(r)' /\ Answered(r)'
    BY <2>2 DEF RequestInv, Answered
  <2> QED  BY <1>2, <2>2, <2>3, HostStep DEF Handle
<1>3. CASE MdHit(r)
  <2>1. /\ OnlyReq(r) /\ req'[r].at = "invoke" /\ req'[r].in = req[r].in
        /\ req'[r].md = cache[PathOf(r)]
    BY <1>1, <1>3 DEF MdHit, OnlyReq
  <2>2. RequestInv(r)' /\ Answered(r)'
    BY <1>1, <1>3, <2>1 DEF MdHit, RequestInv, Answered, TypeOK
  <2> QED  BY <1>3, <2>1, <2>2, HostStep DEF MdHit
<1>4. CASE MdMiss(r)
  <2>1. OnlyReq(r) /\ req'[r].at = "loading" /\ req'[r].in = req[r].in
    BY <1>1, <1>4 DEF MdMiss, OnlyReq
  <2>2. RequestInv(r)' /\ Answered(r)'
    BY <1>1, <1>4, <2>1 DEF MdMiss, RequestInv, Answered
  <2> QED  BY <1>4, <2>1, <2>2, HostStep DEF MdMiss
<1>5. CASE MdRead(r)
  <2>1. /\ OnlyReq(r) /\ req'[r].at = "loaded" /\ req'[r].in = req[r].in
        /\ req'[r].md = deployed[PathOf(r)]
    BY <1>1, <1>5 DEF MdRead, OnlyReq
  <2>2. RequestInv(r)' /\ Answered(r)'
    BY <1>1, <1>5, <2>1 DEF MdRead, RequestInv, Answered, TypeOK
  <2> QED  BY <1>5, <2>1, <2>2, HostStep DEF MdRead
<1>6. CASE MdInsert(r)
  <2>1. /\ OnlyReq(r) /\ req'[r].at = "invoke" /\ req'[r].in = req[r].in
        /\ req'[r].md = req[r].md
    BY <1>1, <1>6 DEF MdInsert, OnlyReq
  <2>2. RequestInv(r)' /\ Answered(r)'
    BY <1>1, <1>6, <2>1 DEF MdInsert, RequestInv, Answered
  <2> QED  BY <1>6, <2>1, <2>2, HostStep DEF MdInsert
<1>7. CASE Serve(r)
  <2> DEFINE w == req[r].worker
             entry == Entry[worker[w].package][req[r].in]
  <2>1. /\ worker[w].package = Metadata[PathOf(r)][req[r].md].package
        /\ Calls[worker[w].package] # Broken
    BY <1>7, RightPackage DEF Serve
  <2> DEFINE right(a) == \/ entry.is = "handled" /\ a.by = entry.by /\ a.status = 200
                         \/ entry.is = "notFound" /\ a.status = 404
                         \/ a.status = 500
  <2> HIDE DEF entry
  <2>2. PICK a : Respond(r, a) /\ right(a)
    <3>1. entry.is = "handled" => right([status |-> 200, by |-> entry.by])
      OBVIOUS
    <3>2. entry.is = "notFound" => right([status |-> 404])
      OBVIOUS
    <3>3. right([status |-> 500])
      OBVIOUS
    <3> HIDE DEF Respond, right
    <3>4. \/ entry.is = "handled" /\ Respond(r, [status |-> 200, by |-> entry.by])
          \/ entry.is = "notFound" /\ Respond(r, [status |-> 404])
          \/ Respond(r, [status |-> 500])
      BY <1>7 DEF Serve, entry
    <3>5. \E a : Respond(r, a) /\ right(a)
      BY <3>1, <3>2, <3>3, <3>4
    <3> QED  BY <3>5
  <2>3. /\ OnlyReq(r) /\ req'[r].at = "done" /\ req'[r].in = req[r].in
        /\ req'[r].md = req[r].md /\ req'[r].answer = a
    BY <1>1, <2>2 DEF OnlyReq
  <2>4. RequestInv(r)'
    BY <2>3 DEF RequestInv
  <2>5. a.status \in {200, 404} => AnswerOf(worker[w].package, req[r].in, a)
    <3>1. right(a)
      <4> HIDE DEF right
      <4> QED  BY <2>2
    <3> DEFINE k == worker[w].package
               i == req[r].in
    <3>2. Calls[k] # Broken
      BY <2>1
    <3>3. \/ Entry[k][i].is = "handled" /\ a.by = Entry[k][i].by /\ a.status = 200
          \/ Entry[k][i].is = "notFound" /\ a.status = 404
          \/ a.status = 500
      BY <3>1 DEF entry
    <3> HIDE DEF k, i
    <3>4. a.status \in {200, 404} => AnswerOf(k, i, a)
      BY <3>2, <3>3, ServedRight
    <3> QED  BY <3>4 DEF k, i
  <2>6. Answered(r)'
    BY <2>1, <2>3, <2>5 DEF Answered
  <2> QED  BY <1>7, <2>3, <2>4, <2>6, HostStep DEF Serve
<1>8. CASE InvokeError(r)
  <2>1. OnlyReq(r) /\ req'[r].at = "done" /\ req'[r].answer = [status |-> 500]
    BY <1>1, <1>8 DEF InvokeError, OnlyReq
  <2>2. RequestInv(r)' /\ Answered(r)'
    BY <2>1 DEF RequestInv, Answered
  <2> QED  BY <1>8, <2>1, <2>2, HostStep DEF InvokeError
<1>9. CASE EarlyError(r)
  <2>1. OnlyReq(r) /\ req'[r].at = "done" /\ req'[r].answer = [status |-> 500]
    BY <1>1, <1>9 DEF EarlyError, OnlyReq
  <2>2. RequestInv(r)' /\ Answered(r)'
    BY <2>1 DEF RequestInv, Answered
  <2> QED  BY <1>9, <2>1, <2>2, HostStep DEF EarlyError
<1> QED  BY <1>2, <1>3, <1>4, <1>5, <1>6, <1>7, <1>8, <1>9

LEMMA StoreSteps ==
    ASSUME FrontInv, NEW p \in Paths, Deploy(p) \/ Evict(p)
    PROVE  FrontInv'
<1>1. UNCHANGED <<req, missed, pool, faults>> /\ TypeOK
  BY DEF FrontInv, Deploy, Evict
<1>2. Lasting
  BY <1>1 DEF Lasting, pool
<1>3. \/ cache' = cache
      \/ cache' = [cache EXCEPT ![p] = None]
  BY DEF Deploy, Evict
<1>4. ASSUME NEW q \in Requests PROVE RequestInv(q)' /\ Answered(q)'
  BY <1>1, <1>2, <1>3, Waiting
<1>5. ASSUME NEW w \in Workers PROVE WorkerInv(w)' /\ LockInv(w)'
  BY <1>1 DEF FrontInv, WorkerInv, LockInv, PackageOf, CacheKey, pool
<1>6. CacheInv'
  BY <1>1 DEF FrontInv, CacheInv, pool
<1>7. TypeOK'
  <2>1. /\ DOMAIN cache' = Paths
        /\ \A q \in Paths : cache'[q] \in DOMAIN Metadata[q] \cup {None}
    BY <1>1, <1>3 DEF TypeOK
  <2>2. /\ DOMAIN deployed' = Paths
        /\ \A q \in Paths : deployed'[q] \in DOMAIN Metadata[q]
    BY <1>1, MetadataAssumption DEF TypeOK, Deploy, Evict
  <2> QED  BY <1>1, <2>1, <2>2 DEF TypeOK, pool
<1> QED  BY <1>4, <1>5, <1>6, <1>7 DEF FrontInv

-----------------------------------------------------------------------------
(* Workers and packages.                                                   *)

\* The version of a worker is a version, and its package one that is deployed.
LEMMA Started ==
    ASSUME FrontInv, NEW w \in Workers, worker[w].at # "off"
    PROVE  /\ CacheKey(w) \in Versions /\ PackageOf(w) \in Packages
           /\ packages[CacheKey(w)] \in {None, PackageOf(w)}
<1> DEFINE p == worker[w].key.path
           n == worker[w].md
<1>1. /\ p \in Paths /\ n \in DOMAIN Metadata[p]
      /\ worker[w].key.version = Metadata[p][n].version
  BY DEF FrontInv, WorkerInv, Keys
<1> HIDE DEF p, n
<1>2. Metadata[p][n].version \in Versions /\ Metadata[p][n].package \in Packages
  BY <1>1, MetadataAssumption DEF Versions
<1>3. packages[Metadata[p][n].version] \in {None, Metadata[p][n].package}
  BY <1>1 DEF FrontInv, CacheInv
<1> QED  BY <1>1, <1>2, <1>3 DEF p, n, CacheKey, PackageOf

\* A step that changes one worker and its load, but not what it serves, nor the
\* package cache.
LEMMA WorkerStep ==
    ASSUME FrontInv, UNCHANGED <<host, packages, updating>>, NEW w \in Workers,
           worker[w].at # "off",
           faults' \in {faults, faults + 1}, faults' # faults => faults < MaxFaults,
           NEW u \in [at : {"starting", "ready", "reset", "gone"}, key : Keys \cup {None}, md : Nat,
                      package : Packages \cup {None}],
           NEW l \in {"none", "get", "wait", "reply", "error", load[w]},
           worker' = [worker EXCEPT ![w] = u], u.key = worker[w].key, u.md = worker[w].md,
           load' = [load EXCEPT ![w] = l],
           l = "reply" => u.package = PackageOf(w),
           u.at = "ready" => u.package = PackageOf(w) /\ Calls[u.package] # Broken
    PROVE  FrontInv'
<1>1. /\ TypeOK /\ WorkerInv(w) /\ LockInv(w)
      /\ worker'[w] = u /\ \A x \in Workers : x # w => worker'[x] = worker[x]
      /\ load'[w] = l /\ \A x \in Workers : x # w => load'[x] = load[x]
  BY DEF FrontInv, TypeOK
<1>2. Lasting
  BY <1>1 DEF Lasting
<1>3. ASSUME NEW q \in Requests PROVE RequestInv(q)' /\ Answered(q)'
  BY <1>2, Waiting DEF host
<1>4. CacheInv'
  BY DEF FrontInv, CacheInv
<1>5. ASSUME NEW x \in Workers, x # w PROVE WorkerInv(x)' /\ LockInv(x)'
  <2>1. WorkerInv(x) /\ LockInv(x) /\ worker'[x] = worker[x] /\ load'[x] = load[x]
    BY <1>1, <1>5 DEF FrontInv
  <2>2. WorkerInv(x)'
    BY <2>1 DEF WorkerInv, PackageOf
  <2>3. LockInv(x)'
    BY <2>1 DEF LockInv, CacheKey
  <2> QED  BY <2>2, <2>3
<1>6. WorkerInv(w)'
  BY <1>1 DEF WorkerInv, PackageOf
<1>7. LockInv(w)'
  BY <1>1 DEF LockInv, CacheKey
<1>8. TypeOK'
  <2>1. worker' \in [Workers -> [at : {"off", "starting", "ready", "reset", "gone"},
                                 key : Keys \cup {None}, md : Nat,
                                 package : Packages \cup {None}]]
    BY <1>1 DEF TypeOK
  <2>2. load' \in [Workers -> {"none", "get", "wait", "fetch", "reply", "error"}]
    BY <1>1 DEF TypeOK
  <2>3. faults' \in 0 .. MaxFaults
    BY <1>1, BoundsAssumption DEF TypeOK
  <2> QED  BY <1>1, <2>1, <2>2, <2>3 DEF TypeOK, host
<1> QED  BY <1>3, <1>4, <1>5, <1>6, <1>7, <1>8 DEF FrontInv

\* The scheduler sends a request to a worker of its version, or starts one.
LEMMA GetWorkerStep ==
    ASSUME FrontInv, NEW r \in Requests, GetWorker(r)
    PROVE  FrontInv'
<1> DEFINE p == PathOf(r)
           n == req[r].md
           key == KeyOf(p, n)
<1>1. /\ TypeOK /\ p \in Paths /\ n \in DOMAIN Metadata[p] /\ n \in Nat
      /\ key \in Keys /\ key.path = p /\ key.version = Metadata[p][n].version
  <2>1. TypeOK /\ p \in Paths /\ n \in DOMAIN Metadata[p]
    BY DEF FrontInv, RequestInv, GetWorker
  <2> QED  BY <2>1, MetadataAssumption DEF KeyOf, Keys, Versions
<1>2. PICK w \in Workers :
        /\ req' = [req EXCEPT ![r].at = "sent", ![r].worker = w]
        /\ \/ /\ w \in Live(key) /\ UNCHANGED <<worker, load>>
           \/ /\ worker[w].at = "off"
              /\ worker' = [worker EXCEPT ![w] = [at |-> "starting", key |-> key,
                                                  md |-> n, package |-> None]]
              /\ load' = [load EXCEPT ![w] = "get"]
  BY DEF GetWorker, Live
<1>3. UNCHANGED <<deployed, cache, missed, packages, updating, faults>>
  BY DEF GetWorker, MdKeep
<1>4. OnlyReq(r) /\ req'[r].at = "sent" /\ req'[r].in = req[r].in
      /\ req'[r].md = n /\ req'[r].worker = w
  BY <1>1, <1>2 DEF TypeOK, OnlyReq
<1>5. worker'[w].at # "off" /\ worker'[w].key = key
  BY <1>1, <1>2 DEF Live, TypeOK
<1>6. Lasting
  BY <1>1, <1>2 DEF Lasting, TypeOK
<1>7. ASSUME NEW q \in Requests PROVE RequestInv(q)' /\ Answered(q)'
  <2>1. CASE q = r
    BY <1>1, <1>4, <1>5, <2>1 DEF RequestInv, Answered, PathOf
  <2>2. CASE q # r
    BY <1>3, <1>4, <1>6, <2>2, Waiting DEF OnlyReq
  <2> QED  BY <2>1, <2>2
<1>8. ASSUME NEW x \in Workers PROVE WorkerInv(x)' /\ LockInv(x)'
  <2>1. WorkerInv(x) /\ LockInv(x)
    BY DEF FrontInv
  <2>2. CASE worker'[x] = worker[x] /\ load'[x] = load[x]
    BY <1>3, <2>1, <2>2 DEF WorkerInv, LockInv, PackageOf, CacheKey
  <2>3. CASE ~(worker'[x] = worker[x] /\ load'[x] = load[x])
    <3>1. /\ x = w
          /\ worker'[w] = [at |-> "starting", key |-> key, md |-> n, package |-> None]
          /\ load'[w] = "get"
      BY <1>1, <1>2, <2>3 DEF TypeOK
    <3> QED  BY <1>1, <3>1 DEF WorkerInv, LockInv
  <2> QED  BY <2>2, <2>3
<1>9. CacheInv'
  BY <1>3 DEF FrontInv, CacheInv
<1>10. TypeOK'
  <2>1. ASSUME NEW q \in Requests
        PROVE  /\ DOMAIN req'[q] = {"at", "in", "md", "worker", "answer"}
               /\ req'[q].at \in {"new", "lookup", "loading", "loaded", "invoke", "sent", "done"}
    BY <1>1, <1>4 DEF TypeOK, OnlyReq
  <2>2. /\ worker' \in [Workers -> [at : {"off", "starting", "ready", "reset", "gone"},
                                    key : Keys \cup {None}, md : Nat,
                                    package : Packages \cup {None}]]
        /\ load' \in [Workers -> {"none", "get", "wait", "fetch", "reply", "error"}]
    <3> HIDE DEF key, n, p
    <3> QED  BY <1>1, <1>2 DEF TypeOK
  <2> QED  BY <1>1, <1>3, <1>4, <2>1, <2>2 DEF TypeOK, OnlyReq
<1> QED  BY <1>7, <1>8, <1>9, <1>10 DEF FrontInv

\* The package cache is written, an entry expires, or a load gives the lock of
\* its version back.
LEMMA CacheSteps ==
    ASSUME FrontInv, NEW v \in Versions,
           \/ PackageExpire(v)
           \/ \E w \in Workers : /\ load[w] = "fetch" /\ CacheKey(w) = v
                                 /\ PackageFetched(w) \/ PackageFailed(w) \/ LoadCancelled(w)
    PROVE  FrontInv'
<1>1. TypeOK /\ UNCHANGED host
  BY DEF FrontInv, PackageExpire, PackageFetched, PackageFailed, LoadCancelled
<1>2. CASE PackageExpire(v)
  <2>1. /\ packages' = [packages EXCEPT ![v] = None] /\ UNCHANGED <<worker, load, updating>>
        /\ faults' = faults + 1 /\ faults < MaxFaults
    BY <1>2 DEF PackageExpire, Fault
  <2>2. Lasting
    BY <2>1 DEF Lasting
  <2>3. ASSUME NEW q \in Requests PROVE RequestInv(q)' /\ Answered(q)'
    BY <1>1, <2>2, Waiting DEF host
  <2>4. ASSUME NEW w \in Workers PROVE WorkerInv(w)' /\ LockInv(w)'
    BY <1>1, <2>1 DEF FrontInv, WorkerInv, LockInv, PackageOf, CacheKey, TypeOK
  <2>5. CacheInv'
    BY <1>1, <2>1 DEF FrontInv, CacheInv, TypeOK
  <2>6. TypeOK'
    BY <1>1, <2>1, BoundsAssumption DEF TypeOK, host
  <2> QED  BY <2>3, <2>4, <2>5, <2>6 DEF FrontInv
<1>3. ASSUME NEW w \in Workers, load[w] = "fetch", CacheKey(w) = v,
             PackageFetched(w) \/ PackageFailed(w) \/ LoadCancelled(w)
      PROVE  FrontInv'
  <2> DEFINE k == PackageOf(w)
  <2>1. /\ worker[w].at # "off" /\ WorkerInv(w) /\ LockInv(w)
        /\ k \in Packages /\ worker[w].key \in Keys
    BY <1>3, Started DEF FrontInv, WorkerInv
  <2>2. /\ updating' = [updating EXCEPT ![v] = None]
        /\ \/ /\ packages' = [packages EXCEPT ![v] = k]
              /\ load' = [load EXCEPT ![w] = "reply"]
              /\ worker' = [worker EXCEPT ![w].package = k] /\ faults' = faults
           \/ /\ packages' = packages /\ load' = [load EXCEPT ![w] = "error"]
              /\ worker' = worker /\ faults' = faults + 1 /\ faults < MaxFaults
           \/ /\ packages' = packages /\ load' = [load EXCEPT ![w] = "none"]
              /\ worker' = worker /\ faults' = faults
    BY <1>3 DEF PackageFetched, PackageFailed, LoadCancelled, DropUpdater, PackageOf, Fault
  <2>3. /\ \A x \in Workers : x # w => worker'[x] = worker[x] /\ load'[x] = load[x]
        /\ worker'[w].at = worker[w].at /\ worker'[w].key = worker[w].key
        /\ worker'[w].md = worker[w].md
        /\ worker'[w].package \in {k, worker[w].package}
        /\ load'[w] \in {"none", "error"} \/ (load'[w] = "reply" /\ worker'[w].package = k)
    <3> HIDE DEF k
    <3> QED  BY <1>1, <2>2 DEF TypeOK
  <2>4. Lasting
    BY <2>3 DEF Lasting
  <2>5. ASSUME NEW q \in Requests PROVE RequestInv(q)' /\ Answered(q)'
    BY <1>1, <2>4, Waiting DEF host
  <2>6. ASSUME NEW x \in Workers, x # w PROVE WorkerInv(x)' /\ LockInv(x)'
    <3>1. WorkerInv(x) /\ LockInv(x)
      BY DEF FrontInv
    <3>2. WorkerInv(x)'
      BY <2>3, <2>6, <3>1 DEF WorkerInv, PackageOf
    <3>3. ASSUME load[x] = "fetch" PROVE CacheKey(x) # v
      BY <1>1, <1>3, <2>1, <2>6, <3>1, <3>3 DEF LockInv
    <3>4. LockInv(x)'
      <4>1. CacheKey(x)' = CacheKey(x) /\ load'[x] = load[x]
        BY <2>3, <2>6 DEF CacheKey
      <4>2. ASSUME load[x] = "fetch"
            PROVE  updating'[CacheKey(x)] = x /\ packages'[CacheKey(x)] = None
        <5>1. CacheKey(x) \in Versions
          BY <3>1, <4>2, Started DEF WorkerInv
        <5>2. updating[CacheKey(x)] = x /\ packages[CacheKey(x)] = None /\ CacheKey(x) # v
          BY <3>1, <3>3, <4>2 DEF LockInv
        <5> HIDE DEF k
        <5> QED  BY <1>1, <2>2, <5>1, <5>2 DEF TypeOK
      <4> QED  BY <4>1, <4>2 DEF LockInv
    <3> QED  BY <3>2, <3>4
  <2>7. WorkerInv(w)'
    <3>1. PackageOf(w)' = k
      BY <2>3 DEF PackageOf
    <3>2. worker[w].at = "ready" => worker[w].package = k /\ Calls[k] # Broken
      BY <2>1 DEF WorkerInv
    <3>3. worker'[w].at = "ready" => worker'[w].package = k /\ Calls[k] # Broken
      BY <2>3, <3>2
    <3> HIDE DEF k
    <3> QED  BY <2>1, <2>3, <3>1, <3>3 DEF WorkerInv
  <2>8. LockInv(w)'
    BY <2>3 DEF LockInv
  <2>9. CacheInv'
    <3>1. ASSUME NEW p \in Paths, NEW n \in DOMAIN Metadata[p], Metadata[p][n].version = v
          PROVE  Metadata[p][n].package = k
      BY <1>3, <2>1, <3>1, VersionAssumption
         DEF WorkerInv, CacheKey, PackageOf, Keys
    <3>2. ASSUME NEW p \in Paths, NEW n \in DOMAIN Metadata[p]
          PROVE  packages'[Metadata[p][n].version] \in {None, Metadata[p][n].package}
      <4>1. Metadata[p][n].version \in Versions
        BY DEF Versions
      <4>2. packages[Metadata[p][n].version] \in {None, Metadata[p][n].package}
        BY DEF FrontInv, CacheInv
      <4> HIDE DEF k
      <4> QED  BY <1>1, <2>2, <3>1, <4>1, <4>2 DEF TypeOK
    <3> QED  BY <3>2 DEF CacheInv
  <2>10. TypeOK'
    <3>1. packages' \in [Versions -> Packages \cup {None}]
          /\ updating' \in [Versions -> Workers \cup {None}]
      <4> HIDE DEF k
      <4> QED  BY <1>1, <2>1, <2>2 DEF TypeOK
    <3>2. worker' \in [Workers -> [at : {"off", "starting", "ready", "reset", "gone"},
                                   key : Keys \cup {None}, md : Nat,
                                   package : Packages \cup {None}]]
      <4> HIDE DEF k
      <4> QED  BY <1>1, <2>1, <2>2 DEF TypeOK
    <3>3. load' \in [Workers -> {"none", "get", "wait", "fetch", "reply", "error"}]
      BY <1>1, <2>2 DEF TypeOK
    <3>4. faults' \in 0 .. MaxFaults
      BY <1>1, <2>2, BoundsAssumption DEF TypeOK
    <3> QED  BY <1>1, <3>1, <3>2, <3>3, <3>4 DEF TypeOK, host
  <2> QED  BY <2>5, <2>6, <2>7, <2>8, <2>9, <2>10 DEF FrontInv
<1> QED  BY <1>2, <1>3

\* A worker's load takes the lock of its version.
LEMMA LockTaken ==
    ASSUME FrontInv, NEW w \in Workers, PackageLock(w), packages[CacheKey(w)] = None
    PROVE  FrontInv'
<1> DEFINE v == CacheKey(w)
<1>1. /\ TypeOK /\ WorkerInv(w) /\ worker[w].at # "off" /\ v \in Versions
      /\ UNCHANGED <<host, worker, packages, faults>> /\ updating[v] = None
      /\ load' = [load EXCEPT ![w] = "fetch"] /\ updating' = [updating EXCEPT ![v] = w]
  BY Started DEF FrontInv, WorkerInv, PackageLock
<1>2. Lasting
  BY <1>1 DEF Lasting
<1>3. ASSUME NEW q \in Requests PROVE RequestInv(q)' /\ Answered(q)'
  BY <1>1, <1>2, Waiting DEF host
<1>4. ASSUME NEW x \in Workers PROVE WorkerInv(x)'
  BY <1>1 DEF FrontInv, WorkerInv, PackageOf, TypeOK
<1>5. ASSUME NEW x \in Workers PROVE LockInv(x)'
  <2>1. CASE x = w
    BY <1>1, <2>1 DEF LockInv, CacheKey, TypeOK
  <2>2. CASE x # w
    <3>1. LockInv(x) /\ CacheKey(x)' = CacheKey(x) /\ load'[x] = load[x]
      BY <1>1, <2>2 DEF FrontInv, CacheKey, TypeOK
    <3>2. load[x] = "fetch" => CacheKey(x) # v
      BY <1>1, <3>1, NoneAssumption DEF LockInv
    <3>3. ASSUME load[x] = "fetch"
          PROVE  updating'[CacheKey(x)] = x /\ packages'[CacheKey(x)] = None
      <4>1. CacheKey(x) \in Versions
        BY <3>3, Started DEF FrontInv, WorkerInv
      <4> HIDE DEF v
      <4> QED  BY <1>1, <3>1, <3>2, <3>3, <4>1 DEF LockInv, TypeOK
    <3> QED  BY <3>1, <3>3 DEF LockInv
  <2> QED  BY <2>1, <2>2
<1>6. CacheInv'
  BY <1>1 DEF FrontInv, CacheInv
<1>7. TypeOK'
  BY <1>1 DEF TypeOK, host
<1> QED  BY <1>3, <1>4, <1>5, <1>6, <1>7 DEF FrontInv

LEMMA WorkerSteps ==
    ASSUME FrontInv, NEW w \in Workers,
           \/ Load(w) \/ PackageFailed(w) \/ LoadCancelled(w) \/ Start(w)
           \/ InitTimeout(w) \/ Reset(w) \/ WorkerGone(w)
    PROVE  FrontInv'
<1> DEFINE Shape == [at : {"starting", "ready", "reset", "gone"}, key : Keys \cup {None},
                     md : Nat, package : Packages \cup {None}]
           with(at, package) == [worker[w] EXCEPT !.at = at, !.package = package]
<1>1. /\ TypeOK /\ WorkerInv(w) /\ LockInv(w)
  BY DEF FrontInv
<1>2. worker[w].at # "off"
  BY <1>1 DEF WorkerInv, Load, PackageHit, PackageMiss, PackageLock, PackageFetched,
              PackageFailed, LoadCancelled, Start, Boot, BootFails, InitTimeout, Reset, WorkerGone
<1>3. /\ worker[w] \in Shape /\ worker[w].package \in Packages \cup {None}
      /\ worker[w].at \in {"starting", "ready", "reset", "gone"}
  BY <1>1, <1>2 DEF TypeOK
<1>4. worker = [worker EXCEPT ![w] = worker[w]] /\ load = [load EXCEPT ![w] = load[w]]
  BY <1>1 DEF TypeOK
<1>5. /\ CacheKey(w) \in Versions /\ PackageOf(w) \in Packages
      /\ packages[CacheKey(w)] \in {None, PackageOf(w)}
  BY <1>2, Started
<1>6. worker[w].at = "ready" => worker[w].package = PackageOf(w) /\ Calls[PackageOf(w)] # Broken
  BY <1>1 DEF WorkerInv
<1>7. ASSUME NEW at \in {"starting", "ready", "reset", "gone"}, NEW package \in Packages \cup {None}
      PROVE  /\ with(at, package) \in Shape
             /\ with(at, package).at = at /\ with(at, package).package = package
             /\ with(at, package).key = worker[w].key /\ with(at, package).md = worker[w].md
  BY <1>3
\* The package is handed to the worker.
<1>8. ASSUME UNCHANGED <<host, packages, updating, faults>>,
             packages[CacheKey(w)] # None,
             load' = [load EXCEPT ![w] = "reply"],
             worker' = [worker EXCEPT ![w].package = packages[CacheKey(w)]]
      PROVE  FrontInv'
  <2> DEFINE u == with(worker[w].at, PackageOf(w))
  <2>1. worker' = [worker EXCEPT ![w] = u]
    BY <1>1, <1>3, <1>5, <1>8
  <2>2. /\ u \in Shape /\ u.key = worker[w].key /\ u.md = worker[w].md
        /\ u.at = worker[w].at /\ u.package = PackageOf(w)
    BY <1>3, <1>5, <1>7
  <2>3. u.at = "ready" => u.package = PackageOf(w) /\ Calls[u.package] # Broken
    BY <1>6, <2>2
  <2>4. /\ UNCHANGED <<host, packages, updating>>
        /\ faults' \in {faults, faults + 1} /\ (faults' # faults => faults < MaxFaults)
    BY <1>8
  <2> HIDE DEF u, Shape
  <2>5. u \in [at : {"starting", "ready", "reset", "gone"}, key : Keys \cup {None}, md : Nat,
               package : Packages \cup {None}]
    BY <2>2 DEF Shape
  <2> QED  BY <1>2, <1>8, <2>1, <2>2, <2>3, <2>4, <2>5, WorkerStep
\* The worker moves.
<1>9. ASSUME UNCHANGED <<host, packages, updating>>,
             faults' \in {faults, faults + 1}, faults' # faults => faults < MaxFaults,
             NEW at \in {"reset", "gone"}, NEW package \in {None, worker[w].package},
             worker' = [worker EXCEPT ![w].at = at, ![w].package = package],
             NEW l \in {"none", "get", load[w]}, load' = [load EXCEPT ![w] = l],
             l # "reply" \/ package = worker[w].package
      PROVE  FrontInv'
  <2> DEFINE u == with(at, package)
  <2>1. worker' = [worker EXCEPT ![w] = u]
    BY <1>1, <1>9
  <2>2. /\ u \in Shape /\ u.key = worker[w].key /\ u.md = worker[w].md
        /\ u.at = at /\ u.package = package
    BY <1>3, <1>7, <1>9
  <2>3. l = "reply" => u.package = PackageOf(w)
    BY <1>1, <1>9, <2>2 DEF WorkerInv
  <2> HIDE DEF u
  <2> QED  BY <1>2, <1>9, <2>1, <2>2, <2>3, WorkerStep
<1>10. CASE PackageFetched(w) \/ PackageFailed(w) \/ LoadCancelled(w)
  <2>1. CASE load[w] = "fetch"
    BY <1>5, <1>10, <2>1, CacheSteps
  <2>2. CASE load[w] # "fetch"
    <3>1. PICK l \in {"none", "error"} : load' = [load EXCEPT ![w] = l]
      BY <1>10, <2>2 DEF PackageFetched, PackageFailed, LoadCancelled
    <3>2. /\ worker' = [worker EXCEPT ![w] = worker[w]]
          /\ UNCHANGED <<host, packages, updating>>
          /\ faults' \in {faults, faults + 1} /\ (faults' # faults => faults < MaxFaults)
      BY <1>4, <1>10, <2>2 DEF PackageFetched, PackageFailed, LoadCancelled, DropUpdater, Fault
    <3> QED  BY <1>2, <1>3, <1>6, <3>1, <3>2, WorkerStep
  <2> QED  BY <2>1, <2>2
<1>11. CASE PackageHit(w)
  BY <1>8, <1>11 DEF PackageHit
<1>12. CASE PackageMiss(w)
  <2>1. /\ worker' = [worker EXCEPT ![w] = worker[w]] /\ load' = [load EXCEPT ![w] = "wait"]
        /\ UNCHANGED <<host, packages, updating, faults>>
    BY <1>4, <1>12 DEF PackageMiss
  <2> QED  BY <1>2, <1>3, <1>6, <2>1, WorkerStep
<1>13. CASE PackageLock(w)
  <2>1. CASE packages[CacheKey(w)] = None
    BY <1>13, <2>1, LockTaken
  <2>2. CASE packages[CacheKey(w)] # None
    BY <1>8, <1>13, <2>2 DEF PackageLock
  <2> QED  BY <2>1, <2>2
<1>14. CASE Boot(w)
  <2>1. CASE Calls[worker[w].package] = Broken
    <3>1. /\ worker' = [worker EXCEPT ![w].at = "gone", ![w].package = worker[w].package]
          /\ load' = [load EXCEPT ![w] = "none"] /\ UNCHANGED <<host, packages, updating, faults>>
      BY <1>1, <1>3, <1>14, <2>1 DEF Boot, Exit, TypeOK
    <3> QED  BY <1>9, <3>1
  <2>2. CASE Calls[worker[w].package] # Broken
    <3> DEFINE u == with("ready", worker[w].package)
    <3>1. /\ worker' = [worker EXCEPT ![w] = u]
          /\ load' = [load EXCEPT ![w] = "none"] /\ UNCHANGED <<host, packages, updating, faults>>
      BY <1>1, <1>3, <1>14, <2>2 DEF Boot, TypeOK
    <3>2. /\ u \in Shape /\ u.key = worker[w].key /\ u.md = worker[w].md
          /\ u.at = "ready" /\ u.package = worker[w].package
      BY <1>3, <1>7
    <3>3. worker[w].package = PackageOf(w)
      BY <1>1, <1>14 DEF WorkerInv, Boot
    <3> HIDE DEF u
    <3> QED  BY <1>2, <2>2, <3>1, <3>2, <3>3, WorkerStep
  <2> QED  BY <2>1, <2>2
<1>15. CASE BootFails(w)
  <2>1. /\ worker' = [worker EXCEPT ![w].at = "gone", ![w].package = worker[w].package]
        /\ load' = [load EXCEPT ![w] = "none"] /\ UNCHANGED <<host, packages, updating, faults>>
    BY <1>1, <1>3, <1>15 DEF BootFails, Exit, TypeOK
  <2> QED  BY <1>9, <2>1
<1>16. CASE InitTimeout(w)
  <2>1. /\ worker' = [worker EXCEPT ![w].at = "gone"]
        /\ load' = load /\ UNCHANGED <<host, packages, updating, faults>>
    BY <1>16 DEF InitTimeout, Exit
  <2>2. worker' = [worker EXCEPT ![w].at = "gone", ![w].package = worker[w].package]
    BY <1>1, <1>3, <2>1 DEF TypeOK
  <2>3. load' = [load EXCEPT ![w] = load[w]]
    BY <1>4, <2>1
  <2> QED  BY <1>9, <2>1, <2>2, <2>3
<1>17. CASE Reset(w)
  <2>1. /\ worker' = [worker EXCEPT ![w].at = "reset", ![w].package = None]
        /\ load' = [load EXCEPT ![w] = "get"] /\ UNCHANGED <<host, packages, updating>>
        /\ faults' = faults + 1 /\ faults < MaxFaults
    BY <1>17 DEF Reset, Fault
  <2> QED  BY <1>9, <2>1
<1>18. CASE WorkerGone(w)
  <2>1. /\ worker' = [worker EXCEPT ![w].at = "gone"]
        /\ load' = load /\ UNCHANGED <<host, packages, updating>>
        /\ faults' = faults + 1 /\ faults < MaxFaults
    BY <1>18 DEF WorkerGone, Exit, Fault
  <2>2. worker' = [worker EXCEPT ![w].at = "gone", ![w].package = worker[w].package]
    BY <1>1, <1>3, <2>1 DEF TypeOK
  <2>3. load' = [load EXCEPT ![w] = load[w]]
    BY <1>4, <2>1
  <2> QED  BY <1>9, <2>1, <2>2, <2>3
<1> QED  BY <1>10, <1>11, <1>12, <1>13, <1>14, <1>15, <1>16, <1>17, <1>18
         DEF Load, Start

-----------------------------------------------------------------------------
LEMMA Inductive ==
    /\ Init => FrontInv
    /\ FrontInv /\ [Next]_vars => FrontInv'
<1>1. ASSUME FrontInv, UNCHANGED vars PROVE FrontInv'
  <2>1. UNCHANGED <<host, worker, load, packages, updating, faults>> /\ Lasting
    BY <1>1 DEF vars, pool, Lasting
  <2>2. ASSUME NEW q \in Requests PROVE RequestInv(q)' /\ Answered(q)'
    BY <1>1, <2>1, Waiting DEF host
  <2>3. ASSUME NEW w \in Workers PROVE WorkerInv(w)' /\ LockInv(w)'
    BY <1>1, <2>1 DEF FrontInv, WorkerInv, LockInv, PackageOf, CacheKey
  <2>4. CacheInv' /\ TypeOK'
    BY <1>1, <2>1 DEF FrontInv, CacheInv, TypeOK, host
  <2> QED  BY <2>2, <2>3, <2>4 DEF FrontInv
<1>2. ASSUME FrontInv, Next PROVE FrontInv'
  <2>1. ASSUME NEW r \in Requests, Handle(r) \/ Proceed(r) \/ EarlyError(r) PROVE FrontInv'
    BY <1>2, <2>1, RequestSteps, GetWorkerStep DEF Proceed
  <2>2. ASSUME NEW p \in Paths, Deploy(p) \/ Evict(p) PROVE FrontInv'
    BY <1>2, <2>2, StoreSteps
  <2>3. ASSUME NEW w \in Workers,
               \/ Load(w) \/ PackageFailed(w) \/ LoadCancelled(w) \/ Start(w)
               \/ InitTimeout(w) \/ Reset(w) \/ WorkerGone(w)
        PROVE  FrontInv'
    BY <1>2, <2>3, WorkerSteps
  <2>4. ASSUME NEW v \in Versions, PackageExpire(v) PROVE FrontInv'
    BY <1>2, <2>4, CacheSteps
  <2> QED  BY <1>2, <2>1, <2>2, <2>3, <2>4 DEF Next
<1> QED  BY InitInv, <1>1, <1>2

\* Metadata, workers and caches are well typed: what is cached or being served
\* is something that was deployed.
THEOREM TypeCorrect == Spec => []TypeOK
<1>1. FrontInv => TypeOK
  BY DEF FrontInv
<1> QED  BY Inductive, <1>1, PTL DEF Spec

\* A request is answered by the package of the version its metadata names,
\* however versions, paths, workers and both caches come and go.
THEOREM RightPackageAnswers == Spec => []AnsweredByItsPackage
<1>1. FrontInv => AnsweredByItsPackage
  BY DEF FrontInv, Answered, AnsweredByItsPackage
<1> QED  BY Inductive, <1>1, PTL DEF Spec

\* However many workers of a version start at once, one of them fetches.
THEOREM OneFetch == Spec => []FetchedOnce
<1>1. FrontInv => FetchedOnce
  BY DEF FrontInv, LockInv, FetchedOnce
<1> QED  BY Inductive, <1>1, PTL DEF Spec

\* Cached metadata goes back only by the insertion of a request that had missed
\* before the newer entry was made.
THEOREM OnlyARaceGoesBack == Spec => StaleOnlyByRace
<1>1. ASSUME FrontInv, [Next]_vars, NEW p \in Paths,
             cache[p] # None, cache'[p] # None, cache'[p] < cache[p]
      PROVE  \E r \in missed[p] : req[r].at = "loaded" /\ req[r].md = cache'[p]
  <2>1. DOMAIN cache = Paths /\ cache[p] \in Nat
    BY <1>1, MetadataAssumption DEF FrontInv, TypeOK
  <2>2. cache' # cache /\ ~(\E q \in Paths : Evict(q))
    BY <1>1, <2>1 DEF Evict
  <2>3. PICK r \in Requests : MdInsert(r)
    BY <1>1, <2>2 DEF Next, vars, host, Handle, Proceed, EarlyError, MdHit, MdMiss, MdRead, GetWorker,
       MdKeep, Serve, InvokeError, Deploy, Load, PackageHit, PackageMiss, PackageLock,
       PackageFetched, PackageFailed, LoadCancelled, Start, Boot, BootFails, InitTimeout, Reset,
       WorkerGone, PackageExpire
  <2>4. cache' = [cache EXCEPT ![PathOf(r)] = req[r].md] /\ req[r].at = "loaded"
    BY <2>3 DEF MdInsert
  <2>5. PathOf(r) = p /\ cache'[p] = req[r].md
    BY <1>1, <2>1, <2>4
  <2> QED  BY <1>1, <2>4, <2>5 DEF FrontInv, RequestInv
<1>2. FrontInv /\ [Next]_vars =>
        [\A p \in Paths :
            cache[p] # None /\ cache'[p] # None /\ cache'[p] < cache[p] =>
                \E r \in missed[p] : req[r].at = "loaded" /\ req[r].md = cache'[p]]_vars
  BY <1>1
<1> QED  BY Inductive, <1>2, PTL DEF Spec, StaleOnlyByRace

-----------------------------------------------------------------------------
(* The memory monitor.                                                     *)

\* What the readings can be: no more than the memory of the system.
LEMMA ReadingsBounded == Readings \subseteq 0..MaxMem
<1> SUFFICES ASSUME NEW sys \in 0..MaxMem,
                    NEW cg \in [limit : {MaxMem}, usage : 0..(MaxMem + 1)] \cup {Unset}
             PROVE  Available(sys, cg) \in 0..MaxMem
  BY DEF Readings
<1>1. CASE cg = Unset
  BY <1>1 DEF Available
<1>2. CASE cg # Unset
  <2>1. cg.limit \in Nat /\ cg.usage \in Nat
    BY <1>2, WatermarkAssumption
  <2>2. Monus(cg.limit, cg.usage) \in Nat
    BY <2>1 DEF Monus
  <2> QED
    BY <1>2, <2>2, WatermarkAssumption DEF Available
<1> QED
  BY <1>1, <1>2

\* The levels are the levels of the enum.
LEMMA LevelType == ASSUME NEW mem \in Nat PROVE Level(mem) \in Levels
BY WatermarkAssumption DEF Level, Levels

\* The monitor's state is well-typed, and it has tuned smr exactly if it has
\* taken a reading.
THEOREM MonitorTypeCorrect == MonitorSpec => []MonitorTypeOK
<1>1. MonitorInit => MonitorTypeOK
  BY WatermarkAssumption, UnsetAssumption DEF MonitorInit, MonitorTypeOK, Levels
<1>2. MonitorTypeOK /\ [MonitorNext]_monitorVars => MonitorTypeOK'
  <2> SUFFICES ASSUME MonitorTypeOK, [MonitorNext]_monitorVars PROVE MonitorTypeOK'
    OBVIOUS
  <2>1. CASE MonitorNext
    <3>1. PICK mem \in Readings : Tick(mem)
      BY <2>1 DEF MonitorNext
    <3>2. mem \in 0..MaxMem
      BY ReadingsBounded
    <3>3. Stabilize(Level(mem), mem) \in Levels
      BY <3>2, LevelType, WatermarkAssumption DEF Stabilize, MonitorTypeOK
    <3>4. last' \in Levels
      BY <3>1, <3>3 DEF Tick
    <3>5. maxWorkers' \in {1, 4}
      BY <3>1 DEF Tick, WorkersPerApp
    <3> QED
      BY <3>1, <3>2, <3>4, <3>5, UnsetAssumption DEF Tick, MonitorTypeOK, Levels
  <2>2. CASE UNCHANGED monitorVars
    BY <2>2 DEF monitorVars, MonitorTypeOK
  <2> QED
    BY <2>1, <2>2
<1> QED
  BY <1>1, <1>2, PTL DEF MonitorSpec

\* One worker per app means that the level is Critical: what the hysteresis
\* remembers is what the scheduler was told.
Tuned == maxWorkers = 1 => last = "Critical"

LEMMA TunedAlways == MonitorSpec => []Tuned
<1>1. MonitorInit => Tuned
  BY UnsetAssumption DEF MonitorInit, Tuned
<1>2. Tuned /\ [MonitorNext]_monitorVars => Tuned'
  <2> SUFFICES ASSUME Tuned, [MonitorNext]_monitorVars PROVE Tuned'
    OBVIOUS
  <2>1. CASE MonitorNext
    BY <2>1 DEF MonitorNext, Tick, WorkersPerApp, Tuned
  <2>2. CASE UNCHANGED monitorVars
    BY <2>2 DEF monitorVars, Tuned
  <2> QED
    BY <2>1, <2>2
<1> QED
  BY <1>1, <1>2, PTL DEF MonitorSpec

\* Hysteresis, for every gap and every choice of watermarks with the critical
\* one below the high one (which the program does not check): apps get their
\* workers back only at a reading at least the gap above the critical one.
THEOREM Hysteresis == ASSUME CriticalWm <= HighWm PROVE MonitorSpec => NoFlapping
<1>1. MonitorTypeOK /\ Tuned /\ [MonitorNext]_monitorVars =>
        [maxWorkers = 1 /\ maxWorkers' = 4 => avail' >= CriticalWm + MinGap]_monitorVars
  <2> SUFFICES ASSUME MonitorTypeOK, Tuned, MonitorNext, maxWorkers = 1, maxWorkers' = 4
               PROVE  avail' >= CriticalWm + MinGap
    OBVIOUS
  <2>1. PICK mem \in Readings : Tick(mem)
    BY DEF MonitorNext
  <2>2. mem \in Nat /\ avail' = mem
    BY <2>1, ReadingsBounded DEF Tick
  <2>3. last = "Critical"
    BY DEF Tuned
  <2>4. Stabilize(Level(mem), mem) # "Critical"
    BY <2>1 DEF Tick, WorkersPerApp
  <2>5. Level(mem) # "Critical" /\ ~(Gap(mem) < MinGap)
    BY <2>2, <2>3, <2>4, LevelType, UnsetAssumption DEF Stabilize, Levels, Rank
  <2>6. CASE Level(mem) = "High"
    <3>1. Gap(mem) = mem - CriticalWm
      BY <2>6 DEF Gap
    <3> QED
      BY <2>2, <2>5, <3>1, WatermarkAssumption
  <2>7. CASE Level(mem) = "Normal"
    <3>1. Gap(mem) = mem - HighWm
      BY <2>7 DEF Gap
    <3> QED
      BY <2>2, <2>5, <3>1, WatermarkAssumption
  <2> QED
    BY <2>2, <2>5, <2>6, <2>7, LevelType DEF Levels
<1> QED
  BY <1>1, MonitorTypeCorrect, TunedAlways, PTL DEF MonitorSpec, NoFlapping

-----------------------------------------------------------------------------
(* The router: induction.                                                  *)

\* What holds of 0, and of every number up to n whose predecessor it holds of.
LEMMA UpTo ==
    ASSUME NEW n \in Nat, NEW P, 0 \in P, \A i \in 1 .. n : i - 1 \in P => i \in P
    PROVE  \A i \in 0 .. n : i \in P
<1> DEFINE bad == {i \in 0 .. n : i \notin P}
<1>1. bad \subseteq Nat
  OBVIOUS
<1>2. ASSUME bad # {} PROVE FALSE
  <2>1. PICK i \in bad : \A j \in bad : ~(<<j, i>> \in OpToRel(<, Nat))
    <3> HIDE DEF bad
    <3> QED  BY <1>1, <1>2, NatLessThanWellFounded, WFMin
  <2>2. i \in 1 .. n /\ i - 1 \in 0 .. n /\ i - 1 < i /\ i \in Nat /\ i - 1 \in Nat
    OBVIOUS
  <2>3. i - 1 \notin bad
    <3> HIDE DEF bad
    <3> QED  BY <2>1, <2>2 DEF OpToRel
  <2> QED  BY <2>2, <2>3
<1> QED  BY <1>2

\* f carries x along the numbers up to n, by F.
Carries(f, n, X, x, F) ==
    f \in [0 .. n -> X] /\ f[0] = x /\ \A i \in 1 .. n : f[i] = F[i][f[i - 1]]

\* A value can be carried along the numbers up to n.
LEMMA Recursion ==
    ASSUME NEW n \in Nat, NEW X, NEW x \in X, NEW F \in [1 .. n -> [X -> X]]
    PROVE  \E f : Carries(f, n, X, x, F)
<1> DEFINE Good(k, f) == f[0] = x /\ \A i \in 1 .. k : f[i] = F[i][f[i - 1]]
           P == {k \in 0 .. n : \E f \in [0 .. k -> X] : Good(k, f)}
<1>1. 0 \in P
  <2>1. [i \in 0 .. 0 |-> x] \in [0 .. 0 -> X] /\ Good(0, [i \in 0 .. 0 |-> x])
    OBVIOUS
  <2>2. 0 \in 0 .. n
    OBVIOUS
  <2> HIDE DEF Good
  <2> QED  BY <2>1, <2>2
<1>2. ASSUME NEW k \in 1 .. n, k - 1 \in P PROVE k \in P
  <2>1. PICK f \in [0 .. k - 1 -> X] : Good(k - 1, f)
    BY <1>2
  <2> DEFINE g == [i \in 0 .. k |-> IF i = k THEN F[k][f[k - 1]] ELSE f[i]]
  <2>2. f[k - 1] \in X /\ F[k][f[k - 1]] \in X
    OBVIOUS
  <2>3. g \in [0 .. k -> X]
    BY <2>2
  <2>4. ASSUME NEW i \in 1 .. k PROVE g[i] = F[i][g[i - 1]]
    <3>1. i - 1 \in 0 .. k /\ i - 1 # k /\ g[i - 1] = f[i - 1]
      OBVIOUS
    <3>2. CASE i = k
      BY <3>1, <3>2
    <3>3. CASE i # k
      <4>1. i \in 1 .. k - 1 /\ g[i] = f[i]
        BY <3>3
      <4> QED  BY <2>1, <3>1, <4>1
    <3> QED  BY <3>2, <3>3
  <2>5. g[0] = x
    BY <2>1
  <2>6. Good(k, g) /\ k \in 0 .. n
    <3> HIDE DEF g
    <3> QED  BY <2>4, <2>5
  <2> HIDE DEF Good, g
  <2> QED  BY <2>3, <2>6
<1>3. n \in P
  <2>1. \A i \in 0 .. n : i \in P
    <3> HIDE DEF P
    <3> QED  BY <1>1, <1>2, UpTo
  <2> QED  BY <2>1
<1> QED  BY <1>3 DEF Carries

-----------------------------------------------------------------------------
(* The app's calls.                                                        *)

Segments == STRING \cup {Dir, Star}

CallRecords == [kind : Verbs \cup {"any", "use"}, path : Seq(Segments) \ {<<>>}, id : Nat]

Regs == {regs \in Seq(CallRecords) : \A i \in 1 .. Len(regs) : regs[i].id = i}

LEMMA RegFacts ==
    ASSUME NEW regs \in Regs
    PROVE  /\ Len(regs) \in Nat /\ DOMAIN regs = 1 .. Len(regs)
           /\ \A i \in 1 .. Len(regs) :
                 /\ regs[i].id = i /\ regs[i].kind \in Verbs \cup {"any", "use"}
                 /\ regs[i].path \in Seq(Segments) /\ regs[i].path # <<>>
<1>1. regs \in Seq(CallRecords) /\ \A i \in 1 .. Len(regs) : regs[i].id = i
  BY DEF Regs
<1>2. \A r \in CallRecords : r.kind \in Verbs \cup {"any", "use"} /\ r.path \in Seq(Segments) /\ r.path # <<>>
  BY DEF CallRecords
<1> QED  BY <1>1, <1>2

UsedAt(regs, node) == {i \in 1 .. Len(regs) : regs[i].kind = "use" /\ regs[i].path = node}

\* The middlewares of a node are its calls of `use`, each of them once.
LEMMA MiddlewareFacts ==
    ASSUME NEW regs \in Regs, NEW node
    PROVE  /\ Middlewares(regs, node) \in Seq(Nat)
           /\ \A m, n \in 1 .. Len(Middlewares(regs, node)) :
                 Middlewares(regs, node)[m] = Middlewares(regs, node)[n] => m = n
           /\ \A i : i \in UsedAt(regs, node) <=>
                 \E n \in 1 .. Len(Middlewares(regs, node)) : Middlewares(regs, node)[n] = i
<1> DEFINE here(i) == regs[i].kind = "use" /\ regs[i].path = node
           F == [i \in 1 .. Len(regs) |->
                    [q \in Seq(Nat) |-> IF here(i) THEN Append(q, regs[i].id) ELSE q]]
           d(u) == [i \in 0 .. Len(regs) |->
                      IF i = 0 THEN <<>>
                      ELSE IF regs[i].kind = "use" /\ regs[i].path = node
                           THEN Append(u[i - 1], regs[i].id) ELSE u[i - 1]]
           used == CHOOSE u : u = d(u)
<1>1. Len(regs) \in Nat /\ \A i \in 1 .. Len(regs) : regs[i].id = i /\ regs[i].id \in Nat
  BY RegFacts
<1>2. \E f : f = d(f)
  <2>1. F \in [1 .. Len(regs) -> [Seq(Nat) -> Seq(Nat)]] /\ <<>> \in Seq(Nat)
    <3> HIDE DEF here
    <3> QED  BY <1>1
  <2>2. PICK f \in [0 .. Len(regs) -> Seq(Nat)] :
            f[0] = <<>> /\ \A i \in 1 .. Len(regs) : f[i] = F[i][f[i - 1]]
    <3> DEFINE n == Len(regs)
               X == Seq(Nat)
               x == <<>>
    <3>1. n \in Nat /\ x \in X /\ F \in [1 .. n -> [X -> X]]
      BY <1>1, <2>1
    <3>2. \E f : Carries(f, n, X, x, F)
      <4> HIDE DEF F, n, X, x
      <4> QED  BY <3>1, Recursion
    <3> QED  BY <3>2 DEF Carries
  <2>3. ASSUME NEW i \in 1 .. Len(regs) PROVE f[i] = IF here(i) THEN Append(f[i - 1], regs[i].id) ELSE f[i - 1]
    <3>1. f[i - 1] \in Seq(Nat)
      BY <1>1
    <3> QED  BY <2>2, <3>1
  <2>4. f = d(f)
    <3>1. DOMAIN f = 0 .. Len(regs) /\ f = [i \in 0 .. Len(regs) |-> f[i]]
      BY <2>2
    <3>2. \A i \in 0 .. Len(regs) : i = 0 \/ i \in 1 .. Len(regs)
      BY <1>1
    <3>3. \A i \in 0 .. Len(regs) : f[i] = d(f)[i]
      <4> HIDE DEF F
      <4> QED  BY <2>2, <2>3, <3>2
    <3>4. d(f) = [i \in 0 .. Len(regs) |-> d(f)[i]]
      OBVIOUS
    <3> HIDE DEF d
    <3> QED  BY <3>1, <3>3, <3>4
  <2> QED  BY <2>4
<1>3. used = d(used)
  <2> HIDE DEF d
  <2> QED  BY <1>2
<1>4. Middlewares(regs, node) = used[Len(regs)]
  BY DEF Middlewares
<1> HIDE DEF used
<1>5. /\ used[0] = <<>>
      /\ \A i \in 1 .. Len(regs) :
            used[i] = IF here(i) THEN Append(used[i - 1], regs[i].id) ELSE used[i - 1]
  <2>1. \A i \in 0 .. Len(regs) : used[i] = d(used)[i]
    <3> HIDE DEF d
    <3> QED  BY <1>3
  <2>2. \A i \in 1 .. Len(regs) : i \in 0 .. Len(regs) /\ i # 0
    BY <1>1
  <2>3. 0 \in 0 .. Len(regs)
    BY <1>1
  <2> QED  BY <2>1, <2>2, <2>3
<1> DEFINE Fine(i) ==
              /\ used[i] \in Seq(Nat)
              /\ \A m, n \in 1 .. Len(used[i]) : used[i][m] = used[i][n] => m = n
              /\ \A k : (k \in 1 .. i /\ here(k)) <=> \E n \in 1 .. Len(used[i]) : used[i][n] = k
           P == {i \in 0 .. Len(regs) : Fine(i)}
<1>6. 0 \in P
  <2>1. Len(used[0]) = 0 /\ used[0] \in Seq(Nat) /\ 1 .. 0 = {}
    BY <1>5
  <2>2. Fine(0)
    <3> HIDE DEF here
    <3> QED  BY <2>1
  <2>3. 0 \in 0 .. Len(regs)
    BY <1>1
  <2> HIDE DEF Fine
  <2> QED  BY <2>2, <2>3
<1>7. ASSUME NEW i \in 1 .. Len(regs), i - 1 \in P PROVE i \in P
  <2> DEFINE q == used[i - 1]
  <2>1. Fine(i - 1)
    BY <1>7
  <2>2. CASE here(i)
    <3>1. q \in Seq(Nat) /\ Len(q) \in Nat /\ used[i] = Append(q, i) /\ i \in Nat
      <4>1. used[i] = Append(q, i) /\ i \in Nat
        BY <1>1, <1>5, <2>2
      <4>2. q \in Seq(Nat)
        BY <2>1
      <4> QED  BY <4>1, <4>2
    <3>2. /\ used[i] \in Seq(Nat) /\ Len(used[i]) = Len(q) + 1
          /\ \A n \in 1 .. Len(q) + 1 : used[i][n] = IF n = Len(q) + 1 THEN i ELSE q[n]
      BY <3>1
    <3>3. \A n \in 1 .. Len(q) : q[n] \in 1 .. i - 1
      BY <2>1
    <3>4. \A n \in 1 .. Len(q) : q[n] # i
      BY <3>3
    <3>5. \A m, n \in 1 .. Len(used[i]) : used[i][m] = used[i][n] => m = n
      <4> HIDE DEF q
      <4>1. \A n \in 1 .. Len(q) + 1 : n = Len(q) + 1 \/ n \in 1 .. Len(q)
        BY <3>1
      <4>2. \A m, n \in 1 .. Len(q) : q[m] = q[n] => m = n
        BY <2>1 DEF q
      <4> QED  BY <3>1, <3>2, <3>4, <4>1, <4>2
    <3>6. ASSUME NEW k
          PROVE  (k \in 1 .. i /\ here(k)) <=> \E n \in 1 .. Len(used[i]) : used[i][n] = k
      <4>1. (k \in 1 .. i /\ here(k)) <=> (k \in 1 .. i - 1 /\ here(k)) \/ k = i
        BY <2>2, <3>1
      <4>2. (k \in 1 .. i - 1 /\ here(k)) <=> \E n \in 1 .. Len(q) : q[n] = k
        BY <2>1
      <4> HIDE DEF q, here
      <4>3. (\E n \in 1 .. Len(used[i]) : used[i][n] = k) <=> (\E n \in 1 .. Len(q) : q[n] = k) \/ k = i
        <5>1. \A n \in 1 .. Len(q) + 1 : n = Len(q) + 1 \/ n \in 1 .. Len(q)
          BY <3>1
        <5>2. \A n \in 1 .. Len(q) : n \in 1 .. Len(q) + 1 /\ n # Len(q) + 1
          BY <3>1
        <5>3. Len(q) + 1 \in 1 .. Len(q) + 1
          BY <3>1
        <5> QED  BY <3>2, <5>1, <5>2, <5>3
      <4> QED  BY <4>1, <4>2, <4>3
    <3>7. Fine(i)
      BY <3>2, <3>5, <3>6
    <3> QED  BY <3>7
  <2>3. CASE ~here(i)
    <3>1. used[i] = q
      BY <1>5, <2>3
    <3>2. \A k : (k \in 1 .. i /\ here(k)) <=> (k \in 1 .. i - 1 /\ here(k))
      <4>1. \A k \in 1 .. i : k \in 1 .. i - 1 \/ k = i
        BY <1>1
      <4>2. \A k \in 1 .. i - 1 : k \in 1 .. i
        BY <1>1
      <4> HIDE DEF here
      <4> QED  BY <2>3, <4>1, <4>2
    <3>3. Fine(i)
      BY <2>1, <3>1, <3>2
    <3> QED  BY <3>3
  <2> QED  BY <2>2, <2>3
<1>8. Fine(Len(regs))
  <2>1. \A i \in 0 .. Len(regs) : i \in P
    <3> HIDE DEF P
    <3> QED  BY <1>1, <1>6, <1>7, UpTo
  <2> QED  BY <1>1, <2>1
<1> QED  BY <1>4, <1>8 DEF UsedAt

-----------------------------------------------------------------------------
(* Sequences by their elements.                                            *)

LEMMA SameElements ==
    ASSUME NEW S, NEW s \in Seq(S), NEW t \in Seq(S), Len(s) = Len(t),
           \A j \in 1 .. Len(s) : s[j] = t[j]
    PROVE  s = t
OBVIOUS

LEMMA AppendFacts ==
    ASSUME NEW S, NEW s \in Seq(S), NEW x \in S
    PROVE  /\ Append(s, x) \in Seq(S) /\ Len(Append(s, x)) = Len(s) + 1
           /\ \A j \in 1 .. Len(s) : Append(s, x)[j] = s[j]
           /\ Append(s, x)[Len(s) + 1] = x
OBVIOUS

LEMMA CutFacts ==
    ASSUME NEW S, NEW s \in Seq(S), NEW k \in 0 .. Len(s)
    PROVE  /\ SubSeq(s, 1, k) \in Seq(S) /\ Len(SubSeq(s, 1, k)) = k
           /\ \A j \in 1 .. k : SubSeq(s, 1, k)[j] = s[j]
           /\ k \in Nat
OBVIOUS

\* A sequence is what is before an element, and that element.
LEMMA CutAndNext ==
    ASSUME NEW S, NEW s \in Seq(S), NEW k \in 1 .. Len(s)
    PROVE  /\ SubSeq(s, 1, k) = Append(SubSeq(s, 1, k - 1), s[k])
           /\ k - 1 \in 0 .. Len(s) /\ s[k] \in S
<1>1. k - 1 \in 0 .. Len(s) /\ s[k] \in S /\ k \in 0 .. Len(s) /\ k \in Nat /\ Len(s) \in Nat
  OBVIOUS
<1> DEFINE u == SubSeq(s, 1, k - 1)
<1>2. /\ u \in Seq(S) /\ Len(u) = k - 1 /\ \A j \in 1 .. k - 1 : u[j] = s[j]
  BY <1>1, CutFacts
<1>3. /\ SubSeq(s, 1, k) \in Seq(S) /\ Len(SubSeq(s, 1, k)) = k
      /\ \A j \in 1 .. k : SubSeq(s, 1, k)[j] = s[j]
  BY <1>1, CutFacts
<1> HIDE DEF u
<1>4. /\ Append(u, s[k]) \in Seq(S) /\ Len(Append(u, s[k])) = k
      /\ \A j \in 1 .. k - 1 : Append(u, s[k])[j] = u[j]
      /\ Append(u, s[k])[k] = s[k]
  <2>1. Len(u) + 1 = k
    BY <1>1, <1>2
  <2> QED  BY <1>1, <1>2, <2>1, AppendFacts
<1>5. \A j \in 1 .. k : j = k \/ j \in 1 .. k - 1
  BY <1>1
<1>6. \A j \in 1 .. k : SubSeq(s, 1, k)[j] = Append(u, s[k])[j]
  BY <1>2, <1>3, <1>4, <1>5
<1>7. SubSeq(s, 1, k) = Append(u, s[k])
  BY <1>3, <1>4, <1>6, SameElements
<1> QED  BY <1>1, <1>7 DEF u

\* What agrees up to an element is cut to the same there.
LEMMA SameCut ==
    ASSUME NEW S, NEW s \in Seq(S), NEW t \in Seq(S), NEW k \in Nat, k <= Len(s), k <= Len(t),
           \A j \in 1 .. k : s[j] = t[j]
    PROVE  SubSeq(s, 1, k) = SubSeq(t, 1, k)
<1>1. k \in 0 .. Len(s) /\ k \in 0 .. Len(t)
  OBVIOUS
<1>2. /\ SubSeq(s, 1, k) \in Seq(S) /\ Len(SubSeq(s, 1, k)) = k
      /\ \A j \in 1 .. k : SubSeq(s, 1, k)[j] = s[j]
  BY <1>1, CutFacts
<1>3. /\ SubSeq(t, 1, k) \in Seq(S) /\ Len(SubSeq(t, 1, k)) = k
      /\ \A j \in 1 .. k : SubSeq(t, 1, k)[j] = t[j]
  BY <1>1, CutFacts
<1>4. \A j \in 1 .. k : SubSeq(s, 1, k)[j] = SubSeq(t, 1, k)[j]
  BY <1>2, <1>3
<1> QED  BY <1>2, <1>3, <1>4, SameElements

LEMMA WholeCut ==
    ASSUME NEW S, NEW s \in Seq(S)
    PROVE  SubSeq(s, 1, Len(s)) = s
<1>1. Len(s) \in 0 .. Len(s)
  OBVIOUS
<1>2. /\ SubSeq(s, 1, Len(s)) \in Seq(S) /\ Len(SubSeq(s, 1, Len(s))) = Len(s)
      /\ \A j \in 1 .. Len(s) : SubSeq(s, 1, Len(s))[j] = s[j]
  BY <1>1, CutFacts
<1> QED  BY <1>2, SameElements

-----------------------------------------------------------------------------
(* Nodes and the walk along a path.                                        *)

\* A node is a path, and with it there are all nodes on the way to it.
LEMMA NodeFacts ==
    ASSUME NEW regs \in Regs
    PROVE  /\ <<>> \in Nodes(regs) /\ Nodes(regs) \subseteq Seq(Segments)
           /\ \A v \in Nodes(regs) : \A k \in 0 .. Len(v) : SubSeq(v, 1, k) \in Nodes(regs)
<1>1. DOMAIN regs = 1 .. Len(regs) /\ \A i \in DOMAIN regs : regs[i].path \in Seq(Segments)
  BY RegFacts
<1>2. <<>> \in Nodes(regs) /\ <<>> \in Seq(Segments)
  BY DEF Nodes
<1>3. ASSUME NEW i \in DOMAIN regs, NEW n \in 1 .. Len(regs[i].path)
      PROVE  /\ SubSeq(regs[i].path, 1, n) \in Seq(Segments)
             /\ SubSeq(regs[i].path, 1, n) \in Nodes(regs)
             /\ \A k \in 0 .. Len(SubSeq(regs[i].path, 1, n)) :
                   SubSeq(SubSeq(regs[i].path, 1, n), 1, k) \in Nodes(regs)
  <2> DEFINE p == regs[i].path
             v == SubSeq(p, 1, n)
  <2>1. p \in Seq(Segments) /\ n \in 0 .. Len(p) /\ n \in Nat /\ Len(p) \in Nat
    BY <1>1
  <2>2. v \in Seq(Segments) /\ Len(v) = n /\ \A j \in 1 .. n : v[j] = p[j]
    <3> HIDE DEF p
    <3> QED  BY <2>1, CutFacts
  <2>3. \A k \in 1 .. Len(p) : SubSeq(p, 1, k) \in Nodes(regs)
    BY DEF Nodes
  <2>4. ASSUME NEW k \in 0 .. Len(v) PROVE SubSeq(v, 1, k) \in Nodes(regs)
    <3>1. CASE k = 0
      <4>1. SubSeq(v, 1, k) = <<>>
        <5> HIDE DEF v
        <5> QED  BY <2>2, <3>1
      <4> QED  BY <1>2, <4>1
    <3>2. CASE k # 0
      <4>1. k \in Nat /\ k <= Len(v) /\ k <= Len(p) /\ k \in 1 .. Len(p) /\ \A j \in 1 .. k : v[j] = p[j]
        <5> HIDE DEF v, p
        <5> QED  BY <2>1, <2>2, <3>2
      <4>2. SubSeq(v, 1, k) = SubSeq(p, 1, k)
        <5> HIDE DEF v, p
        <5> QED  BY <2>1, <2>2, <4>1, SameCut
      <4> QED  BY <2>3, <4>1, <4>2
    <3> QED  BY <3>1, <3>2
  <2> QED  BY <2>2, <2>3, <2>4
<1>4. \A v \in Nodes(regs) : v = <<>> \/ \E i \in DOMAIN regs : \E n \in 1 .. Len(regs[i].path) :
                                v = SubSeq(regs[i].path, 1, n)
  BY DEF Nodes
<1>5. \A k \in 0 .. Len(<<>>) : SubSeq(<<>>, 1, k) = <<>>
  OBVIOUS
<1> QED  BY <1>2, <1>3, <1>4, <1>5

WalkStates == [node : Seq(Segments), mw : Seq(Seq(Segments)),
               at : {"path", "directory", "nowhere", "thrown"}]

LEMMA PushFacts ==
    ASSUME NEW regs, NEW mw \in Seq(Seq(Segments)), NEW node \in Seq(Segments)
    PROVE  Push(regs, mw, node) \in Seq(Seq(Segments))
<1>1. Append(mw, node) \in Seq(Seq(Segments))
  OBVIOUS
<1> QED  BY <1>1 DEF Push

\* What a step comes to: nothing, once the walk has ended; an exception; a
\* child; the handler of the directory; or nothing.
LEMMA StepFacts ==
    ASSUME NEW regs \in Regs, NEW path \in Seq(Segments), NEW i \in 1 .. Len(path),
           NEW w \in WalkStates, NEW s, s = Step(regs, path, w, i)
    PROVE  /\ s \in WalkStates
           /\ w.at # "path" => s = w
           /\ w.at = "path" =>
                LET dir == Append(w.node, Dir)
                    mw == Push(regs, w.mw, dir)
                IN  \/ s.at = "thrown"
                    \/ /\ s.at = "path" /\ s.node \in Nodes(regs)
                       /\ \/ s.node = Append(w.node, path[i])
                          \/ /\ s.node = Append(w.node, Star)
                             /\ Append(w.node, path[i]) \notin Nodes(regs)
                       /\ s.mw = Push(regs, mw, s.node)
                       /\ path[i] = Dir => i = Len(path)
                    \/ /\ Append(w.node, path[i]) \notin Nodes(regs)
                       /\ Append(w.node, Star) \notin Nodes(regs)
                       /\ path[i] = Dir => i = Len(path)
                       /\ \/ /\ s.at = "directory" /\ s.node = dir /\ dir \in Nodes(regs)
                             /\ s.mw = mw
                          \/ s.at = "nowhere"
<1> DEFINE dir == Append(w.node, Dir)
           mw == Push(regs, w.mw, dir)
           child == Child(regs, w.node, path[i])
<1>1. w.node \in Seq(Segments) /\ w.mw \in Seq(Seq(Segments)) /\ path[i] \in Segments
  BY DEF WalkStates
<1>2. /\ dir \in Seq(Segments) /\ Append(w.node, path[i]) \in Seq(Segments)
      /\ Append(w.node, Star) \in Seq(Segments)
  <2>1. Dir \in Segments /\ Star \in Segments
    BY DEF Segments
  <2> QED  BY <1>1, <2>1, AppendFacts
<1>3. mw \in Seq(Seq(Segments))
  <2> HIDE DEF dir
  <2> QED  BY <1>1, <1>2, PushFacts
<1>4. \A c \in child : /\ c \in Nodes(regs) /\ c \in Seq(Segments)
                       /\ \/ c = Append(w.node, path[i])
                          \/ /\ c = Append(w.node, Star)
                             /\ Append(w.node, path[i]) \notin Nodes(regs)
  <2>1. Nodes(regs) \subseteq Seq(Segments)
    BY NodeFacts
  <2> QED  BY <2>1 DEF Child
<1>5. child = {} => /\ Append(w.node, path[i]) \notin Nodes(regs)
                    /\ Append(w.node, Star) \notin Nodes(regs)
  BY DEF Child
<1>6. CASE w.at # "path"
  <2>1. s = w
    BY <1>6 DEF Step
  <2> QED  BY <1>6, <2>1
<1>7. CASE w.at = "path" /\ path[i] = Dir /\ i < Len(path)
  <2>1. s = [w EXCEPT !.at = "thrown"]
    BY <1>7 DEF Step
  <2>2. s \in WalkStates /\ s.at = "thrown"
    BY <2>1 DEF WalkStates
  <2> QED  BY <1>7, <2>2
<1>8. CASE w.at = "path" /\ ~(path[i] = Dir /\ i < Len(path))
  <2>1. path[i] = Dir => i = Len(path)
    BY <1>8
  <2>2. CASE child # {}
    <3> DEFINE next == CHOOSE c \in child : TRUE
    <3>1. next \in child
      BY <2>2
    <3>2. s = [node |-> next, mw |-> Push(regs, mw, next), at |-> "path"]
      BY <1>8, <2>2 DEF Step
    <3> HIDE DEF next, child, mw
    <3>3. next \in Seq(Segments) /\ Push(regs, mw, next) \in Seq(Seq(Segments))
      BY <1>3, <1>4, <3>1, PushFacts
    <3>4. s \in WalkStates
      BY <3>2, <3>3 DEF WalkStates
    <3>5. s.node = next /\ s.mw = Push(regs, mw, s.node) /\ s.at = "path"
      BY <3>2
    <3> QED  BY <1>4, <1>8, <2>1, <3>1, <3>4, <3>5 DEF mw
  <2>3. CASE child = {} /\ dir \in Nodes(regs)
    <3>1. s = [node |-> dir, mw |-> mw, at |-> "directory"]
      BY <1>8, <2>3 DEF Step
    <3>2. s \in WalkStates /\ s.node = dir /\ s.mw = mw /\ s.at = "directory"
      <4> HIDE DEF mw, dir
      <4> QED  BY <1>2, <1>3, <3>1 DEF WalkStates
    <3> QED  BY <1>5, <1>8, <2>1, <2>3, <3>2
  <2>4. CASE child = {} /\ dir \notin Nodes(regs)
    <3>1. s = [w EXCEPT !.at = "nowhere"]
      BY <1>8, <2>4 DEF Step
    <3>2. s \in WalkStates /\ s.at = "nowhere"
      BY <3>1 DEF WalkStates
    <3> QED  BY <1>5, <1>8, <2>1, <2>4, <3>2
  <2> QED  BY <2>2, <2>3, <2>4
<1> QED  BY <1>6, <1>7, <1>8

\* w is the walk along a path, segment by segment.
IsWalk(regs, path, w) ==
    /\ w \in [0 .. Len(path) -> WalkStates]
    /\ w[0] = [node |-> <<>>, mw |-> <<>>, at |-> "path"]
    /\ \A i \in 1 .. Len(path) : w[i] = Step(regs, path, w[i - 1], i)

LEMMA WalkFacts ==
    ASSUME NEW regs \in Regs, NEW path \in Seq(Segments)
    PROVE  \E w : IsWalk(regs, path, w) /\ Walk(regs, path) = w[Len(path)]
<1> DEFINE n == Len(path)
           X == WalkStates
           x == [node |-> <<>>, mw |-> <<>>, at |-> "path"]
           F == [i \in 1 .. n |-> [u \in X |-> Step(regs, path, u, i)]]
           d(u) == [i \in 0 .. Len(path) |->
                      IF i = 0 THEN [node |-> <<>>, mw |-> <<>>, at |-> "path"]
                      ELSE Step(regs, path, u[i - 1], i)]
           walk == CHOOSE u : u = d(u)
<1>1. n \in Nat
  OBVIOUS
<1>2. x \in X
  BY DEF WalkStates
<1>3. F \in [1 .. n -> [X -> X]]
  <2>1. \A i \in 1 .. n : \A u \in X : Step(regs, path, u, i) \in X
    BY StepFacts
  <2> HIDE DEF X, n
  <2> QED  BY <2>1
<1>4. PICK f : Carries(f, n, X, x, F)
  <2>1. \E f : Carries(f, n, X, x, F)
    <3> HIDE DEF F, n, X, x
    <3> QED  BY <1>1, <1>2, <1>3, Recursion
  <2> QED  BY <2>1
<1>5. /\ f \in [0 .. n -> X] /\ f[0] = x
      /\ \A i \in 1 .. n : f[i] = Step(regs, path, f[i - 1], i)
  <2>1. f \in [0 .. n -> X] /\ f[0] = x /\ \A i \in 1 .. n : f[i] = F[i][f[i - 1]]
    <3> HIDE DEF F, n, X, x
    <3> QED  BY <1>4 DEF Carries
  <2>2. \A i \in 1 .. n : i - 1 \in 0 .. n
    BY <1>1
  <2>3. \A i \in 1 .. n : f[i - 1] \in X
    <3> HIDE DEF F, n, X, x
    <3> QED  BY <2>1, <2>2
  <2>4. \A i \in 1 .. n : \A u \in X : F[i][u] = Step(regs, path, u, i)
    <3> HIDE DEF n, X
    <3> QED  OBVIOUS
  <2> HIDE DEF F, n, X, x
  <2> QED  BY <2>1, <2>3, <2>4
<1>6. \A i \in 0 .. n : i = 0 \/ i \in 1 .. n
  <2> HIDE DEF n
  <2> QED  BY <1>1
<1>7. \A i \in 1 .. n : i \in 0 .. n /\ i # 0
  BY <1>1
<1>8. 0 \in 0 .. n
  BY <1>1
<1>9. \A u : /\ d(u)[0] = x
             /\ \A i \in 1 .. n : d(u)[i] = Step(regs, path, u[i - 1], i)
  <2>1. \A u : \A i \in 0 .. n : d(u)[i] = IF i = 0 THEN x ELSE Step(regs, path, u[i - 1], i)
    OBVIOUS
  <2> HIDE DEF d, x, n
  <2> QED  BY <1>7, <1>8, <2>1
<1>10. f = d(f)
  <2>1. f = [i \in 0 .. n |-> f[i]]
    <3> HIDE DEF n, X, x
    <3> QED  BY <1>5
  <2>2. \A i \in 0 .. n : f[i] = d(f)[i]
    <3> HIDE DEF d, n, X, x
    <3> QED  BY <1>5, <1>6, <1>9
  <2>3. d(f) = [i \in 0 .. n |-> d(f)[i]]
    OBVIOUS
  <2> HIDE DEF d, n
  <2> QED  BY <2>1, <2>2, <2>3
<1>11. walk = d(walk)
  <2> HIDE DEF d
  <2> QED  BY <1>10
<1>12. Walk(regs, path) = walk[Len(path)]
  BY DEF Walk
<1>13. walk = [i \in 0 .. n |-> walk[i]]
  <2>1. d(walk) = [i \in 0 .. n |-> d(walk)[i]]
    OBVIOUS
  <2> HIDE DEF d, walk
  <2> QED  BY <1>11, <2>1
<1>14. walk[0] = x /\ \A i \in 1 .. n : walk[i] = Step(regs, path, walk[i - 1], i)
  <2> HIDE DEF d, walk, x, n
  <2> QED  BY <1>9, <1>11
<1>15. \A i \in 0 .. n : walk[i] \in X
  <2> DEFINE P == {i \in 0 .. n : walk[i] \in X}
  <2>1. 0 \in P
    <3> HIDE DEF walk, d, X, x
    <3> QED  BY <1>2, <1>8, <1>14
  <2>2. ASSUME NEW i \in 1 .. n, i - 1 \in P PROVE i \in P
    <3>1. walk[i - 1] \in X /\ walk[i] = Step(regs, path, walk[i - 1], i) /\ i \in 1 .. Len(path)
      <4> HIDE DEF walk, d, X, x
      <4> QED  BY <1>14, <2>2
    <3>2. walk[i] \in X
      <4> HIDE DEF walk, d
      <4> QED  BY <3>1, StepFacts
    <3> HIDE DEF walk, d, X, x
    <3> QED  BY <1>7, <3>2
  <2>3. \A i \in 0 .. n : i \in P
    <3> HIDE DEF P, n
    <3> QED  BY <1>1, <2>1, <2>2, UpTo
  <2> HIDE DEF walk, d, X, x, n
  <2> QED  BY <2>3
<1>16. walk \in [0 .. n -> X]
  <2> HIDE DEF walk, d, X, x, n
  <2> QED  BY <1>13, <1>15
<1>17. IsWalk(regs, path, walk)
  <2> HIDE DEF walk, d
  <2> QED  BY <1>14, <1>16 DEF IsWalk
<1> HIDE DEF walk, d
<1> QED  BY <1>12, <1>17

-----------------------------------------------------------------------------
(* The way lookupChild takes.                                              *)

\* v leads along the beginning of the path: each segment is the path's, or the
\* wildcard where the node has no child for it.
Follows(regs, path, v) ==
    /\ v \in Nodes(regs) /\ Len(v) <= Len(path)
    /\ \A j \in 1 .. Len(v) :
          \/ v[j] = path[j]
          \/ v[j] = Star /\ Append(SubSeq(v, 1, j - 1), path[j]) \notin Nodes(regs)

\* The walk has no child to go to at the end of v.
Stuck(regs, path, v) ==
    /\ Follows(regs, path, v) /\ Len(v) < Len(path)
    /\ Append(v, path[Len(v) + 1]) \notin Nodes(regs)
    /\ Append(v, Star) \notin Nodes(regs)

WayInv(regs, path, w, i) ==
    /\ w.at = "path" => Follows(regs, path, w.node) /\ Len(w.node) = i
    /\ w.at = "directory" =>
          \E v : /\ Stuck(regs, path, v) /\ Len(v) < i
                 /\ w.node = Append(v, Dir) /\ Append(v, Dir) \in Nodes(regs)
                 /\ path[Len(v) + 1] = Dir => Len(v) + 1 = Len(path)
    /\ w.at = "nowhere" => \E v : Stuck(regs, path, v)

\* The next node follows the path too.
LEMMA FollowsOn ==
    ASSUME NEW regs \in Regs, NEW path \in Seq(Segments), NEW v \in Seq(Segments),
           NEW x \in Segments, Follows(regs, path, v), Len(v) < Len(path),
           Append(v, x) \in Nodes(regs),
           \/ x = path[Len(v) + 1]
           \/ x = Star /\ Append(v, path[Len(v) + 1]) \notin Nodes(regs)
    PROVE  Follows(regs, path, Append(v, x))
<1> DEFINE a == Append(v, x)
           k == Len(v)
<1>1. k \in Nat /\ Len(path) \in Nat
  OBVIOUS
<1>2. a \in Seq(Segments) /\ Len(a) = k + 1 /\ a[k + 1] = x /\ \A j \in 1 .. k : a[j] = v[j]
  BY AppendFacts
<1>3. ASSUME NEW j \in 1 .. k + 1 PROVE SubSeq(a, 1, j - 1) = SubSeq(v, 1, j - 1)
  <2>1. /\ j - 1 \in Nat /\ j - 1 <= k /\ j - 1 <= k + 1
        /\ \A l \in 1 .. j - 1 : l \in 1 .. k
    BY <1>1
  <2>2. \A l \in 1 .. j - 1 : a[l] = v[l]
    BY <1>2, <2>1
  <2> HIDE DEF a
  <2> QED  BY <1>2, <2>1, <2>2, SameCut
<1>4. SubSeq(v, 1, k) = v
  BY WholeCut
<1>5. \A j \in 1 .. k + 1 : j = k + 1 \/ j \in 1 .. k
  BY <1>1
<1>6. ASSUME NEW j \in 1 .. k + 1
      PROVE  \/ a[j] = path[j]
             \/ a[j] = Star /\ Append(SubSeq(a, 1, j - 1), path[j]) \notin Nodes(regs)
  <2>1. SubSeq(a, 1, j - 1) = SubSeq(v, 1, j - 1)
    BY <1>3
  <2>2. CASE j = k + 1
    <3>1. j - 1 = k
      BY <1>1, <2>2
    <3> HIDE DEF a
    <3> QED  BY <1>2, <1>4, <2>1, <2>2, <3>1
  <2>3. CASE j \in 1 .. k
    <3>1. \/ v[j] = path[j]
          \/ v[j] = Star /\ Append(SubSeq(v, 1, j - 1), path[j]) \notin Nodes(regs)
      BY <2>3 DEF Follows
    <3> HIDE DEF a
    <3> QED  BY <1>2, <2>1, <2>3, <3>1
  <2> QED  BY <1>5, <2>2, <2>3
<1>7. k + 1 <= Len(path)
  BY <1>1
<1> HIDE DEF k
<1> QED  BY <1>2, <1>6, <1>7 DEF Follows

LEMMA WayStep ==
    ASSUME NEW regs \in Regs, NEW path \in Seq(Segments), NEW i \in 1 .. Len(path),
           NEW w \in WalkStates, WayInv(regs, path, w, i - 1),
           NEW s, s = Step(regs, path, w, i)
    PROVE  WayInv(regs, path, s, i)
<1>1. /\ i \in Nat /\ i - 1 \in Nat /\ Len(path) \in Nat /\ i - 1 < i /\ i <= Len(path)
      /\ path[i] \in Segments /\ Star \in Segments
  BY DEF Segments
<1>2. CASE w.at # "path"
  <2>1. s = w
    BY <1>2, StepFacts
  <2>2. \A v \in Nodes(regs) : Len(v) \in Nat
    BY NodeFacts
  <2>3. \A v : Stuck(regs, path, v) /\ Len(v) < i - 1 => Len(v) < i
    <3>1. \A v : Stuck(regs, path, v) => Len(v) \in Nat
      BY <2>2 DEF Stuck, Follows
    <3> QED  BY <1>1, <3>1
  <2> QED  BY <1>2, <2>1, <2>3 DEF WayInv
<1>3. CASE w.at = "path"
  <2>1. w.node \in Seq(Segments) /\ Follows(regs, path, w.node) /\ Len(w.node) = i - 1
    BY <1>3 DEF WalkStates, WayInv
  <2>2. Len(w.node) + 1 = i /\ Len(w.node) < Len(path) /\ Len(w.node) < i
    BY <1>1, <2>1
  <2>3. /\ s \in WalkStates
        /\ LET dir == Append(w.node, Dir)
               mw == Push(regs, w.mw, dir)
           IN  \/ s.at = "thrown"
               \/ /\ s.at = "path" /\ s.node \in Nodes(regs)
                  /\ \/ s.node = Append(w.node, path[i])
                     \/ /\ s.node = Append(w.node, Star)
                        /\ Append(w.node, path[i]) \notin Nodes(regs)
                  /\ s.mw = Push(regs, mw, s.node)
                  /\ path[i] = Dir => i = Len(path)
               \/ /\ Append(w.node, path[i]) \notin Nodes(regs)
                  /\ Append(w.node, Star) \notin Nodes(regs)
                  /\ path[i] = Dir => i = Len(path)
                  /\ \/ /\ s.at = "directory" /\ s.node = dir /\ dir \in Nodes(regs)
                        /\ s.mw = mw
                     \/ s.at = "nowhere"
    BY <1>3, StepFacts
  <2>4. CASE s.at = "thrown"
    BY <2>4 DEF WayInv
  <2>5. CASE s.at = "path"
    <3>1. PICK x \in {path[i], Star} :
              /\ s.node = Append(w.node, x) /\ Append(w.node, x) \in Nodes(regs)
              /\ x = path[i] \/ (x = Star /\ Append(w.node, path[i]) \notin Nodes(regs))
      BY <2>3, <2>5
    <3>2. x \in Segments
      BY <1>1
    <3>3. Follows(regs, path, Append(w.node, x))
      BY <2>1, <2>2, <3>1, <3>2, FollowsOn
    <3>4. Len(Append(w.node, x)) = i
      BY <2>1, <2>2, <3>2, AppendFacts
    <3> QED  BY <2>5, <3>1, <3>3, <3>4 DEF WayInv
  <2>6. CASE s.at \in {"directory", "nowhere"}
    <3>1. Stuck(regs, path, w.node)
      BY <2>1, <2>2, <2>3, <2>6 DEF Stuck
    <3>2. path[i] = Dir => i = Len(path)
      BY <2>3, <2>6
    <3>3. s.at = "directory" => s.node = Append(w.node, Dir) /\ Append(w.node, Dir) \in Nodes(regs)
      BY <2>3
    <3> QED  BY <2>2, <2>6, <3>1, <3>2, <3>3 DEF WayInv
  <2>7. s.at \in {"path", "directory", "nowhere", "thrown"}
    BY <2>3 DEF WalkStates
  <2> QED  BY <2>4, <2>5, <2>6, <2>7
<1> QED  BY <1>2, <1>3

LEMMA WayHolds ==
    ASSUME NEW regs \in Regs, NEW path \in Seq(Segments), NEW w, IsWalk(regs, path, w)
    PROVE  \A i \in 0 .. Len(path) : WayInv(regs, path, w[i], i)
<1> DEFINE n == Len(path)
           P == {i \in 0 .. n : WayInv(regs, path, w[i], i)}
<1>1. n \in Nat /\ 0 \in 0 .. n /\ \A i \in 1 .. n : i \in 0 .. n /\ i - 1 \in 0 .. n
  OBVIOUS
<1>2. 0 \in P
  <2>1. w[0].node = <<>> /\ w[0].at = "path"
    BY DEF IsWalk
  <2>2. Follows(regs, path, <<>>)
    BY NodeFacts DEF Follows
  <2>3. WayInv(regs, path, w[0], 0)
    BY <2>1, <2>2 DEF WayInv
  <2> QED  BY <1>1, <2>3
<1>3. ASSUME NEW i \in 1 .. n, i - 1 \in P PROVE i \in P
  <2>1. /\ WayInv(regs, path, w[i - 1], i - 1) /\ w[i - 1] \in WalkStates
        /\ w[i] = Step(regs, path, w[i - 1], i)
    BY <1>1, <1>3 DEF IsWalk
  <2>2. WayInv(regs, path, w[i], i)
    BY <2>1, WayStep
  <2> QED  BY <1>1, <2>2
<1>4. \A i \in 0 .. n : i \in P
  <2> HIDE DEF P, n
  <2> QED  BY <1>1, <1>2, <1>3, UpTo
<1> QED  BY <1>4

\* No node that matches the path is more specific than the one found.
LEMMA FoundIsBest ==
    ASSUME NEW regs \in Regs, NEW path \in Seq(Segments), NEW v, Follows(regs, path, v),
           Len(v) = Len(path), NEW n \in Nodes(regs), Matches(path, n)
    PROVE  Matches(path, v) /\ ~MoreSpecific(n, v)
<1>1. /\ v \in Seq(Segments) /\ n \in Seq(Segments) /\ Len(n) = Len(path)
      /\ DOMAIN n = 1 .. Len(path) /\ DOMAIN path = 1 .. Len(path) /\ Len(path) \in Nat
  <2>1. Nodes(regs) \subseteq Seq(Segments) /\ v \in Nodes(regs) /\ Len(n) = Len(path)
    BY NodeFacts DEF Follows, Matches
  <2> QED  BY <2>1
<1>2. Matches(path, v)
  BY <1>1 DEF Matches, Follows
<1>3. ASSUME NEW i \in 1 .. Len(path), n[i] # Star, v[i] = Star,
             \A j \in 1 .. i - 1 : n[j] = v[j]
      PROVE  FALSE
  <2>1. n[i] = path[i]
    BY <1>1, <1>3 DEF Matches
  <2>2. Append(SubSeq(v, 1, i - 1), path[i]) \notin Nodes(regs)
    BY <1>3, <2>1 DEF Follows
  <2>3. /\ i \in 1 .. Len(n) /\ i \in 0 .. Len(n) /\ i - 1 \in Nat
        /\ i - 1 <= Len(n) /\ i - 1 <= Len(v)
    BY <1>1
  <2>4. SubSeq(n, 1, i) = Append(SubSeq(n, 1, i - 1), n[i])
    BY <1>1, <2>3, CutAndNext
  <2>5. SubSeq(n, 1, i - 1) = SubSeq(v, 1, i - 1)
    BY <1>1, <1>3, <2>3, SameCut
  <2>6. SubSeq(n, 1, i) \in Nodes(regs)
    BY <2>3, NodeFacts
  <2> QED  BY <2>1, <2>2, <2>4, <2>5, <2>6
<1> QED  BY <1>1, <1>2, <1>3 DEF MoreSpecific

\* Where the walk is stuck, every node that matches the path has been shadowed.
LEMMA StuckMeansShadowed ==
    ASSUME NEW regs \in Regs, NEW path \in Seq(Segments), NEW v, Stuck(regs, path, v),
           NEW n \in Nodes(regs), Matches(path, n)
    PROVE  Shadowed(regs, path, n)
<1> SUFFICES ASSUME ~Shadowed(regs, path, n) PROVE FALSE
  OBVIOUS
<1> DEFINE k == Len(v)
<1>1. /\ v \in Seq(Segments) /\ n \in Seq(Segments) /\ Len(n) = Len(path) /\ v \in Nodes(regs)
      /\ DOMAIN n = 1 .. Len(path) /\ DOMAIN path = 1 .. Len(path) /\ Len(path) \in Nat
      /\ k \in Nat /\ k < Len(path)
  <2>1. Nodes(regs) \subseteq Seq(Segments) /\ v \in Nodes(regs) /\ Len(n) = Len(path) /\ Len(v) < Len(path)
    BY NodeFacts DEF Stuck, Follows, Matches
  <2> QED  BY <2>1
<1>2. \A j \in 1 .. Len(path) : n[j] \in {path[j], Star}
  BY <1>1 DEF Matches
<1>3. \A j \in 1 .. Len(path) : n[j] = Star /\ path[j] # Star =>
          Append(SubSeq(n, 1, j - 1), path[j]) \notin Nodes(regs)
  BY <1>1 DEF Shadowed
<1> DEFINE P == {j \in 0 .. k : SubSeq(n, 1, j) = SubSeq(v, 1, j)}
<1>4. 0 \in P
  <2>1. SubSeq(n, 1, 0) = <<>> /\ SubSeq(v, 1, 0) = <<>>
    BY <1>1
  <2>2. 0 \in 0 .. k
    BY <1>1
  <2> QED  BY <2>1, <2>2
<1>5. ASSUME NEW j \in 1 .. k, j - 1 \in P PROVE j \in P
  <2>1. /\ j \in 1 .. Len(path) /\ j \in 1 .. Len(n) /\ j \in 1 .. Len(v)
        /\ j \in 0 .. Len(n) /\ j \in 0 .. Len(v) /\ j \in 0 .. k
    BY <1>1
  <2> DEFINE u == SubSeq(v, 1, j - 1)
  <2>2. SubSeq(n, 1, j - 1) = u
    BY <1>5
  <2>3. SubSeq(n, 1, j) = Append(u, n[j])
    BY <1>1, <2>1, <2>2, CutAndNext
  <2>4. SubSeq(v, 1, j) = Append(u, v[j])
    BY <1>1, <2>1, CutAndNext
  <2>5. SubSeq(n, 1, j) \in Nodes(regs) /\ SubSeq(v, 1, j) \in Nodes(regs)
    BY <1>1, <2>1, NodeFacts
  <2>6. v[j] = path[j] \/ (v[j] = Star /\ Append(u, path[j]) \notin Nodes(regs))
    BY <2>1 DEF Stuck, Follows
  <2>7. n[j] = v[j]
    <3>1. n[j] = path[j] \/ n[j] = Star
      BY <1>2, <2>1
    <3>2. n[j] = Star /\ path[j] # Star => Append(u, path[j]) \notin Nodes(regs)
      BY <1>3, <2>1, <2>2
    <3>3. n[j] = path[j] => Append(u, path[j]) \in Nodes(regs)
      <4> HIDE DEF u
      <4> QED  BY <2>3, <2>5
    <3>4. v[j] = path[j] => Append(u, path[j]) \in Nodes(regs)
      <4> HIDE DEF u
      <4> QED  BY <2>4, <2>5
    <3> HIDE DEF u
    <3> QED  BY <2>6, <3>1, <3>2, <3>3, <3>4
  <2> QED  BY <2>1, <2>3, <2>4, <2>7
<1>6. SubSeq(n, 1, k) = v
  <2>1. \A j \in 0 .. k : j \in P
    <3> HIDE DEF P, k
    <3> QED  BY <1>1, <1>4, <1>5, UpTo
  <2>2. k \in 0 .. k
    BY <1>1
  <2>3. SubSeq(n, 1, k) = SubSeq(v, 1, k)
    BY <2>1, <2>2
  <2>4. SubSeq(v, 1, k) = v
    BY <1>1, WholeCut
  <2> QED  BY <2>3, <2>4
<1>7. /\ k + 1 \in 1 .. Len(n) /\ k + 1 \in 0 .. Len(n) /\ (k + 1) - 1 = k
      /\ k + 1 \in 1 .. Len(path)
  <2> HIDE DEF k
  <2> QED  BY <1>1
<1>8. SubSeq(n, 1, k + 1) = Append(v, n[k + 1])
  BY <1>1, <1>6, <1>7, CutAndNext
<1>9. SubSeq(n, 1, k + 1) \in Nodes(regs)
  BY <1>7, NodeFacts
<1> QED  BY <1>2, <1>7, <1>8, <1>9 DEF Stuck

\* What lookupChild finds, for the calls of any app and any path.
LEMMA LookupAnswers ==
    ASSUME NEW regs \in Regs, NEW path \in Seq(Segments) \ {<<>>}
    PROVE  LET found == Lookup(regs, path)
               matching == {n \in Nodes(regs) : Matches(path, n)}
               parent == SubSeq(path, 1, Len(found.node) - 1)
           IN  /\ found.at = "path" =>
                     /\ found.node \in matching
                     /\ \A n \in matching : ~MoreSpecific(n, found.node)
               /\ found.at \in {"directory", "nowhere"} => \A n \in matching : Shadowed(regs, path, n)
               /\ found.at = "directory" =>
                     Last(found.node) = Dir /\ Matches(parent, Front(found.node))
<1> DEFINE found == Lookup(regs, path)
<1>1. PICK w : IsWalk(regs, path, w) /\ Walk(regs, path) = w[Len(path)]
  BY WalkFacts
<1>2. Len(path) \in 0 .. Len(path) /\ Len(path) \in Nat
  OBVIOUS
<1>3. WayInv(regs, path, w[Len(path)], Len(path)) /\ w[Len(path)] \in WalkStates
  BY <1>1, <1>2, WayHolds DEF IsWalk
<1>4. found.node = w[Len(path)].node /\ found.at = w[Len(path)].at
  BY <1>1, <1>3 DEF Lookup, WalkStates
<1>5. WayInv(regs, path, found, Len(path))
  BY <1>3, <1>4 DEF WayInv
<1> HIDE DEF found
<1>6. ASSUME found.at = "path"
      PROVE  /\ found.node \in Nodes(regs) /\ Matches(path, found.node)
             /\ \A n \in Nodes(regs) : Matches(path, n) => ~MoreSpecific(n, found.node)
  <2>1. Follows(regs, path, found.node) /\ Len(found.node) = Len(path)
    BY <1>5, <1>6 DEF WayInv
  <2>2. \A n \in Nodes(regs) : Matches(path, n) => ~MoreSpecific(n, found.node)
    BY <2>1, FoundIsBest
  <2>3. found.node \in Nodes(regs) /\ Matches(path, found.node)
    BY <2>1, NodeFacts DEF Follows, Matches
  <2> QED  BY <2>2, <2>3
<1>7. ASSUME found.at \in {"directory", "nowhere"}
      PROVE  \A n \in Nodes(regs) : Matches(path, n) => Shadowed(regs, path, n)
  <2>1. PICK v : Stuck(regs, path, v)
    BY <1>5, <1>7 DEF WayInv
  <2> QED  BY <2>1, StuckMeansShadowed
<1>8. ASSUME found.at = "directory"
      PROVE  /\ Last(found.node) = Dir
             /\ Matches(SubSeq(path, 1, Len(found.node) - 1), Front(found.node))
  <2>1. PICK v : Stuck(regs, path, v) /\ found.node = Append(v, Dir)
    BY <1>5, <1>8 DEF WayInv
  <2>2. v \in Seq(Segments) /\ Follows(regs, path, v) /\ Len(v) < Len(path) /\ Len(v) \in Nat
    BY <2>1, NodeFacts DEF Stuck, Follows
  <2>3. Dir \in Segments
    BY DEF Segments
  <2>4. /\ Len(found.node) = Len(v) + 1 /\ found.node[Len(v) + 1] = Dir
        /\ found.node \in Seq(Segments) /\ \A j \in 1 .. Len(v) : found.node[j] = v[j]
    BY <2>1, <2>2, <2>3, AppendFacts
  <2>5. Len(found.node) - 1 = Len(v) /\ Len(v) \in 0 .. Len(path) /\ Len(v) <= Len(found.node)
    BY <2>2, <2>4
  <2>6. Front(found.node) = v
    <3>1. Front(found.node) = SubSeq(found.node, 1, Len(v))
      BY <2>5 DEF Front
    <3>2. SubSeq(found.node, 1, Len(v)) = SubSeq(v, 1, Len(v))
      BY <2>2, <2>4, <2>5, SameCut
    <3> QED  BY <2>2, <3>1, <3>2, WholeCut
  <2>7. /\ SubSeq(path, 1, Len(v)) \in Seq(Segments) /\ Len(SubSeq(path, 1, Len(v))) = Len(v)
        /\ \A j \in 1 .. Len(v) : SubSeq(path, 1, Len(v))[j] = path[j]
    BY <2>5, CutFacts
  <2>8. Matches(SubSeq(path, 1, Len(v)), v)
    BY <2>2, <2>7 DEF Matches, Follows
  <2> QED  BY <2>4, <2>5, <2>6, <2>8 DEF Last
<1> QED  BY <1>6, <1>7, <1>8 DEF found

-----------------------------------------------------------------------------
(* Prefixes.                                                               *)

LEMMA PrefixIs ==
    ASSUME NEW S, NEW a \in Seq(S), NEW v \in Seq(S)
    PROVE  /\ IsPrefix(a, v) <=> Len(a) <= Len(v) /\ \A j \in 1 .. Len(a) : a[j] = v[j]
           /\ IsStrictPrefix(a, v) => Len(a) < Len(v)
<1>1. Len(a) \in Nat /\ Len(v) \in Nat
  OBVIOUS
<1>2. SubSeq(a, 1, Len(a)) = a
  BY WholeCut
<1>3. CASE Len(a) <= Len(v)
  <2>1. Len(a) \in 0 .. Len(v)
    BY <1>1, <1>3
  <2>2. /\ SubSeq(v, 1, Len(a)) \in Seq(S) /\ Len(SubSeq(v, 1, Len(a))) = Len(a)
        /\ \A j \in 1 .. Len(a) : SubSeq(v, 1, Len(a))[j] = v[j]
    BY <2>1, CutFacts
  <2>3. (\A j \in 1 .. Len(a) : a[j] = v[j]) => a = SubSeq(v, 1, Len(a))
    BY <2>2, SameElements
  <2>4. IsPrefix(a, v) <=> a = SubSeq(v, 1, Len(a))
    BY <1>2, <1>3 DEF IsPrefix
  <2>5. a = SubSeq(v, 1, Len(a)) => \A j \in 1 .. Len(a) : a[j] = v[j]
    BY <2>2
  <2>6. Len(a) = Len(v) /\ a = SubSeq(v, 1, Len(a)) => a = v
    BY WholeCut
  <2>7. IsStrictPrefix(a, v) => Len(a) < Len(v)
    BY <1>1, <1>3, <2>4, <2>6 DEF IsStrictPrefix
  <2> QED  BY <1>3, <2>3, <2>4, <2>5, <2>7
<1>4. CASE ~(Len(a) <= Len(v))
  BY <1>4 DEF IsPrefix, IsStrictPrefix
<1> QED  BY <1>3, <1>4

\* What leads to v and one segment more leads to v, or is that.
LEMMA PrefixOfNext ==
    ASSUME NEW S, NEW v \in Seq(S), NEW x \in S, NEW a \in Seq(S)
    PROVE  /\ IsPrefix(a, Append(v, x)) <=> IsPrefix(a, v) \/ a = Append(v, x)
           /\ ~(IsPrefix(a, v) /\ a = Append(v, x))
           /\ IsStrictPrefix(a, Append(v, x)) <=> IsPrefix(a, v)
           /\ IsPrefix(a, v) <=> IsStrictPrefix(a, v) \/ a = v
<1> DEFINE b == Append(v, x)
<1>1. b \in Seq(S) /\ Len(b) = Len(v) + 1 /\ (\A j \in 1 .. Len(v) : b[j] = v[j]) /\ b[Len(v) + 1] = x
  BY AppendFacts
<1>2. Len(a) \in Nat /\ Len(v) \in Nat
  OBVIOUS
<1> HIDE DEF b
<1>3. IsPrefix(a, v) <=> Len(a) <= Len(v) /\ \A j \in 1 .. Len(a) : a[j] = v[j]
  BY PrefixIs
<1>4. IsPrefix(a, b) <=> Len(a) <= Len(b) /\ \A j \in 1 .. Len(a) : a[j] = b[j]
  BY <1>1, PrefixIs
<1>5. IsPrefix(a, v) => IsPrefix(a, b) /\ a # b
  <2>1. Len(a) <= Len(v) => /\ Len(a) <= Len(b) /\ Len(a) # Len(b)
                            /\ \A j \in 1 .. Len(a) : j \in 1 .. Len(v)
    BY <1>1, <1>2
  <2> QED  BY <1>1, <1>3, <1>4, <2>1
<1>6. a = b => IsPrefix(a, b)
  BY <1>1, <1>2, <1>4
<1>7. ASSUME IsPrefix(a, b), ~IsPrefix(a, v) PROVE a = b
  <2>1. Len(a) <= Len(b) /\ \A j \in 1 .. Len(a) : a[j] = b[j]
    BY <1>4, <1>7
  <2>2. ASSUME Len(a) <= Len(v) PROVE FALSE
    <3>1. \A j \in 1 .. Len(a) : j \in 1 .. Len(v)
      BY <1>2, <2>2
    <3>2. \A j \in 1 .. Len(a) : a[j] = v[j]
      BY <1>1, <2>1, <3>1
    <3> QED  BY <1>3, <1>7, <2>2, <3>2
  <2>3. Len(a) = Len(b)
    BY <1>1, <1>2, <2>1, <2>2
  <2> QED  BY <1>1, <2>1, <2>3, SameElements
<1>8. IsPrefix(v, v)
  BY DEF IsPrefix
<1>9. IsStrictPrefix(a, b) <=> IsPrefix(a, v)
  BY <1>5, <1>7 DEF IsStrictPrefix
<1>10. IsPrefix(a, v) <=> IsStrictPrefix(a, v) \/ a = v
  BY <1>8 DEF IsStrictPrefix
<1> QED  BY <1>5, <1>6, <1>7, <1>9, <1>10 DEF b

\* A path is its front and its last segment.
LEMMA FrontAndLast ==
    ASSUME NEW S, NEW a \in Seq(S), a # <<>>
    PROVE  /\ a = Append(Front(a), Last(a)) /\ Front(a) \in Seq(S) /\ Last(a) \in S
           /\ \A v \in Seq(S), x \in S : a = Append(v, x) <=> Front(a) = v /\ Last(a) = x
<1>1. Len(a) \in Nat /\ Len(a) \in 1 .. Len(a) /\ Len(a) - 1 \in 0 .. Len(a) /\ Len(a) # 0
  OBVIOUS
<1>2. a = Append(SubSeq(a, 1, Len(a) - 1), a[Len(a)])
  <2>1. SubSeq(a, 1, Len(a)) = Append(SubSeq(a, 1, Len(a) - 1), a[Len(a)])
    BY <1>1, CutAndNext
  <2>2. SubSeq(a, 1, Len(a)) = a
    BY WholeCut
  <2> QED  BY <2>1, <2>2
<1>3. SubSeq(a, 1, Len(a) - 1) \in Seq(S) /\ a[Len(a)] \in S
  BY <1>1, CutFacts
<1>4. a = Append(Front(a), Last(a)) /\ Front(a) \in Seq(S) /\ Last(a) \in S
  BY <1>2, <1>3 DEF Front, Last
<1>5. ASSUME NEW v \in Seq(S), NEW x \in S, a = Append(v, x)
      PROVE  Front(a) = v /\ Last(a) = x
  <2>1. /\ Len(a) = Len(v) + 1 /\ \A j \in 1 .. Len(v) : a[j] = v[j]
        /\ a[Len(v) + 1] = x
    BY <1>5, AppendFacts
  <2>2. Len(v) \in Nat
    OBVIOUS
  <2>3. Last(a) = x
    BY <2>1 DEF Last
  <2>4. Front(a) = SubSeq(a, 1, Len(v)) /\ Len(v) <= Len(a)
    <3>1. Len(a) - 1 = Len(v) /\ Len(v) <= Len(a)
      BY <2>1, <2>2
    <3> QED  BY <3>1 DEF Front
  <2>5. SubSeq(a, 1, Len(v)) = SubSeq(v, 1, Len(v))
    BY <2>1, <2>2, <2>4, SameCut
  <2>6. SubSeq(v, 1, Len(v)) = v
    BY WholeCut
  <2> QED  BY <2>3, <2>4, <2>5, <2>6
<1> QED  BY <1>4, <1>5

-----------------------------------------------------------------------------
(* How often something occurs in a sequence.                               *)

Occ(s, x) == {n \in DOMAIN s : s[n] = x}

LEMMA OccFacts ==
    ASSUME NEW S, NEW s \in Seq(S), NEW x
    PROVE  /\ IsFiniteSet(Occ(s, x)) /\ Cardinality(Occ(s, x)) \in Nat
           /\ Occ(s, x) \subseteq 1 .. Len(s) /\ Occ(s, x) = {n \in 1 .. Len(s) : s[n] = x}
<1>1. DOMAIN s = 1 .. Len(s) /\ Len(s) \in Nat /\ Len(s) \in Int /\ 1 \in Int
  OBVIOUS
<1>2. IsFiniteSet(1 .. Len(s))
  BY <1>1, FS_Interval
<1>3. Occ(s, x) \subseteq 1 .. Len(s) /\ Occ(s, x) = {n \in 1 .. Len(s) : s[n] = x}
  BY <1>1 DEF Occ
<1>4. IsFiniteSet(Occ(s, x))
  BY <1>2, <1>3, FS_Subset
<1> QED  BY <1>3, <1>4, FS_CardinalityType

LEMMA OccAppend ==
    ASSUME NEW S, NEW s \in Seq(S), NEW y \in S, NEW x
    PROVE  Cardinality(Occ(Append(s, y), x)) =
              Cardinality(Occ(s, x)) + (IF y = x THEN 1 ELSE 0)
<1> DEFINE t == Append(s, y)
           k == Len(s) + 1
<1>1. t \in Seq(S) /\ Len(t) = k /\ (\A j \in 1 .. Len(s) : t[j] = s[j]) /\ t[k] = y /\ Len(s) \in Nat
  BY AppendFacts
<1>2. /\ \A j : j \in 1 .. k <=> j \in 1 .. Len(s) \/ j = k
      /\ k \notin 1 .. Len(s)
  BY <1>1
<1>3. /\ Occ(s, x) = {n \in 1 .. Len(s) : s[n] = x} /\ IsFiniteSet(Occ(s, x))
      /\ Cardinality(Occ(s, x)) \in Nat
  BY OccFacts
<1>4. Occ(t, x) = {n \in 1 .. Len(t) : t[n] = x}
  <2> HIDE DEF t
  <2> QED  BY <1>1, OccFacts
<1> HIDE DEF t, k
<1>5. CASE y = x
  <2>1. Occ(t, x) = Occ(s, x) \cup {k} /\ k \notin Occ(s, x)
    BY <1>1, <1>2, <1>3, <1>4, <1>5
  <2>2. Cardinality(Occ(t, x)) = Cardinality(Occ(s, x)) + 1
    BY <1>3, <2>1, FS_AddElement
  <2> QED  BY <1>5, <2>2 DEF t
<1>6. CASE y # x
  <2>1. Occ(t, x) = Occ(s, x)
    BY <1>1, <1>2, <1>3, <1>4, <1>6
  <2> QED  BY <1>3, <1>6, <2>1 DEF t
<1> QED  BY <1>5, <1>6

LEMMA ConcatMeans ==
    ASSUME NEW S, NEW s \in Seq(S), NEW t \in Seq(S)
    PROVE  /\ s \o t \in Seq(S) /\ Len(s \o t) = Len(s) + Len(t)
           /\ \A j \in 1 .. Len(s) : (s \o t)[j] = s[j]
           /\ \A j \in 1 .. Len(t) : (s \o t)[Len(s) + j] = t[j]
           /\ Len(s) \in Nat /\ Len(t) \in Nat
OBVIOUS

LEMMA OccConcat ==
    ASSUME NEW S, NEW s \in Seq(S), NEW t \in Seq(S), NEW x
    PROVE  Cardinality(Occ(s \o t, x)) = Cardinality(Occ(s, x)) + Cardinality(Occ(t, x))
<1> DEFINE c == s \o t
           k == Len(s)
           moved == {k + j : j \in Occ(t, x)}
<1>1. /\ c \in Seq(S) /\ Len(c) = k + Len(t) /\ k \in Nat /\ Len(t) \in Nat
      /\ \A j \in 1 .. k : c[j] = s[j]
      /\ \A j \in 1 .. Len(t) : c[k + j] = t[j]
  BY ConcatMeans
<1> HIDE DEF c, k
<1>2. /\ Occ(s, x) = {n \in 1 .. k : s[n] = x} /\ IsFiniteSet(Occ(s, x))
      /\ Cardinality(Occ(s, x)) \in Nat
  BY OccFacts DEF k
<1>3. /\ Occ(t, x) = {n \in 1 .. Len(t) : t[n] = x} /\ IsFiniteSet(Occ(t, x))
      /\ Cardinality(Occ(t, x)) \in Nat
  BY OccFacts
<1>4. Occ(c, x) = {n \in 1 .. k + Len(t) : c[n] = x}
  BY <1>1, OccFacts
<1>5. /\ \A j \in 1 .. k : j \in 1 .. k + Len(t)
      /\ \A j \in 1 .. Len(t) : k + j \in 1 .. k + Len(t) /\ k + j \notin 1 .. k /\ j \in Int
      /\ \A n \in 1 .. k + Len(t) : n \in 1 .. k \/ (n - k \in 1 .. Len(t) /\ k + (n - k) = n)
      /\ \A i, j \in 1 .. Len(t) : k + i = k + j => i = j
  BY <1>1
<1>6. Occ(c, x) = Occ(s, x) \cup moved /\ Occ(s, x) \cap moved = {}
  <2>1. \A n \in moved : \E j \in 1 .. Len(t) : n = k + j /\ t[j] = x
    BY <1>3
  <2>2. \A j \in 1 .. Len(t) : t[j] = x => k + j \in moved
    BY <1>3
  <2> HIDE DEF moved
  <2>3. \A n \in Occ(c, x) : n \in Occ(s, x) \/ n \in moved
    <3>1. TAKE n \in Occ(c, x)
    <3>2. n \in 1 .. k + Len(t) /\ c[n] = x
      BY <1>4
    <3>3. CASE n \in 1 .. k
      BY <1>1, <1>2, <3>2, <3>3
    <3>4. CASE n - k \in 1 .. Len(t) /\ k + (n - k) = n
      <4>1. t[n - k] = x
        BY <1>1, <3>2, <3>4
      <4> QED  BY <2>2, <3>4, <4>1
    <3> QED  BY <1>5, <3>2, <3>3, <3>4
  <2>4. \A n \in Occ(s, x) : n \in Occ(c, x) /\ n \in 1 .. k
    BY <1>1, <1>2, <1>4, <1>5
  <2>5. \A n \in moved : n \in Occ(c, x) /\ n \notin 1 .. k
    <3>1. TAKE n \in moved
    <3>2. PICK j \in 1 .. Len(t) : n = k + j /\ t[j] = x
      BY <2>1
    <3>3. c[n] = x
      BY <1>1, <3>2
    <3>4. n \in 1 .. k + Len(t) /\ n \notin 1 .. k
      BY <1>5, <3>2
    <3> QED  BY <1>4, <3>3, <3>4
  <2> QED  BY <2>3, <2>4, <2>5
<1>7. IsFiniteSet(moved) /\ Cardinality(moved) = Cardinality(Occ(t, x))
  <2> DEFINE f == [j \in Occ(t, x) |-> k + j]
  <2>1. f \in Bijection(Occ(t, x), moved)
    <3>1. f \in [Occ(t, x) -> moved]
      OBVIOUS
    <3>2. \A i, j \in Occ(t, x) : f[i] = f[j] => i = j
      BY <1>3, <1>5
    <3>3. \A n \in moved : \E j \in Occ(t, x) : f[j] = n
      OBVIOUS
    <3> HIDE DEF moved, f
    <3> QED  BY <3>1, <3>2, <3>3, Fun_IsBij
  <2> HIDE DEF moved, f
  <2>2. ExistsBijection(Occ(t, x), moved)
    BY <2>1 DEF ExistsBijection
  <2> QED  BY <1>3, <2>2, FS_Bijection
<1> HIDE DEF moved
<1>8. Cardinality(Occ(s, x) \cup moved) =
          Cardinality(Occ(s, x)) + Cardinality(moved) - Cardinality(Occ(s, x) \cap moved)
  BY <1>2, <1>7, FS_Union
<1>9. Cardinality(Occ(s, x) \cap moved) = 0
  BY <1>6, FS_EmptySet
<1> QED  BY <1>2, <1>3, <1>6, <1>7, <1>8, <1>9 DEF c

LEMMA ReverseMeans ==
    ASSUME NEW S, NEW s \in Seq(S)
    PROVE  /\ Reverse(s) \in Seq(S) /\ Len(Reverse(s)) = Len(s) /\ Len(s) \in Nat
           /\ \A j \in 1 .. Len(s) : /\ Reverse(s)[j] = s[(Len(s) - j) + 1]
                                     /\ (Len(s) - j) + 1 \in 1 .. Len(s)
                                     /\ (Len(s) - ((Len(s) - j) + 1)) + 1 = j
<1>1. Len(s) \in Nat
  OBVIOUS
<1>2. \A j \in 1 .. Len(s) : /\ (Len(s) - j) + 1 \in 1 .. Len(s)
                             /\ (Len(s) - ((Len(s) - j) + 1)) + 1 = j
  BY <1>1
<1>3. \A j \in 1 .. Len(s) : s[j] \in S
  OBVIOUS
<1>4. Reverse(s) \in [1 .. Len(s) -> S]
  BY <1>2, <1>3 DEF Reverse
<1>5. Reverse(s) \in Seq(S) /\ Len(Reverse(s)) = Len(s)
  <2>1. \A f \in [1 .. Len(s) -> S] : f \in Seq(S) /\ Len(f) = Len(s)
    BY <1>1
  <2> QED  BY <1>4, <2>1
<1> QED  BY <1>1, <1>2, <1>5 DEF Reverse

LEMMA OccReverse ==
    ASSUME NEW S, NEW s \in Seq(S), NEW x
    PROVE  Cardinality(Occ(Reverse(s), x)) = Cardinality(Occ(s, x))
<1> DEFINE r == Reverse(s)
           back(j) == (Len(s) - j) + 1
<1>1. /\ r \in Seq(S) /\ Len(r) = Len(s) /\ Len(s) \in Nat
      /\ \A j \in 1 .. Len(s) : /\ r[j] = s[back(j)] /\ back(j) \in 1 .. Len(s)
                                /\ back(back(j)) = j
  BY ReverseMeans
<1> HIDE DEF r
<1>2. Occ(s, x) = {n \in 1 .. Len(s) : s[n] = x} /\ IsFiniteSet(Occ(s, x))
  BY OccFacts
<1>3. Occ(r, x) = {n \in 1 .. Len(s) : r[n] = x}
  BY <1>1, OccFacts
<1> HIDE DEF back
<1> DEFINE f == [j \in Occ(s, x) |-> back(j)]
<1>4. f \in Bijection(Occ(s, x), Occ(r, x))
  <2>1. f \in [Occ(s, x) -> Occ(r, x)]
    <3>1. \A j \in Occ(s, x) : back(j) \in Occ(r, x)
      BY <1>1, <1>2, <1>3
    <3> QED  BY <3>1
  <2>2. \A i, j \in Occ(s, x) : f[i] = f[j] => i = j
    <3>1. \A i, j \in Occ(s, x) : back(i) = back(j) => i = j
      <4>1. \A i \in Occ(s, x) : back(back(i)) = i
        BY <1>1, <1>2
      <4> QED  BY <4>1
    <3> QED  BY <3>1
  <2>3. \A n \in Occ(r, x) : \E j \in Occ(s, x) : f[j] = n
    <3>1. \A n \in Occ(r, x) : back(n) \in Occ(s, x) /\ back(back(n)) = n
      BY <1>1, <1>2, <1>3
    <3> QED  BY <3>1
  <2> HIDE DEF f
  <2> QED  BY <2>1, <2>2, <2>3, Fun_IsBij
<1>5. ExistsBijection(Occ(s, x), Occ(r, x))
  <2> HIDE DEF f
  <2> QED  BY <1>4 DEF ExistsBijection
<1> QED  BY <1>2, <1>5, FS_Bijection DEF r

-----------------------------------------------------------------------------
(* The middlewares lookupChild collects.                                   *)

HasMiddlewares(regs, a) == a \in Seq(Segments) /\ a # <<>> /\ Middlewares(regs, a) # <<>>

\* The nodes of mw, shorter ones first, none longer than k.
Ascending(mw, k) ==
    /\ \A m, n \in 1 .. Len(mw) : m < n => Len(mw[m]) <= Len(mw[n])
    /\ \A n \in 1 .. Len(mw) : Len(mw[n]) <= k

\* A node with middlewares was pushed as often as the walk has met it; the
\* shorter ones first.
CollectedInv(regs, w) ==
    w.at \in {"path", "directory"} =>
        /\ \A a : HasMiddlewares(regs, a) => Cardinality(Occ(w.mw, a)) = TimesMet(w, a)
        /\ Ascending(w.mw, Len(w.node))

\* What pushing a node that is longer than the others does.
LEMMA PushCounts ==
    ASSUME NEW regs, NEW mw \in Seq(Seq(Segments)), NEW b \in Seq(Segments),
           Ascending(mw, Len(b)), NEW p, p = Push(regs, mw, b)
    PROVE  /\ p \in Seq(Seq(Segments))
           /\ \A a : HasMiddlewares(regs, a) =>
                 Cardinality(Occ(p, a)) = Cardinality(Occ(mw, a)) + (IF b = a THEN 1 ELSE 0)
           /\ Ascending(p, Len(b))
<1>1. p \in Seq(Seq(Segments))
  BY PushFacts
<1>2. CASE Middlewares(regs, b) = <<>>
  <2>1. p = mw
    BY <1>2 DEF Push
  <2>2. \A a : HasMiddlewares(regs, a) => b # a
    BY <1>2 DEF HasMiddlewares
  <2>3. \A a : Cardinality(Occ(mw, a)) \in Nat
    BY OccFacts
  <2> QED  BY <1>1, <2>1, <2>2, <2>3
<1>3. CASE Middlewares(regs, b) # <<>>
  <2>1. p = Append(mw, b)
    BY <1>3 DEF Push
  <2>2. /\ Len(p) = Len(mw) + 1 /\ (\A j \in 1 .. Len(mw) : p[j] = mw[j])
        /\ p[Len(mw) + 1] = b /\ Len(mw) \in Nat
    BY <2>1, AppendFacts
  <2>3. \A a : Cardinality(Occ(p, a)) = Cardinality(Occ(mw, a)) + (IF b = a THEN 1 ELSE 0)
    BY <2>1, OccAppend
  <2>4. \A n \in 1 .. Len(p) : n \in 1 .. Len(mw) \/ n = Len(mw) + 1
    BY <2>2
  <2>5. Len(b) <= Len(b)
    OBVIOUS
  <2>6. \A n \in 1 .. Len(p) : Len(p[n]) <= Len(b)
    BY <2>2, <2>4, <2>5 DEF Ascending
  <2>7. ASSUME NEW m \in 1 .. Len(p), NEW n \in 1 .. Len(p), m < n
        PROVE  Len(p[m]) <= Len(p[n])
    <3>1. m \in 1 .. Len(mw)
      BY <2>2, <2>7
    <3>2. CASE n \in 1 .. Len(mw)
      BY <2>2, <2>7, <3>1, <3>2 DEF Ascending
    <3>3. CASE n = Len(mw) + 1
      BY <2>2, <2>6, <3>3
    <3> QED  BY <2>4, <3>2, <3>3
  <2> QED  BY <1>1, <2>3, <2>6, <2>7 DEF Ascending
<1> QED  BY <1>2, <1>3

\* The directory of a node is met when the walk leaves it, whatever comes next.
LEMMA MetOn ==
    ASSUME NEW v \in Seq(Segments), NEW x \in Segments, NEW a \in Seq(Segments), a # <<>>
    PROVE  LET dir == Append(v, Dir)
               before == TimesMet([node |-> v, at |-> "path"], a) + (IF dir = a THEN 1 ELSE 0)
           IN  /\ TimesMet([node |-> Append(v, x), at |-> "path"], a)
                     = before + (IF Append(v, x) = a THEN 1 ELSE 0)
               /\ TimesMet([node |-> dir, at |-> "directory"], a) = before
               /\ TimesMet([node |-> v, at |-> "path"], a) \in Nat
<1> DEFINE dir == Append(v, Dir)
           f == Front(a)
<1>1. Dir \in Segments
  BY DEF Segments
<1>2. f \in Seq(Segments) /\ (a = dir <=> f = v /\ Last(a) = Dir)
  BY <1>1, FrontAndLast
<1>3. \A y \in Segments :
        /\ IsPrefix(a, Append(v, y)) <=> IsPrefix(a, v) \/ a = Append(v, y)
        /\ ~(IsPrefix(a, v) /\ a = Append(v, y))
  BY PrefixOfNext
<1>4. \A y \in Segments : IsStrictPrefix(f, Append(v, y)) <=> IsStrictPrefix(f, v) \/ f = v
  BY <1>2, PrefixOfNext
<1>5. f = v => ~IsStrictPrefix(f, v)
  BY DEF IsStrictPrefix
<1> HIDE DEF f
<1>6. \A u : TimesMet([node |-> u, at |-> "path"], a)
                = (IF Last(a) = Dir /\ IsStrictPrefix(f, u) THEN 1 ELSE 0)
                  + (IF IsPrefix(a, u) THEN 1 ELSE 0)
  BY DEF TimesMet, f
<1>7. \A u : TimesMet([node |-> u, at |-> "directory"], a)
                = (IF Last(a) = Dir /\ IsStrictPrefix(f, u) THEN 1 ELSE 0)
                  + (IF IsPrefix(a, u) /\ a # u THEN 1 ELSE 0)
  BY DEF TimesMet, f
<1> HIDE DEF dir
<1>8. /\ IsStrictPrefix(f, Append(v, x)) <=> IsStrictPrefix(f, v) \/ f = v
      /\ IsStrictPrefix(f, dir) <=> IsStrictPrefix(f, v) \/ f = v
      /\ IsPrefix(a, Append(v, x)) <=> IsPrefix(a, v) \/ a = Append(v, x)
      /\ ~(IsPrefix(a, v) /\ a = Append(v, x))
      /\ IsPrefix(a, dir) /\ a # dir <=> IsPrefix(a, v)
  BY <1>1, <1>3, <1>4 DEF dir
<1>9. TimesMet([node |-> Append(v, x), at |-> "path"], a)
        = (TimesMet([node |-> v, at |-> "path"], a) + (IF dir = a THEN 1 ELSE 0))
          + (IF Append(v, x) = a THEN 1 ELSE 0)
  <2> DEFINE here == Last(a) = Dir
             before == IsStrictPrefix(f, v)
             at == f = v
             on == IsPrefix(a, v)
             next == a = Append(v, x)
  <2>1. TimesMet([node |-> Append(v, x), at |-> "path"], a)
          = (IF here /\ (before \/ at) THEN 1 ELSE 0) + (IF on \/ next THEN 1 ELSE 0)
    BY <1>6, <1>8
  <2>2. TimesMet([node |-> v, at |-> "path"], a)
          = (IF here /\ before THEN 1 ELSE 0) + (IF on THEN 1 ELSE 0)
    BY <1>6
  <2>3. (IF dir = a THEN 1 ELSE 0) = IF here /\ at THEN 1 ELSE 0
    BY <1>2
  <2>4. (IF Append(v, x) = a THEN 1 ELSE 0) = IF next THEN 1 ELSE 0
    OBVIOUS
  <2>5. ~(on /\ next) /\ ~(before /\ at)
    BY <1>5, <1>8
  <2> HIDE DEF here, before, at, on, next
  <2> QED  BY <2>1, <2>2, <2>3, <2>4, <2>5
<1>10. TimesMet([node |-> dir, at |-> "directory"], a)
        = TimesMet([node |-> v, at |-> "path"], a) + (IF dir = a THEN 1 ELSE 0)
  BY <1>2, <1>5, <1>6, <1>7, <1>8
<1>11. TimesMet([node |-> v, at |-> "path"], a) \in Nat
  BY <1>6
<1> QED  BY <1>9, <1>10, <1>11 DEF dir

LEMMA CollectedStep ==
    ASSUME NEW regs \in Regs, NEW path \in Seq(Segments), NEW i \in 1 .. Len(path),
           NEW w \in WalkStates, CollectedInv(regs, w),
           NEW s, s = Step(regs, path, w, i)
    PROVE  CollectedInv(regs, s)
<1>1. CASE w.at # "path"
  <2>1. s = w
    BY <1>1, StepFacts
  <2> QED  BY <2>1
<1>2. CASE w.at = "path"
  <2> DEFINE v == w.node
             dir == Append(v, Dir)
             mw == Push(regs, w.mw, dir)
  <2>1. /\ s \in WalkStates
        /\ \/ s.at = "thrown"
           \/ /\ s.at = "path"
              /\ \/ s.node = Append(v, path[i])
                 \/ s.node = Append(v, Star)
              /\ s.mw = Push(regs, mw, s.node)
           \/ s.at = "directory" /\ s.node = dir /\ s.mw = mw
           \/ s.at = "nowhere"
    BY <1>2, StepFacts
  <2>2. /\ v \in Seq(Segments) /\ w.mw \in Seq(Seq(Segments))
        /\ path[i] \in Segments /\ Star \in Segments /\ Dir \in Segments
    BY DEF WalkStates, Segments
  <2>3. /\ \A x \in Segments : Append(v, x) \in Seq(Segments) /\ Len(Append(v, x)) = Len(v) + 1
        /\ Len(v) \in Nat
    BY <2>2, AppendFacts
  <2>4. /\ dir \in Seq(Segments) /\ Len(dir) = Len(v) + 1
    BY <2>2, <2>3
  <2>5. /\ \A a : HasMiddlewares(regs, a) => Cardinality(Occ(w.mw, a)) = TimesMet(w, a)
        /\ Ascending(w.mw, Len(v))
    BY <1>2 DEF CollectedInv
  <2>6. Ascending(w.mw, Len(dir))
    <3>1. \A n \in 1 .. Len(w.mw) : Len(w.mw[n]) \in Nat
      BY <2>2
    <3> HIDE DEF dir, v
    <3> QED  BY <2>3, <2>4, <2>5, <3>1 DEF Ascending
  <2>7. \A a \in Seq(Segments) : TimesMet(w, a) = TimesMet([node |-> v, at |-> "path"], a)
    BY <1>2 DEF TimesMet
  <2> HIDE DEF v, dir
  <2>8. /\ mw \in Seq(Seq(Segments))
        /\ \A a : HasMiddlewares(regs, a) =>
              Cardinality(Occ(mw, a)) = Cardinality(Occ(w.mw, a)) + (IF dir = a THEN 1 ELSE 0)
        /\ Ascending(mw, Len(dir))
    BY <2>2, <2>4, <2>5, <2>6, PushCounts
  <2> HIDE DEF mw
  <2>9. CASE s.at = "path"
    <3>1. PICK x \in Segments : s.node = Append(v, x)
      BY <2>1, <2>2, <2>9
    <3>2. s.mw = Push(regs, mw, s.node) /\ s.node \in Seq(Segments) /\ Len(s.node) = Len(dir)
      BY <2>1, <2>3, <2>4, <2>9, <3>1
    <3>3. Ascending(mw, Len(s.node))
      BY <2>8, <3>2
    <3>4. /\ \A a : HasMiddlewares(regs, a) =>
                Cardinality(Occ(s.mw, a)) = Cardinality(Occ(mw, a)) + (IF s.node = a THEN 1 ELSE 0)
          /\ Ascending(s.mw, Len(s.node))
      BY <2>8, <3>2, <3>3, PushCounts
    <3>5. ASSUME NEW a, HasMiddlewares(regs, a)
          PROVE  Cardinality(Occ(s.mw, a)) = TimesMet(s, a)
      <4>1. a \in Seq(Segments) /\ a # <<>>
        BY <3>5 DEF HasMiddlewares
      <4>2. TimesMet(s, a) = TimesMet([node |-> Append(v, x), at |-> "path"], a)
        BY <2>9, <3>1 DEF TimesMet
      <4>3. TimesMet([node |-> Append(v, x), at |-> "path"], a)
              = (TimesMet([node |-> v, at |-> "path"], a) + (IF dir = a THEN 1 ELSE 0))
                + (IF Append(v, x) = a THEN 1 ELSE 0)
        BY <2>2, <4>1, MetOn DEF v, dir
      <4>4. Cardinality(Occ(mw, a)) = TimesMet([node |-> v, at |-> "path"], a) + (IF dir = a THEN 1 ELSE 0)
        BY <2>5, <2>7, <2>8, <3>5, <4>1
      <4>5. Cardinality(Occ(s.mw, a)) = Cardinality(Occ(mw, a)) + (IF Append(v, x) = a THEN 1 ELSE 0)
        BY <3>1, <3>4, <3>5
      <4> QED  BY <4>2, <4>3, <4>4, <4>5
    <3> QED  BY <3>4, <3>5 DEF CollectedInv
  <2>10. CASE s.at = "directory"
    <3>1. s.node = dir /\ s.mw = mw
      BY <2>1, <2>10
    <3>2. ASSUME NEW a, HasMiddlewares(regs, a)
          PROVE  Cardinality(Occ(s.mw, a)) = TimesMet(s, a)
      <4>1. a \in Seq(Segments) /\ a # <<>>
        BY <3>2 DEF HasMiddlewares
      <4>2. TimesMet(s, a) = TimesMet([node |-> dir, at |-> "directory"], a)
        BY <2>10, <3>1 DEF TimesMet
      <4>3. TimesMet([node |-> dir, at |-> "directory"], a)
              = TimesMet([node |-> v, at |-> "path"], a) + (IF dir = a THEN 1 ELSE 0)
        BY <2>2, <4>1, MetOn DEF v, dir
      <4>4. Cardinality(Occ(mw, a)) = TimesMet([node |-> v, at |-> "path"], a) + (IF dir = a THEN 1 ELSE 0)
        BY <2>5, <2>7, <2>8, <3>2, <4>1
      <4> QED  BY <3>1, <4>2, <4>3, <4>4
    <3> QED  BY <2>8, <3>1, <3>2 DEF CollectedInv
  <2>11. s.at \notin {"path", "directory"} => CollectedInv(regs, s)
    BY DEF CollectedInv
  <2> QED  BY <2>9, <2>10, <2>11
<1> QED  BY <1>1, <1>2

LEMMA CollectedHolds ==
    ASSUME NEW regs \in Regs, NEW path \in Seq(Segments), NEW w, IsWalk(regs, path, w)
    PROVE  \A i \in 0 .. Len(path) : CollectedInv(regs, w[i])
<1> DEFINE n == Len(path)
           P == {i \in 0 .. n : CollectedInv(regs, w[i])}
<1>1. n \in Nat /\ 0 \in 0 .. n /\ \A i \in 1 .. n : i \in 0 .. n /\ i - 1 \in 0 .. n
  OBVIOUS
<1>2. 0 \in P
  <2>1. w[0].node = <<>> /\ w[0].at = "path" /\ w[0].mw = <<>>
    BY DEF IsWalk
  <2>2. ASSUME NEW a, HasMiddlewares(regs, a)
        PROVE  Cardinality(Occ(<<>>, a)) = TimesMet(w[0], a)
    <3>1. a \in Seq(Segments) /\ a # <<>>
      BY <2>2 DEF HasMiddlewares
    <3>2. Occ(<<>>, a) = {}
      BY DEF Occ
    <3>3. Cardinality(Occ(<<>>, a)) = 0
      BY <3>2, FS_EmptySet
    <3>4. <<>> \in Seq(Segments) /\ Len(<<>>) = 0 /\ Len(a) > 0
      BY <3>1
    <3>5. ~IsPrefix(a, <<>>)
      BY <3>4 DEF IsPrefix
    <3>6. ~IsStrictPrefix(Front(a), <<>>)
      <4>1. Front(a) \in Seq(Segments)
        BY <3>1, FrontAndLast
      <4>2. IsStrictPrefix(Front(a), <<>>) => Len(Front(a)) < Len(<<>>)
        BY <3>4, <4>1, PrefixIs
      <4>3. Len(Front(a)) \in Nat
        BY <4>1
      <4> QED  BY <3>4, <4>2, <4>3
    <3> QED  BY <2>1, <3>3, <3>5, <3>6 DEF TimesMet
  <2>3. 1 .. Len(<<>>) = {}
    OBVIOUS
  <2>4. CollectedInv(regs, w[0])
    BY <2>1, <2>2, <2>3 DEF CollectedInv, Ascending
  <2> QED  BY <1>1, <2>4
<1>3. ASSUME NEW i \in 1 .. n, i - 1 \in P PROVE i \in P
  <2>1. /\ CollectedInv(regs, w[i - 1]) /\ w[i - 1] \in WalkStates
        /\ w[i] = Step(regs, path, w[i - 1], i)
    BY <1>1, <1>3 DEF IsWalk
  <2>2. CollectedInv(regs, w[i])
    BY <2>1, CollectedStep
  <2> QED  BY <1>1, <2>2
<1>4. \A i \in 0 .. n : i \in P
  <2> HIDE DEF P, n
  <2> QED  BY <1>1, <1>2, <1>3, UpTo
<1> QED  BY <1>4

-----------------------------------------------------------------------------
(* The callbacks that run.                                                 *)

\* A handler is none, or one of the calls that are not of `use`.
LEMMA TargetFacts ==
    ASSUME NEW regs \in Regs, NEW node, NEW verb, verb # "use"
    PROVE  \/ Target(regs, node, verb) = NoHandler
           \/ \E i \in 1 .. Len(regs) : Target(regs, node, verb) = i /\ regs[i].kind # "use"
<1> DEFINE here(i) == /\ regs[i].path = node
                      /\ regs[i].kind = verb \/ (regs[i].kind = "any" /\ verb # "head")
           X == {NoHandler} \cup {i \in 1 .. Len(regs) : regs[i].kind # "use"}
           x == NoHandler
           n == Len(regs)
           F == [i \in 1 .. n |-> [t \in X |-> IF here(i) THEN i ELSE t]]
           d(u) == [i \in 0 .. Len(regs) |->
                      IF i = 0 THEN NoHandler
                      ELSE IF /\ regs[i].path = node
                              /\ regs[i].kind = verb \/ (regs[i].kind = "any" /\ verb # "head")
                           THEN regs[i].id ELSE u[i - 1]]
           target == CHOOSE u : u = d(u)
<1>1. n \in Nat /\ \A i \in 1 .. n : regs[i].id = i
  BY RegFacts
<1>2. \A i \in 1 .. n : here(i) => i \in X
  OBVIOUS
<1>3. F \in [1 .. n -> [X -> X]] /\ x \in X
  <2>1. x \in X
    OBVIOUS
  <2> HIDE DEF here, X, n, x
  <2> QED  BY <1>2, <2>1
<1>4. PICK f : Carries(f, n, X, x, F)
  <2>1. \E f : Carries(f, n, X, x, F)
    <3> HIDE DEF F, n, X, x
    <3> QED  BY <1>1, <1>3, Recursion
  <2> QED  BY <2>1
<1>5. /\ f \in [0 .. n -> X] /\ f[0] = x
      /\ \A i \in 1 .. n : f[i] = IF here(i) THEN i ELSE f[i - 1]
  <2>1. f \in [0 .. n -> X] /\ f[0] = x /\ \A i \in 1 .. n : f[i] = F[i][f[i - 1]]
    <3> HIDE DEF F, n, X, x
    <3> QED  BY <1>4 DEF Carries
  <2>2. \A i \in 1 .. n : i - 1 \in 0 .. n
    <3> HIDE DEF n
    <3> QED  BY <1>1
  <2>3. \A i \in 1 .. n : f[i - 1] \in X
    <3> HIDE DEF F, n, X, x
    <3> QED  BY <2>1, <2>2
  <2>4. \A i \in 1 .. n : \A u \in X : F[i][u] = IF here(i) THEN i ELSE u
    <3> HIDE DEF n, X, here
    <3> QED  OBVIOUS
  <2> HIDE DEF F, n, X, x, here
  <2> QED  BY <2>1, <2>3, <2>4
<1>6. /\ \A i \in 0 .. n : i = 0 \/ i \in 1 .. n
      /\ \A i \in 1 .. n : i \in 0 .. n /\ i # 0
      /\ 0 \in 0 .. n /\ n \in 0 .. n
  <2> HIDE DEF n
  <2> QED  BY <1>1
<1>7. \A u : /\ d(u)[0] = x
             /\ \A i \in 1 .. n : d(u)[i] = IF here(i) THEN i ELSE u[i - 1]
  <2>1. \A u : \A i \in 0 .. n : d(u)[i] = IF i = 0 THEN x ELSE IF here(i) THEN regs[i].id ELSE u[i - 1]
    OBVIOUS
  <2> HIDE DEF d, x, n, here
  <2> QED  BY <1>1, <1>6, <2>1
<1>8. f = d(f)
  <2>1. f = [i \in 0 .. n |-> f[i]]
    <3> HIDE DEF n, X, x
    <3> QED  BY <1>5
  <2>2. \A i \in 0 .. n : f[i] = d(f)[i]
    <3> HIDE DEF d, n, X, x, here
    <3> QED  BY <1>5, <1>6, <1>7
  <2>3. d(f) = [i \in 0 .. n |-> d(f)[i]]
    OBVIOUS
  <2> HIDE DEF d, n
  <2> QED  BY <2>1, <2>2, <2>3
<1>9. target = d(target)
  <2> HIDE DEF d
  <2> QED  BY <1>8
<1>10. Target(regs, node, verb) = target[n]
  BY DEF Target
<1>11. target[0] = x /\ \A i \in 1 .. n : target[i] = IF here(i) THEN i ELSE target[i - 1]
  <2> HIDE DEF d, target, x, n, here
  <2> QED  BY <1>7, <1>9
<1>12. target[n] \in X
  <2> DEFINE P == {i \in 0 .. n : target[i] \in X}
  <2>1. 0 \in P
    <3> HIDE DEF target, d, X, x, n
    <3> QED  BY <1>3, <1>6, <1>11
  <2>2. ASSUME NEW i \in 1 .. n, i - 1 \in P PROVE i \in P
    <3>1. target[i - 1] \in X
      BY <2>2
    <3> HIDE DEF target, d, X, x, n, here
    <3> QED  BY <1>2, <1>6, <1>11, <3>1
  <2>3. \A i \in 0 .. n : i \in P
    <3> HIDE DEF P, n
    <3> QED  BY <1>1, <2>1, <2>2, UpTo
  <2> HIDE DEF target, d, X, x, n
  <2> QED  BY <1>6, <2>3
<1> HIDE DEF target, d
<1> QED  BY <1>10, <1>12

LEMMA OnceAmongMiddlewares ==
    ASSUME NEW regs \in Regs, NEW node, NEW k
    PROVE  Cardinality(Occ(Middlewares(regs, node), k)) = IF k \in UsedAt(regs, node) THEN 1 ELSE 0
<1> DEFINE q == Middlewares(regs, node)
<1>1. /\ q \in Seq(Nat)
      /\ \A m, n \in 1 .. Len(q) : q[m] = q[n] => m = n
      /\ k \in UsedAt(regs, node) <=> \E n \in 1 .. Len(q) : q[n] = k
  BY MiddlewareFacts
<1> HIDE DEF q
<1>2. Occ(q, k) = {n \in 1 .. Len(q) : q[n] = k}
  BY <1>1, OccFacts
<1>3. CASE k \in UsedAt(regs, node)
  <2>1. PICK n \in 1 .. Len(q) : q[n] = k
    BY <1>1, <1>3
  <2>2. Occ(q, k) = {n}
    BY <1>1, <1>2, <2>1
  <2>3. Cardinality(Occ(q, k)) = 1
    BY <2>2, FS_Singleton
  <2> QED  BY <1>3, <2>3 DEF q
<1>4. CASE k \notin UsedAt(regs, node)
  <2>1. Occ(q, k) = {}
    BY <1>1, <1>2, <1>4
  <2>2. Cardinality(Occ(q, k)) = 0
    BY <2>1, FS_EmptySet
  <2> QED  BY <1>4, <2>2 DEF q
<1> QED  BY <1>3, <1>4

\* w wraps the middlewares of the nodes mw, one node after the other.
IsWrapping(regs, mw, w) ==
    /\ w \in [0 .. Len(mw) -> Seq(Nat)]
    /\ w[0] = <<>>
    /\ \A i \in 1 .. Len(mw) : w[i] = Reverse(Middlewares(regs, mw[i])) \o w[i - 1]

LEMMA ChainFacts ==
    ASSUME NEW regs \in Regs, NEW mw \in Seq(Seq(Segments))
    PROVE  \E w : IsWrapping(regs, mw, w) /\ Chain(regs, mw) = w[Len(mw)]
<1> DEFINE n == Len(mw)
           X == Seq(Nat)
           x == <<>>
           outer(i) == Reverse(Middlewares(regs, mw[i]))
           F == [i \in 1 .. n |-> [u \in X |-> outer(i) \o u]]
           d(u) == [i \in 0 .. Len(mw) |->
                      IF i = 0 THEN <<>> ELSE Reverse(Middlewares(regs, mw[i])) \o u[i - 1]]
           wrapped == CHOOSE u : u = d(u)
<1>1. n \in Nat
  OBVIOUS
<1>2. x \in X
  OBVIOUS
<1>3. \A i \in 1 .. n : \A u \in X : outer(i) \o u \in X
  <2>1. \A i \in 1 .. n : outer(i) \in Seq(Nat)
    BY MiddlewareFacts, ReverseMeans
  <2> HIDE DEF outer, n
  <2> QED  BY <2>1, ConcatMeans
<1>4. F \in [1 .. n -> [X -> X]]
  <2> HIDE DEF X, n, outer
  <2> QED  BY <1>3
<1>5. PICK f : Carries(f, n, X, x, F)
  <2>1. \E f : Carries(f, n, X, x, F)
    <3> HIDE DEF F, n, X, x
    <3> QED  BY <1>1, <1>2, <1>4, Recursion
  <2> QED  BY <2>1
<1>6. /\ f \in [0 .. n -> X] /\ f[0] = x
      /\ \A i \in 1 .. n : f[i] = outer(i) \o f[i - 1]
  <2>1. f \in [0 .. n -> X] /\ f[0] = x /\ \A i \in 1 .. n : f[i] = F[i][f[i - 1]]
    <3> HIDE DEF F, n, X, x
    <3> QED  BY <1>5 DEF Carries
  <2>2. \A i \in 1 .. n : i - 1 \in 0 .. n
    <3> HIDE DEF n
    <3> QED  BY <1>1
  <2>3. \A i \in 1 .. n : f[i - 1] \in X
    <3> HIDE DEF F, n, X, x
    <3> QED  BY <2>1, <2>2
  <2>4. \A i \in 1 .. n : \A u \in X : F[i][u] = outer(i) \o u
    <3> HIDE DEF n, X, outer
    <3> QED  OBVIOUS
  <2> HIDE DEF F, n, X, x, outer
  <2> QED  BY <2>1, <2>3, <2>4
<1>7. /\ \A i \in 0 .. n : i = 0 \/ i \in 1 .. n
      /\ \A i \in 1 .. n : i \in 0 .. n /\ i # 0
      /\ 0 \in 0 .. n /\ n \in 0 .. n
  <2> HIDE DEF n
  <2> QED  BY <1>1
<1>8. \A u : d(u)[0] = x /\ \A i \in 1 .. n : d(u)[i] = outer(i) \o u[i - 1]
  <2>1. \A u : \A i \in 0 .. n : d(u)[i] = IF i = 0 THEN x ELSE outer(i) \o u[i - 1]
    OBVIOUS
  <2> HIDE DEF d, x, n, outer
  <2> QED  BY <1>7, <2>1
<1>9. f = d(f)
  <2>1. f = [i \in 0 .. n |-> f[i]]
    <3> HIDE DEF n, X, x
    <3> QED  BY <1>6
  <2>2. \A i \in 0 .. n : f[i] = d(f)[i]
    <3> HIDE DEF d, n, X, x, outer
    <3> QED  BY <1>6, <1>7, <1>8
  <2>3. d(f) = [i \in 0 .. n |-> d(f)[i]]
    OBVIOUS
  <2> HIDE DEF d, n
  <2> QED  BY <2>1, <2>2, <2>3
<1>10. wrapped = d(wrapped)
  <2> HIDE DEF d
  <2> QED  BY <1>9
<1>11. Chain(regs, mw) = wrapped[Len(mw)]
  BY DEF Chain
<1>12. wrapped = [i \in 0 .. n |-> wrapped[i]]
  <2>1. d(wrapped) = [i \in 0 .. n |-> d(wrapped)[i]]
    OBVIOUS
  <2> HIDE DEF d, wrapped
  <2> QED  BY <1>10, <2>1
<1>13. wrapped[0] = x /\ \A i \in 1 .. n : wrapped[i] = outer(i) \o wrapped[i - 1]
  <2> HIDE DEF d, wrapped, x, n, outer
  <2> QED  BY <1>8, <1>10
<1>14. \A i \in 0 .. n : wrapped[i] \in X
  <2> DEFINE P == {i \in 0 .. n : wrapped[i] \in X}
  <2>1. 0 \in P
    <3> HIDE DEF wrapped, d, X, x, n
    <3> QED  BY <1>2, <1>7, <1>13
  <2>2. ASSUME NEW i \in 1 .. n, i - 1 \in P PROVE i \in P
    <3>1. wrapped[i - 1] \in X
      BY <2>2
    <3> HIDE DEF wrapped, d, X, x, n, outer
    <3> QED  BY <1>3, <1>7, <1>13, <3>1
  <2>3. \A i \in 0 .. n : i \in P
    <3> HIDE DEF P, n
    <3> QED  BY <1>1, <2>1, <2>2, UpTo
  <2> HIDE DEF wrapped, d, X, x, n
  <2> QED  BY <2>3
<1>15. wrapped \in [0 .. n -> X]
  <2> HIDE DEF wrapped, d, X, x, n
  <2> QED  BY <1>12, <1>14
<1>16. IsWrapping(regs, mw, wrapped)
  <2> HIDE DEF wrapped, d
  <2> QED  BY <1>13, <1>15 DEF IsWrapping
<1> HIDE DEF wrapped, d
<1> QED  BY <1>11, <1>16

\* c runs middlewares of the first i nodes of mw: each as often as its node is
\* there, those of shorter nodes first.
ChainInv(regs, mw, i, c) ==
    /\ c \in Seq(Nat)
    /\ \A n \in 1 .. Len(c) :
          /\ c[n] \in 1 .. Len(regs) /\ regs[c[n]].kind = "use"
          /\ \E p \in 1 .. i : mw[p] = regs[c[n]].path
    /\ \A m, n \in 1 .. Len(c) : m < n => Len(regs[c[m]].path) <= Len(regs[c[n]].path)
    /\ \A k \in 1 .. Len(regs) :
          regs[k].kind = "use" =>
              Cardinality(Occ(c, k)) = Cardinality({p \in 1 .. i : mw[p] = regs[k].path})

LEMMA ChainStep ==
    ASSUME NEW regs \in Regs, NEW mw \in Seq(Seq(Segments)), NEW i \in 1 .. Len(mw),
           \A m, n \in 1 .. Len(mw) : m < n => Len(mw[n]) <= Len(mw[m]),
           NEW t, ChainInv(regs, mw, i - 1, t)
    PROVE  ChainInv(regs, mw, i, Reverse(Middlewares(regs, mw[i])) \o t)
<1> DEFINE s == Reverse(Middlewares(regs, mw[i]))
           c == s \o t
           k == Len(s)
<1>1. t \in Seq(Nat) /\ s \in Seq(Nat)
  BY MiddlewareFacts, ReverseMeans DEF ChainInv
<1>2. ASSUME NEW n \in 1 .. Len(s)
      PROVE  s[n] \in 1 .. Len(regs) /\ regs[s[n]].kind = "use" /\ regs[s[n]].path = mw[i]
  <2> DEFINE u == Middlewares(regs, mw[i])
  <2>1. u \in Seq(Nat) /\ \A m \in 1 .. Len(u) : u[m] \in UsedAt(regs, mw[i])
    BY MiddlewareFacts
  <2> HIDE DEF u
  <2>2. Len(Reverse(u)) = Len(u) /\ \A j \in 1 .. Len(u) : \E m \in 1 .. Len(u) : Reverse(u)[j] = u[m]
    BY <2>1, ReverseMeans
  <2>3. s[n] \in UsedAt(regs, mw[i])
    BY <2>1, <2>2 DEF u
  <2> QED  BY <2>3 DEF UsedAt
<1>3. \A j : Cardinality(Occ(s, j)) = IF j \in UsedAt(regs, mw[i]) THEN 1 ELSE 0
  <2> DEFINE u == Middlewares(regs, mw[i])
  <2>1. u \in Seq(Nat) /\ \A j : Cardinality(Occ(u, j)) = IF j \in UsedAt(regs, mw[i]) THEN 1 ELSE 0
    BY MiddlewareFacts, OnceAmongMiddlewares
  <2> HIDE DEF u
  <2>2. \A j : Cardinality(Occ(Reverse(u), j)) = Cardinality(Occ(u, j))
    BY <2>1, OccReverse
  <2> QED  BY <2>1, <2>2 DEF u
<1> HIDE DEF s
<1>4. /\ c \in Seq(Nat) /\ Len(c) = k + Len(t) /\ k \in Nat /\ Len(t) \in Nat
      /\ \A j \in 1 .. k : c[j] = s[j]
      /\ \A j \in 1 .. Len(t) : c[k + j] = t[j]
  BY <1>1, ConcatMeans
<1>5. \A j : Cardinality(Occ(c, j)) = Cardinality(Occ(s, j)) + Cardinality(Occ(t, j))
  BY <1>1, OccConcat
<1> HIDE DEF c, k
<1>6. /\ \A n \in 1 .. k + Len(t) : n \in 1 .. k \/ (n - k \in 1 .. Len(t) /\ k + (n - k) = n)
      /\ \A m \in 1 .. k, n \in 1 .. Len(t) : ~(k + n < m)
      /\ \A m, n \in 1 .. k + Len(t) : m < n /\ n \in 1 .. k => m \in 1 .. k
      /\ \A m, n \in 1 .. k + Len(t) : m < n => m - k < n - k
  <2>1. \A n \in 1 .. k + Len(t) : n \in 1 .. k \/ (n - k \in 1 .. Len(t) /\ k + (n - k) = n)
    BY <1>4
  <2>2. \A m \in 1 .. k, n \in 1 .. Len(t) : ~(k + n < m)
    BY <1>4
  <2>3. \A m, n \in 1 .. k + Len(t) : m < n /\ n \in 1 .. k => m \in 1 .. k
    BY <1>4
  <2>4. \A m, n \in 1 .. k + Len(t) : m < n => m - k < n - k
    BY <1>4
  <2> QED  BY <2>1, <2>2, <2>3, <2>4
<1>7. /\ i \in Nat /\ \A p \in 1 .. i - 1 : p \in 1 .. i /\ p < i /\ p \in 1 .. Len(mw)
      /\ \A p \in 1 .. i : p \in 1 .. i - 1 \/ p = i
      /\ i \in 1 .. i /\ i \notin 1 .. i - 1
  OBVIOUS
<1>8. \A n \in 1 .. Len(t) : /\ t[n] \in 1 .. Len(regs) /\ regs[t[n]].kind = "use"
                             /\ \E p \in 1 .. i - 1 : mw[p] = regs[t[n]].path
  BY DEF ChainInv
<1>9. ASSUME NEW n \in 1 .. Len(c)
      PROVE  /\ c[n] \in 1 .. Len(regs) /\ regs[c[n]].kind = "use"
             /\ \E p \in 1 .. i : mw[p] = regs[c[n]].path
  <2>1. CASE n \in 1 .. k
    BY <1>2, <1>4, <1>7, <2>1 DEF k
  <2>2. CASE n - k \in 1 .. Len(t) /\ k + (n - k) = n
    <3>1. c[n] = t[n - k]
      BY <1>4, <2>2
    <3> QED  BY <1>7, <1>8, <2>2, <3>1
  <2> QED  BY <1>4, <1>6, <2>1, <2>2
<1>10. ASSUME NEW m \in 1 .. Len(c), NEW n \in 1 .. Len(c), m < n
       PROVE  Len(regs[c[m]].path) <= Len(regs[c[n]].path)
  <2>1. CASE n \in 1 .. k
    <3>1. m \in 1 .. k
      BY <1>4, <1>6, <1>10, <2>1
    <3>2. regs[c[m]].path = mw[i] /\ regs[c[n]].path = mw[i]
      BY <1>2, <1>4, <2>1, <3>1 DEF k
    <3>3. Len(mw[i]) \in Nat
      OBVIOUS
    <3>4. \A l \in Nat : l <= l
      OBVIOUS
    <3> QED  BY <3>2, <3>3, <3>4
  <2>2. CASE n - k \in 1 .. Len(t) /\ k + (n - k) = n
    <3>1. c[n] = t[n - k]
      BY <1>4, <2>2
    <3>2. CASE m \in 1 .. k
      <4>1. regs[c[m]].path = mw[i]
        BY <1>2, <1>4, <3>2 DEF k
      <4>2. PICK p \in 1 .. i - 1 : mw[p] = regs[c[n]].path
        BY <1>8, <2>2, <3>1
      <4>3. Len(mw[i]) <= Len(mw[p])
        BY <1>7
      <4> QED  BY <4>1, <4>2, <4>3
    <3>3. CASE m - k \in 1 .. Len(t) /\ k + (m - k) = m
      <4>1. c[m] = t[m - k]
        BY <1>4, <3>3
      <4>2. m - k < n - k
        BY <1>4, <1>6, <1>10
      <4>3. Len(regs[t[m - k]].path) <= Len(regs[t[n - k]].path)
        BY <2>2, <3>3, <4>2 DEF ChainInv
      <4> QED  BY <3>1, <4>1, <4>3
    <3> QED  BY <1>4, <1>6, <3>2, <3>3
  <2> QED  BY <1>4, <1>6, <2>1, <2>2
<1>11. ASSUME NEW j \in 1 .. Len(regs), regs[j].kind = "use"
       PROVE  Cardinality(Occ(c, j)) = Cardinality({p \in 1 .. i : mw[p] = regs[j].path})
  <2> DEFINE before == {p \in 1 .. i - 1 : mw[p] = regs[j].path}
             now == {p \in 1 .. i : mw[p] = regs[j].path}
  <2>1. Cardinality(Occ(t, j)) = Cardinality(before)
    BY <1>11 DEF ChainInv
  <2>2. IsFiniteSet(before) /\ Cardinality(before) \in Nat
    <3>1. 1 \in Int /\ i - 1 \in Int
      BY <1>7
    <3>2. IsFiniteSet(1 .. i - 1)
      BY <3>1, FS_Interval
    <3>3. before \subseteq 1 .. i - 1
      OBVIOUS
    <3> HIDE DEF before
    <3>4. IsFiniteSet(before)
      BY <3>2, <3>3, FS_Subset
    <3> QED  BY <3>4, FS_CardinalityType
  <2>3. CASE mw[i] = regs[j].path
    <3>1. now = before \cup {i} /\ i \notin before
      BY <1>7, <2>3
    <3> HIDE DEF now, before
    <3>2. Cardinality(now) = Cardinality(before) + 1
      BY <2>2, <3>1, FS_AddElement
    <3>3. Cardinality(Occ(s, j)) = 1
      BY <1>3, <1>11, <2>3 DEF UsedAt
    <3>4. Cardinality(Occ(c, j)) = 1 + Cardinality(before)
      BY <1>5, <2>1, <3>3
    <3> QED  BY <2>2, <3>2, <3>4 DEF now
  <2>4. CASE mw[i] # regs[j].path
    <3>1. now = before
      BY <1>7, <2>4
    <3> HIDE DEF now, before
    <3>2. Cardinality(Occ(s, j)) = 0
      BY <1>3, <2>4 DEF UsedAt
    <3>3. Cardinality(Occ(c, j)) = 0 + Cardinality(before)
      BY <1>5, <2>1, <3>2
    <3>4. Cardinality(Occ(c, j)) = Cardinality(now)
      BY <2>2, <3>1, <3>3
    <3> QED  BY <3>4 DEF now
  <2> QED  BY <2>3, <2>4
<1>12. ChainInv(regs, mw, i, c)
  BY <1>4, <1>9, <1>10, <1>11 DEF ChainInv
<1> QED  BY <1>12 DEF c, s

LEMMA ChainHolds ==
    ASSUME NEW regs \in Regs, NEW mw \in Seq(Seq(Segments)),
           \A m, n \in 1 .. Len(mw) : m < n => Len(mw[n]) <= Len(mw[m])
    PROVE  ChainInv(regs, mw, Len(mw), Chain(regs, mw))
<1>1. PICK w : IsWrapping(regs, mw, w) /\ Chain(regs, mw) = w[Len(mw)]
  BY ChainFacts
<1> DEFINE n == Len(mw)
           P == {i \in 0 .. n : ChainInv(regs, mw, i, w[i])}
<1>2. n \in Nat /\ 0 \in 0 .. n /\ n \in 0 .. n /\ \A i \in 1 .. n : i \in 0 .. n /\ i - 1 \in 0 .. n
  OBVIOUS
<1>3. 0 \in P
  <2>1. w[0] = <<>>
    BY <1>1 DEF IsWrapping
  <2>2. \A k : Cardinality(Occ(<<>>, k)) = 0
    <3>1. \A k : Occ(<<>>, k) = {}
      BY DEF Occ
    <3> QED  BY <3>1, FS_EmptySet
  <2>3. \A k : Cardinality({p \in 1 .. 0 : mw[p] = k}) = 0
    <3>1. \A k : {p \in 1 .. 0 : mw[p] = k} = {}
      OBVIOUS
    <3> QED  BY <3>1, FS_EmptySet
  <2>4. <<>> \in Seq(Nat) /\ 1 .. Len(<<>>) = {}
    OBVIOUS
  <2>5. ChainInv(regs, mw, 0, <<>>)
    BY <2>2, <2>3, <2>4 DEF ChainInv
  <2> QED  BY <1>2, <2>1, <2>5
<1>4. ASSUME NEW i \in 1 .. n, i - 1 \in P PROVE i \in P
  <2>1. ChainInv(regs, mw, i - 1, w[i - 1])
    BY <1>4
  <2>2. w[i] = Reverse(Middlewares(regs, mw[i])) \o w[i - 1]
    BY <1>1 DEF IsWrapping
  <2>3. ChainInv(regs, mw, i, w[i])
    BY <2>1, <2>2, ChainStep
  <2> QED  BY <1>2, <2>3
<1>5. \A i \in 0 .. n : i \in P
  <2> HIDE DEF P, n
  <2> QED  BY <1>2, <1>3, <1>4, UpTo
<1>6. ChainInv(regs, mw, n, w[n])
  BY <1>2, <1>5
<1> QED  BY <1>1, <1>6

\* What the entry function runs, for the calls of any app, any path and method.
LEMMA EntryAnswers ==
    ASSUME NEW regs \in Regs, NEW path \in Seq(Segments) \ {<<>>}, NEW method
    PROVE  LET found == Lookup(regs, path)
               entry == AppEntry(regs, method, path)
               by == entry.by
               Of(id) == CHOOSE r \in ToSet(regs) : r.id = id
           IN  entry.is = "handled" =>
                 /\ \A i \in {j \in DOMAIN regs : regs[j].kind = "use"} :
                       Cardinality({n \in DOMAIN by : by[n] = i}) = TimesMet(found, regs[i].path)
                 /\ \A m, n \in 1 .. Len(by) - 1 :
                       m < n => Len(Of(by[m]).path) <= Len(Of(by[n]).path)
                 /\ Last(by) = Handler(regs, found.node, method)
<1> DEFINE found == Lookup(regs, path)
           entry == AppEntry(regs, method, path)
           by == entry.by
           Of(id) == CHOOSE r \in ToSet(regs) : r.id = id
           handler == Handler(regs, found.node, method)
           chain == Chain(regs, found.mw)
<1> SUFFICES ASSUME entry.is = "handled"
             PROVE  /\ \A i \in {j \in DOMAIN regs : regs[j].kind = "use"} :
                          Cardinality(Occ(by, i)) = TimesMet(found, regs[i].path)
                    /\ \A m, n \in 1 .. Len(by) - 1 :
                          m < n => Len(Of(by[m]).path) <= Len(Of(by[n]).path)
                    /\ Last(by) = handler
  BY DEF Occ
<1>1. PICK w : IsWalk(regs, path, w) /\ Walk(regs, path) = w[Len(path)]
  BY WalkFacts
<1> DEFINE end == w[Len(path)]
<1>2. Len(path) \in 0 .. Len(path)
  OBVIOUS
<1>3. end \in WalkStates /\ CollectedInv(regs, end)
  BY <1>1, <1>2, CollectedHolds DEF IsWalk
<1>4. found.node = end.node /\ found.at = end.at /\ found.mw = Reverse(end.mw)
  BY <1>1, <1>3 DEF Lookup, WalkStates
<1>5. /\ found.at \in {"path", "directory"} /\ method \in {"GET", "POST", "HEAD"}
      /\ handler # NoHandler /\ entry = [is |-> "handled", by |-> Append(chain, handler)]
  <2>1. found.at \in {"path", "directory", "nowhere", "thrown"}
    <3> HIDE DEF found
    <3> QED  BY <1>3, <1>4 DEF WalkStates
  <2>2. entry = CASE found.at = "thrown" -> [is |-> "thrown"]
                  [] found.at = "nowhere" -> [is |-> "notFound"]
                  [] found.at \in {"path", "directory"} ->
                       IF method \notin {"GET", "POST", "HEAD"} THEN [is |-> "thrown"]
                       ELSE IF handler = NoHandler THEN [is |-> "notFound"]
                       ELSE [is |-> "handled", by |-> Append(chain, handler)]
    BY DEF AppEntry
  <2> HIDE DEF entry, found, handler, chain
  <2> QED  BY <2>1, <2>2
<1>6. handler \in Nat /\ \A i \in 1 .. Len(regs) : regs[i].kind = "use" => handler # i
  <2>1. handler \in {Target(regs, found.node, "get"), Target(regs, found.node, "post"),
                     Target(regs, found.node, "head")}
    BY <1>5 DEF Handler
  <2>2. \A verb \in {"get", "post", "head"} : verb # "use"
    OBVIOUS
  <2>3. \A verb \in {"get", "post", "head"} :
           \/ Target(regs, found.node, verb) = NoHandler
           \/ \E i \in 1 .. Len(regs) : Target(regs, found.node, verb) = i /\ regs[i].kind # "use"
    <3> HIDE DEF found
    <3> QED  BY <2>2, TargetFacts
  <2>4. Len(regs) \in Nat
    BY RegFacts
  <2> HIDE DEF handler, found
  <2>5. handler = NoHandler \/ \E i \in 1 .. Len(regs) : handler = i /\ regs[i].kind # "use"
    BY <2>1, <2>3
  <2>6. NoHandler \in Nat /\ \A i \in 1 .. Len(regs) : i \in Nat
    BY <2>4 DEF NoHandler
  <2> QED  BY <1>5, <2>5, <2>6
<1>7. /\ end.mw \in Seq(Seq(Segments)) /\ found.mw \in Seq(Seq(Segments))
      /\ \A a : HasMiddlewares(regs, a) =>
            Cardinality(Occ(found.mw, a)) = TimesMet(found, a)
      /\ \A m, n \in 1 .. Len(found.mw) : m < n => Len(found.mw[n]) <= Len(found.mw[m])
  <2> HIDE DEF found, end
  <2> DEFINE q == end.mw
  <2>1. q \in Seq(Seq(Segments)) /\ Ascending(q, Len(end.node)) /\ end.at = found.at
    BY <1>3, <1>4, <1>5 DEF WalkStates, CollectedInv
  <2>2. \A a : HasMiddlewares(regs, a) => Cardinality(Occ(q, a)) = TimesMet(found, a)
    <3>1. \A a : TimesMet(end, a) = TimesMet(found, a)
      BY <1>4 DEF TimesMet
    <3>2. \A a : HasMiddlewares(regs, a) => Cardinality(Occ(q, a)) = TimesMet(end, a)
      <4>1. CollectedInv(regs, end) /\ end.at \in {"path", "directory"}
        BY <1>3, <1>5, <2>1
      <4> QED  BY <4>1 DEF CollectedInv
    <3> QED  BY <3>1, <3>2
  <2>3. found.mw = Reverse(q)
    BY <1>4
  <2> HIDE DEF q
  <2>4. /\ Reverse(q) \in Seq(Seq(Segments)) /\ Len(Reverse(q)) = Len(q) /\ Len(q) \in Nat
        /\ \A j \in 1 .. Len(q) : /\ Reverse(q)[j] = q[(Len(q) - j) + 1]
                                  /\ (Len(q) - j) + 1 \in 1 .. Len(q)
    BY <2>1, ReverseMeans
  <2>5. \A a : Cardinality(Occ(Reverse(q), a)) = Cardinality(Occ(q, a))
    BY <2>1, OccReverse
  <2>6. ASSUME NEW m \in 1 .. Len(q), NEW n \in 1 .. Len(q), m < n
        PROVE  Len(Reverse(q)[n]) <= Len(Reverse(q)[m])
    <3>1. (Len(q) - n) + 1 < (Len(q) - m) + 1
      BY <2>4, <2>6
    <3> DEFINE x == (Len(q) - n) + 1
               y == (Len(q) - m) + 1
    <3>2. x \in 1 .. Len(q) /\ y \in 1 .. Len(q) /\ x < y
      BY <2>4, <3>1
    <3>3. Reverse(q)[n] = q[x] /\ Reverse(q)[m] = q[y]
      BY <2>4
    <3> HIDE DEF x, y
    <3> QED  BY <2>1, <3>2, <3>3 DEF Ascending
  <2> QED  BY <2>1, <2>2, <2>3, <2>4, <2>5, <2>6 DEF q
<1>8. ChainInv(regs, found.mw, Len(found.mw), chain)
  <2> HIDE DEF found
  <2> QED  BY <1>7, ChainHolds
<1>9. by = Append(chain, handler)
  <2> HIDE DEF entry, handler, chain
  <2> QED  BY <1>5
<1>10. chain \in Seq(Nat)
  BY <1>8 DEF ChainInv
<1> HIDE DEF entry, by, handler, chain, end, found
<1>11. /\ by \in Seq(Nat) /\ Len(by) = Len(chain) + 1 /\ Len(chain) \in Nat
       /\ \A j \in 1 .. Len(chain) : by[j] = chain[j]
       /\ by[Len(chain) + 1] = handler
  BY <1>6, <1>9, <1>10, AppendFacts
<1>12. Last(by) = handler
  BY <1>11 DEF Last
<1>13. ASSUME NEW i \in 1 .. Len(regs), regs[i].kind = "use"
       PROVE  Cardinality(Occ(by, i)) = TimesMet(found, regs[i].path)
  <2> DEFINE a == regs[i].path
  <2>1. a \in Seq(Segments) /\ a # <<>>
    BY RegFacts
  <2>2. i \in UsedAt(regs, a)
    BY <1>13 DEF UsedAt
  <2>3. HasMiddlewares(regs, a)
    <3>1. \E n \in 1 .. Len(Middlewares(regs, a)) : Middlewares(regs, a)[n] = i
      <4> HIDE DEF a
      <4> QED  BY <2>2, MiddlewareFacts
    <3>2. 1 .. Len(<<>>) = {}
      OBVIOUS
    <3>3. Middlewares(regs, a) # <<>>
      BY <3>1, <3>2
    <3> QED  BY <2>1, <3>3 DEF HasMiddlewares
  <2>4. Cardinality(Occ(found.mw, a)) = TimesMet(found, a)
    BY <1>7, <2>3
  <2>5. Occ(found.mw, a) = {p \in 1 .. Len(found.mw) : found.mw[p] = a}
    BY <1>7, OccFacts
  <2>6. Cardinality(Occ(chain, i)) = Cardinality({p \in 1 .. Len(found.mw) : found.mw[p] = a})
    BY <1>8, <1>13 DEF ChainInv
  <2>7. Cardinality(Occ(by, i)) = Cardinality(Occ(chain, i)) + (IF handler = i THEN 1 ELSE 0)
    BY <1>6, <1>9, <1>10, OccAppend
  <2>8. handler # i
    BY <1>6, <1>13
  <2>9. Cardinality(Occ(chain, i)) \in Nat
    BY <1>10, OccFacts
  <2> HIDE DEF a
  <2>10. Cardinality(Occ(by, i)) = Cardinality(Occ(chain, i))
    BY <2>7, <2>8, <2>9
  <2>11. Cardinality(Occ(by, i)) = TimesMet(found, a)
    BY <2>4, <2>5, <2>6, <2>10
  <2> QED  BY <2>11 DEF a
<1>14. ASSUME NEW m \in 1 .. Len(by) - 1, NEW n \in 1 .. Len(by) - 1, m < n
       PROVE  Len(Of(by[m]).path) <= Len(Of(by[n]).path)
  <2>1. m \in 1 .. Len(chain) /\ n \in 1 .. Len(chain)
    BY <1>11
  <2>2. ASSUME NEW id \in 1 .. Len(regs) PROVE Of(id) = regs[id]
    <3>1. DOMAIN regs = 1 .. Len(regs) /\ \A j \in 1 .. Len(regs) : regs[j].id = j
      BY RegFacts
    <3>2. ToSet(regs) = {regs[j] : j \in 1 .. Len(regs)}
      BY <3>1 DEF ToSet
    <3>3. \A r \in ToSet(regs) : r.id = id <=> r = regs[id]
      BY <3>1, <3>2
    <3>4. regs[id] \in ToSet(regs)
      BY <3>2
    <3> QED  BY <3>3, <3>4
  <2>3. chain[m] \in 1 .. Len(regs) /\ chain[n] \in 1 .. Len(regs)
    BY <1>8, <2>1 DEF ChainInv
  <2>4. Len(regs[chain[m]].path) <= Len(regs[chain[n]].path)
    BY <1>8, <1>14, <2>1 DEF ChainInv
  <2>5. by[m] = chain[m] /\ by[n] = chain[n]
    BY <1>11, <2>1
  <2> HIDE DEF Of
  <2> QED  BY <2>2, <2>3, <2>4, <2>5
<1>15. DOMAIN regs = 1 .. Len(regs)
  BY RegFacts
<1> QED  BY <1>12, <1>13, <1>14, <1>15

-----------------------------------------------------------------------------
(* The calls of an app.                                                    *)

CallsInv ==
    /\ calls \in Seq(CallRecords) /\ failed \in BOOLEAN
    /\ \A i \in 1 .. Len(calls) : calls[i].id = i /\ calls[i].path \in Patterns

LEMMA PathsAreSegments == Patterns \cup Asked \subseteq Seq(Segments) \ {<<>>}
<1>1. \A p \in Seq(STRING) : p \in Seq(Segments)
  BY DEF Segments
<1> QED  BY <1>1, PathsAssumption

LEMMA CallsInitially == RouterInit => CallsInv
<1> SUFFICES ASSUME RouterInit PROVE CallsInv
  OBVIOUS
<1>1. calls = <<>> /\ failed = FALSE
  BY DEF RouterInit
<1>2. <<>> \in Seq(CallRecords) /\ 1 .. Len(<<>>) = {}
  OBVIOUS
<1> QED  BY <1>1, <1>2 DEF CallsInv

LEMMA CallsInductive == CallsInv /\ [RouterNext]_routerVars => CallsInv'
<1> SUFFICES ASSUME CallsInv, [RouterNext]_routerVars PROVE CallsInv'
  OBVIOUS
<1>1. ASSUME NEW kind \in Verbs \cup {"any", "use"}, NEW path \in Patterns, Call(kind, path)
      PROVE  CallsInv'
  <2>1. CASE Malformed(path)
    BY <1>1, <2>1 DEF Call, CallsInv
  <2>2. CASE ~Malformed(path)
    <3> DEFINE r == [kind |-> kind, path |-> path, id |-> Len(calls) + 1]
    <3>1. calls' = Append(calls, r) /\ failed' = failed
      BY <1>1, <2>2 DEF Call
    <3>2. Len(calls) \in Nat /\ calls \in Seq(CallRecords)
      BY DEF CallsInv
    <3>3. r \in CallRecords
      BY <3>2, PathsAreSegments DEF CallRecords
    <3>4. r.id = Len(calls) + 1 /\ r.path \in Patterns
      OBVIOUS
    <3> HIDE DEF r
    <3>5. /\ calls' \in Seq(CallRecords) /\ Len(calls') = Len(calls) + 1
          /\ \A j \in 1 .. Len(calls) : calls'[j] = calls[j]
          /\ calls'[Len(calls) + 1] = r
      BY <3>1, <3>2, <3>3, AppendFacts
    <3>6. \A j \in 1 .. Len(calls) + 1 : j \in 1 .. Len(calls) \/ j = Len(calls) + 1
      BY <3>2
    <3>7. \A i \in 1 .. Len(calls') : calls'[i].id = i /\ calls'[i].path \in Patterns
      BY <3>4, <3>5, <3>6 DEF CallsInv
    <3> QED  BY <3>1, <3>5, <3>7 DEF CallsInv
  <2> QED  BY <2>1, <2>2
<1>2. ASSUME NEW path \in Patterns, Verb(path) PROVE CallsInv'
  BY <1>1, <1>2 DEF Verb
<1>3. ASSUME NEW path \in Patterns, Use(path) PROVE CallsInv'
  BY <1>1, <1>3 DEF Use
<1>4. CASE UNCHANGED routerVars
  BY <1>4 DEF routerVars, CallsInv
<1> QED  BY <1>2, <1>3, <1>4 DEF RouterNext

LEMMA CallsAreTyped == CallsInv => RouterTypeOK
<1> SUFFICES ASSUME CallsInv PROVE RouterTypeOK
  OBVIOUS
<1>1. DOMAIN calls = 1 .. Len(calls)
  BY DEF CallsInv
<1> QED  BY <1>1 DEF CallsInv, RouterTypeOK

LEMMA CallsAreRegs == CallsInv => calls \in Regs
BY DEF CallsInv, Regs

LEMMA CallsAnswer == CallsInv => MostSpecific /\ MiddlewaresRun
<1> SUFFICES ASSUME CallsInv PROVE MostSpecific /\ MiddlewaresRun
  OBVIOUS
<1>1. calls \in Regs
  BY CallsAreRegs
<1>2. \A path \in Asked : path \in Seq(Segments) \ {<<>>}
  BY PathsAreSegments
<1>3. MostSpecific
  BY <1>1, <1>2, LookupAnswers DEF MostSpecific
<1>4. MiddlewaresRun
  BY <1>1, <1>2, EntryAnswers DEF MiddlewaresRun
<1> QED  BY <1>3, <1>4

\* Each call of the router has a path of the app's, and the number of its place.
THEOREM RouterIsTyped == RouterSpec => []RouterTypeOK
BY CallsInitially, CallsInductive, CallsAreTyped, PTL DEF RouterSpec

\* Whatever an app registers and a client asks for, lookupChild ends at the most
\* specific pattern that matches, unless literal siblings shadow every one; it
\* falls back to a directory only on a path that leads there.
THEOREM MostSpecificIsFound == RouterSpec => []MostSpecific
BY CallsInitially, CallsInductive, CallsAnswer, PTL DEF RouterSpec

\* A request that is handled passes every middleware on its way as often as its
\* way meets it, no other one, and the outer ones first; the handler is last.
THEOREM EveryMiddlewareRuns == RouterSpec => []MiddlewaresRun
BY CallsInitially, CallsInductive, CallsAnswer, PTL DEF RouterSpec

=============================================================================

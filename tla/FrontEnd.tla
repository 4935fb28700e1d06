------------------------------ MODULE FrontEnd ------------------------------
(***************************************************************************)
(* The way of an HTTP request through the host (server.rs): the metadata   *)
(* of its app out of a cache or the store, a worker for that version of    *)
(* the app, the answer.  A worker that starts, or rebuilds its V8 context, *)
(* asks the host for the package of its app, which the host takes from a   *)
(* cache or fetches once for all who wait (package_loader.rs, ctx.rs).     *)
(* What a worker answers with a package is the router's matter: Router.    *)
(***************************************************************************)
EXTENDS Naturals, Sequences, FiniteSets

CONSTANTS
    Requests,
    Inputs,      \* what is asked: [to |-> path of the metadata or a special, method, path]
    Metadata,    \* path -> the metadata deployed there in turn: [version, package]
    Calls,       \* package -> the calls of the router its index file makes, or Broken
    Broken,      \* an index file that throws
    MaxPerApp,   \* workers an app may have at a time: MAX_WORKERS_PER_APP
    MaxWorkers,  \* bound on workers ever started
    MaxFaults,   \* bound on failures of stores and workers, expiries and resets
    None

Paths == DOMAIN Metadata
Packages == DOMAIN Calls
Workers == 1 .. MaxWorkers

\* A version names one package, whoever deploys it: the package cache has no
\* other key.
ASSUME VersionAssumption ==
    \A p, q \in Paths : \A m \in DOMAIN Metadata[p], n \in DOMAIN Metadata[q] :
        Metadata[p][m].version = Metadata[q][n].version =>
            Metadata[p][m].package = Metadata[q][n].package

ASSUME BoundsAssumption == MaxWorkers \in Nat /\ MaxFaults \in Nat /\ MaxPerApp \in Nat \ {0}

ASSUME MetadataAssumption ==
    \A p \in Paths : /\ Len(Metadata[p]) \in Nat \ {0}
                     /\ DOMAIN Metadata[p] = 1 .. Len(Metadata[p])
                     /\ \A n \in DOMAIN Metadata[p] : Metadata[p][n].package \in Packages

ASSUME NoneAssumption == None \notin Workers /\ None \notin Packages

Versions == UNION {{Metadata[p][n].version : n \in DOMAIN Metadata[p]} : p \in Paths}

VARIABLES
    deployed,   \* path -> index of the metadata in the store
    cache,      \* path -> index of the metadata in md_cache, or None
    req,        \* request -> its state in the host
    worker,     \* worker -> key, metadata given at its start, package, state
    load,       \* worker -> state of the host's handler of its GetPackageRequest
    packages,   \* version -> package in the package cache, or None
    updating,   \* version -> worker whose load holds the update lock, or None
    faults,
    missed      \* path -> requests that had missed before its entry was there (history)

host == <<deployed, cache, req, missed>>
pool == <<worker, load, packages, updating>>
vars == <<host, pool, faults>>

Routing == INSTANCE Router
    WITH calls <- <<>>, failed <- FALSE, Patterns <- {}, Asked <- {}, Methods <- {}, MaxCalls <- 0

\* What the entry function of a package does with an input.
Entry ==
    [package \in {k \in Packages : Calls[k] # Broken} |->
        [in \in {i \in Inputs : i.to \in Paths} |->
            Routing!AppEntry(Calls[package], in.method, in.path)]]

KeyOf(p, n) == [path |-> p, version |-> Metadata[p][n].version]

Off == [at |-> "off", key |-> None, md |-> 0, package |-> None]

Keys == [path : Paths, version : Versions]

TypeOK ==
    /\ DOMAIN deployed = Paths /\ DOMAIN cache = Paths
    /\ \A p \in Paths : /\ deployed[p] \in DOMAIN Metadata[p]
                        /\ cache[p] \in DOMAIN Metadata[p] \cup {None}
    /\ DOMAIN req = Requests
    /\ \A r \in Requests :
          /\ DOMAIN req[r] = {"at", "in", "md", "worker", "answer"}
          /\ req[r].at \in {"new", "lookup", "loading", "loaded", "invoke", "sent", "done"}
    /\ worker \in [Workers -> [at : {"off", "starting", "ready", "reset", "gone"},
                               key : Keys \cup {None}, md : Nat,
                               package : Packages \cup {None}]]
    /\ load \in [Workers -> {"none", "get", "wait", "fetch", "reply", "error"}]
    /\ packages \in [Versions -> Packages \cup {None}]
    /\ updating \in [Versions -> Workers \cup {None}]
    /\ faults \in 0 .. MaxFaults
    /\ missed \in [Paths -> SUBSET Requests]

Init ==
    /\ deployed = [p \in Paths |-> 1]
    /\ cache = [p \in Paths |-> None]
    /\ req = [r \in Requests |-> [at |-> "new", in |-> None, md |-> None, worker |-> None,
                                  answer |-> None]]
    /\ worker = [w \in Workers |-> Off]
    /\ load = [w \in Workers |-> "none"]
    /\ packages = [v \in Versions |-> None]
    /\ updating = [v \in Versions |-> None]
    /\ faults = 0
    /\ missed = [p \in Paths |-> {}]

Fault == faults < MaxFaults /\ faults' = faults + 1

PathOf(r) == req[r].in.to

-----------------------------------------------------------------------------
(* The request                                                             *)

Respond(r, answer) ==
    req' = [req EXCEPT ![r].at = "done", ![r].answer = answer, ![r].worker = None]

\* handle: the health check, the metadata header, which is the only way to name
\* an app in multi-tenant mode.
Handle(r) ==
    /\ req[r].at = "new"
    /\ \E in \in Inputs :
          req' = [req EXCEPT ![r].in = in,
                             ![r].at = IF in.to \in Paths THEN "lookup" ELSE "done",
                             ![r].answer = IF in.to = "health" THEN [status |-> 200]
                                           ELSE IF in.to = "nobody" THEN [status |-> 400]
                                           ELSE None]
    /\ UNCHANGED <<deployed, cache, missed, pool, faults>>

\* load_md_with_cache.
MdHit(r) ==
    /\ req[r].at = "lookup" /\ cache[PathOf(r)] # None
    /\ req' = [req EXCEPT ![r].at = "invoke", ![r].md = cache[PathOf(r)]]
    /\ UNCHANGED <<deployed, cache, missed, pool, faults>>

MdMiss(r) ==
    /\ req[r].at = "lookup" /\ cache[PathOf(r)] = None
    /\ req' = [req EXCEPT ![r].at = "loading"]
    /\ UNCHANGED <<deployed, cache, missed, pool, faults>>

\* The store answers with what is deployed now; the answer may take its time.
MdRead(r) ==
    /\ req[r].at = "loading"
    /\ req' = [req EXCEPT ![r].at = "loaded", ![r].md = deployed[PathOf(r)]]
    /\ UNCHANGED <<deployed, cache, missed, pool, faults>>

\* "early runtime error", or "invoke error" of the scheduler: the store fails or
\* has metadata that does not parse; the body of the request breaks off, or no
\* worker process can be had.
EarlyError(r) ==
    /\ req[r].at \in {"loading", "invoke"} /\ Fault
    /\ Respond(r, [status |-> 500])
    /\ UNCHANGED <<deployed, cache, missed, pool>>

MdInsert(r) ==
    /\ req[r].at = "loaded"
    /\ cache' = [cache EXCEPT ![PathOf(r)] = req[r].md]
    /\ missed' = [missed EXCEPT ![PathOf(r)] =
                    {q \in Requests \ {r} : /\ req[q].at \in {"loading", "loaded"}
                                            /\ PathOf(q) = PathOf(r)}]
    /\ req' = [req EXCEPT ![r].at = "invoke"]
    /\ UNCHANGED <<deployed, pool, faults>>

\* The cache evicts as it likes: it is bounded, and shared with other apps.
Evict(p) ==
    /\ cache[p] # None
    /\ cache' = [cache EXCEPT ![p] = None]
    /\ UNCHANGED <<deployed, req, missed, pool, faults>>

\* A deployment replaces the metadata in the store, and tells nobody.
Deploy(p) ==
    /\ deployed[p] < Len(Metadata[p])
    /\ deployed' = [deployed EXCEPT ![p] = @ + 1]
    /\ UNCHANGED <<cache, req, missed, pool, faults>>

-----------------------------------------------------------------------------
(* generic_invoke                                                          *)

Live(key) == {w \in Workers : worker[w].key = key /\ worker[w].at \notin {"off", "gone"}}

\* Faulty variant: an entry is put back when it is used, to keep it from being
\* evicted.
MdKeep_Reinsert(r) == cache' = [cache EXCEPT ![PathOf(r)] = req[r].md]

\* Using an entry leaves the cache alone.
MdKeep(r) == UNCHANGED cache

\* The scheduler takes a live worker of the version or, as it judges their load,
\* starts another one with the metadata of this request.
GetWorker(r) ==
    LET p == PathOf(r)
        key == KeyOf(p, req[r].md)
    IN  /\ req[r].at = "invoke"
        /\ \/ /\ \E w \in Live(key) :
                    req' = [req EXCEPT ![r].at = "sent", ![r].worker = w]
              /\ UNCHANGED <<worker, load>>
           \/ /\ Cardinality(Live(key)) < MaxPerApp
              /\ \E w \in Workers :
                    /\ worker[w].at = "off" /\ \A v \in 1 .. w - 1 : worker[v].at # "off"
                    /\ worker' = [worker EXCEPT ![w] = [at |-> "starting", key |-> key,
                                                        md |-> req[r].md, package |-> None]]
                    /\ load' = [load EXCEPT ![w] = "get"]
                    /\ req' = [req EXCEPT ![r].at = "sent", ![r].worker = w]
        /\ MdKeep(r)
        /\ UNCHANGED <<deployed, missed, packages, updating, faults>>

\* The entry function of the app in a worker that is up. A handler that throws is
\* answered with an error; an exception outside of the try block leaves the
\* request without completion. What makes no HTTP response is an error, too.
Serve(r) ==
    LET w == req[r].worker
        entry == Entry[worker[w].package][req[r].in]
    IN  /\ req[r].at = "sent" /\ worker[w].at = "ready"
        /\ \/ entry.is = "handled" /\ Respond(r, [status |-> 200, by |-> entry.by])
           \/ entry.is = "notFound" /\ Respond(r, [status |-> 404])
           \/ entry.is \in {"handled", "thrown"} /\ Respond(r, [status |-> 500])
        /\ UNCHANGED <<deployed, cache, missed, pool, faults>>

\* The worker went away with the request: "invoke error".
InvokeError(r) ==
    /\ req[r].at = "sent" /\ worker[req[r].worker].at = "gone"
    /\ Respond(r, [status |-> 500])
    /\ UNCHANGED <<deployed, cache, missed, pool, faults>>

-----------------------------------------------------------------------------
(* The package                                                             *)

\* Faulty variant: the cache is keyed by the path of the app.
CacheKey_Path(w) ==
    CHOOSE v \in Versions : v = Metadata[worker[w].key.path][1].version

\* load_package keys the cache by the version alone.
CacheKey(w) == worker[w].key.version

\* cache.get
PackageHit(w) ==
    /\ load[w] = "get" /\ packages[CacheKey(w)] # None
    /\ load' = [load EXCEPT ![w] = "reply"]
    /\ worker' = [worker EXCEPT ![w].package = packages[CacheKey(w)]]
    /\ UNCHANGED <<host, packages, updating, faults>>

PackageMiss(w) ==
    /\ load[w] = "get" /\ packages[CacheKey(w)] = None
    /\ load' = [load EXCEPT ![w] = "wait"]
    /\ UNCHANGED <<host, worker, packages, updating, faults>>

\* Faulty variant: whoever gets the lock fetches.
PackageLock_NoSecondLook(w) ==
    /\ load[w] = "wait" /\ updating[CacheKey(w)] = None
    /\ load' = [load EXCEPT ![w] = "fetch"]
    /\ updating' = [updating EXCEPT ![CacheKey(w)] = w]
    /\ UNCHANGED <<host, worker, packages, faults>>

\* cache.get_for_update waits for the lock of the version and looks again.
PackageLock(w) ==
    LET v == CacheKey(w)
    IN  /\ load[w] = "wait" /\ updating[v] = None
        /\ IF packages[v] # None
           THEN /\ load' = [load EXCEPT ![w] = "reply"]
                /\ worker' = [worker EXCEPT ![w].package = packages[v]]
                /\ UNCHANGED updating
           ELSE /\ load' = [load EXCEPT ![w] = "fetch"]
                /\ updating' = [updating EXCEPT ![v] = w]
                /\ UNCHANGED worker
        /\ UNCHANGED <<host, packages, faults>>

\* fetch_package with the metadata the worker was started with; upd.write
\* stores the data and releases the lock.
PackageFetched(w) ==
    LET package == Metadata[worker[w].key.path][worker[w].md].package
    IN  /\ load[w] = "fetch"
        /\ packages' = [packages EXCEPT ![CacheKey(w)] = package]
        /\ updating' = [updating EXCEPT ![CacheKey(w)] = None]
        /\ load' = [load EXCEPT ![w] = "reply"]
        /\ worker' = [worker EXCEPT ![w].package = package]
        /\ UNCHANGED <<host, faults>>

\* A load that ends without a write drops the updater it may hold, and with it
\* the lock.
DropUpdater(w) ==
    updating' = IF load[w] = "fetch" THEN [updating EXCEPT ![CacheKey(w)] = None] ELSE updating

\* The cache cannot be read, before or after the wait for the lock, or the fetch
\* or the write fails: the worker's call returns the error.
PackageFailed(w) ==
    /\ load[w] \in {"get", "wait", "fetch"} /\ Fault
    /\ load' = [load EXCEPT ![w] = "error"]
    /\ DropUpdater(w)
    /\ UNCHANGED <<host, worker, packages>>

\* Faulty variant: the lock is released at the end of load_package only.
LoadCancelled_KeepsLock(w) ==
    /\ worker[w].at = "gone" /\ load[w] # "none"
    /\ load' = [load EXCEPT ![w] = "none"]
    /\ UNCHANGED <<host, worker, packages, updating, faults>>

\* The host's loop finds the channel of a dead worker closed, and the runtime it
\* runs in is dropped: load_package ends wherever it waits. Until then it goes on.
LoadCancelled(w) ==
    /\ worker[w].at = "gone" /\ load[w] # "none"
    /\ load' = [load EXCEPT ![w] = "none"]
    /\ DropUpdater(w)
    /\ UNCHANGED <<host, worker, packages, faults>>

\* PACKAGE_TTL has passed.
PackageExpire(v) ==
    /\ packages[v] # None /\ Fault
    /\ packages' = [packages EXCEPT ![v] = None]
    /\ UNCHANGED <<host, worker, load, updating>>

-----------------------------------------------------------------------------
(* The worker                                                              *)

Exit(w) == worker' = [worker EXCEPT ![w].at = "gone"]

\* BlueboatCtx::init, or reset_v8_context: the package is there, its index file
\* is evaluated in a new context.
Boot(w) ==
    /\ worker[w].at \in {"starting", "reset"} /\ load[w] = "reply"
    /\ IF Calls[worker[w].package] = Broken
       THEN Exit(w)
       ELSE worker' = [worker EXCEPT ![w].at = "ready"]
    /\ load' = [load EXCEPT ![w] = "none"]
    /\ UNCHANGED <<host, packages, updating, faults>>

\* No package: the process exits in both cases.
BootFails(w) ==
    /\ worker[w].at \in {"starting", "reset"} /\ load[w] = "error"
    /\ Exit(w)
    /\ load' = [load EXCEPT ![w] = "none"]
    /\ UNCHANGED <<host, packages, updating, faults>>

\* init_timeout_watcher: three seconds for the start, whatever it waits for.
InitTimeout(w) ==
    /\ worker[w].at = "starting"
    /\ Exit(w)
    /\ UNCHANGED <<host, load, packages, updating, faults>>

\* A terminated context has been used up: the executor rebuilds it, with the
\* package it asks for again, and without a timeout.
Reset(w) ==
    /\ worker[w].at = "ready" /\ Fault
    /\ worker' = [worker EXCEPT ![w].at = "reset", ![w].package = None]
    /\ load' = [load EXCEPT ![w] = "get"]
    /\ UNCHANGED <<host, packages, updating>>

\* A crash, or the end of an idle worker.
WorkerGone(w) ==
    /\ worker[w].at \in {"ready", "reset"} /\ Fault
    /\ Exit(w)
    /\ UNCHANGED <<host, load, packages, updating>>

-----------------------------------------------------------------------------
Proceed(r) ==
    MdHit(r) \/ MdMiss(r) \/ MdRead(r) \/ MdInsert(r) \/ GetWorker(r) \/ Serve(r) \/ InvokeError(r)

Load(w) == PackageHit(w) \/ PackageMiss(w) \/ PackageLock(w) \/ PackageFetched(w)

Start(w) == Boot(w) \/ BootFails(w)

Next ==
    \/ \E r \in Requests : Handle(r) \/ Proceed(r) \/ EarlyError(r)
    \/ \E p \in Paths : Deploy(p) \/ Evict(p)
    \/ \E w \in Workers : \/ Load(w) \/ PackageFailed(w) \/ LoadCancelled(w) \/ Start(w)
                           \/ InitTimeout(w) \/ Reset(w) \/ WorkerGone(w)
    \/ \E v \in Versions : PackageExpire(v)

Spec == Init /\ [][Next]_vars

\* The store answers, a lock that is released is taken, a worker that has what
\* it waits for goes on, and the end of a worker is noticed on its channel.
\* Nothing is asked of timers.
Fairness ==
    /\ \A r \in Requests : WF_vars(Proceed(r))
    /\ \A w \in Workers : WF_vars(Load(w) \/ LoadCancelled(w) \/ Start(w))

FairSpec == Spec /\ Fairness

-----------------------------------------------------------------------------
(* Properties                                                              *)

\* The answer is what the entry function of the package gives to the input.
AnswerOf(package, in, answer) ==
    LET entry == Entry[package][in]
    IN  /\ Calls[package] # Broken
        /\ answer.status = 200 => entry.is = "handled" /\ answer.by = entry.by
        /\ answer.status = 404 => entry.is = "notFound"

\* A request is answered by the version of the app its metadata names, with the
\* callbacks that version's own package registers, whatever other versions and
\* paths share the caches, and however often workers are replaced or rebuilt.
AnsweredByItsPackage ==
    \A r \in Requests :
        req[r].at = "done" /\ req[r].answer.status \in {200, 404} /\ PathOf(r) \in Paths =>
            AnswerOf(Metadata[PathOf(r)][req[r].md].package, req[r].in, req[r].answer)

\* A package is fetched by one worker's load at a time, and not while it is in
\* the cache: who waited for a fetch takes its result.
FetchedOnce ==
    \A w \in Workers : load[w] = "fetch" =>
        /\ packages[CacheKey(w)] = None
        /\ \A x \in Workers \ {w} : load[x] = "fetch" => CacheKey(x) # CacheKey(w)

\* The cached metadata of an app goes back to an older deployment only in one
\* way: a request that had missed before the newer one was cached inserts what
\* it read then. Nobody ever brings back what was evicted.
StaleOnlyByRace ==
    [][\A p \in Paths :
        cache[p] # None /\ cache'[p] # None /\ cache'[p] < cache[p] =>
            \E r \in missed[p] : req[r].at = "loaded" /\ req[r].md = cache'[p]]_vars

\* Every request ends, through failing stores and fetches, index files that
\* throw, workers that time out, crash or are rebuilt while others wait for the
\* same package, which a load cancelled with its worker may have locked.
EveryRequestEnds ==
    \A r \in Requests : req[r].at # "new" ~> req[r].at = "done"
=============================================================================

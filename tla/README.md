# A TLA+ model of Blueboat

Blueboat is a serverless JavaScript runtime: a host process serves HTTP, finds the package of the app
a request is for, and has it run in a pool of sandboxed worker processes, each with one V8 isolate.
This directory holds TLA+ modules translated from the source, the TLC configurations that check them,
and theorems that the TLA+ proof system checks. `PROJECT.json` is the index: components, runs, the
source lines behind every definition, hazards, findings and theorems.

    tlc -workers 2 -config Server.cfg MCServer.tla       # a run: configuration and module
    tlapm ServerProofs.tla                               # the proofs of a module

## 1. The system and its components

Paths are relative to `src/src`, those that begin with `jsland` to `src`.

| component | state | operations | what makes it correct |
|---|---|---|---|
| reliable channel (`reliable_channel.rs`) | callback map, id counter, two IPC pipes, semaphore, handler tasks | `call`, `call_sync_slow`, dispatch thread, host receive loop | it is a remote call run at most once and answered with its own result; permits return; neither end hangs on a dead peer |
| executor and JS worker (`exec.rs`, `ipc.rs`, `ctx.rs`) | executor per request, spawned futures, activity mutex, completion, V8 context, watcher and fence | `enter`, `spawn`, `complete`, `wait_for_completion`, `reset_v8_context`, `handle_with_cancellation` | a termination hits only the JS it is meant for; a request is failed only when all it started is over; nothing runs for a finished request |
| background tasks and shutdown (`server.rs`, `lpch.rs`, `api/mod.rs`) | low-priority channel, permits, `BACKGROUND_TASK_LOCK`, phase of `async_main` | `issue_lp`, `run_background_entry`, shutdown | at most once, in the version that asked for it; nothing runs behind the lock; background tasks do not keep the host from exiting |
| pubsub queue and SSE (`pubsub/mq.rs`, `pubsub/sse.rs`) | FoundationDB keys of a topic, hot-topic set, SSE task per client | `push`, `pop`, `flush_hot_topics`, `handle_sse` | a client sees the topic gapless and in order across retries, heartbeats, reconnects and restarts |
| HTTP front end and caches (`server.rs`, `package_loader.rs`, `ctx.rs`) | metadata LRU, package cache with a lock per version, requests in flight, workers and the package each has loaded | `handle`, `load_md_with_cache`, `generic_invoke`, `load_package`, the worker's start and reset | a request is answered by the package its metadata names; one fetch at a time; every request ends |
| key-value API (`api/kv`, `mds`, `jsland/src/kv`) | FoundationDB keys, transaction per request, cursor of a listing | get, compare-and-set, `prefixList` | a request is one instant of the store; answers are truthful; pages neither skip nor repeat |
| router and application entry (`jsland/src/router.ts`, `index.ts`) | tree of routes and middlewares | `get` ... `use`, `lookupChild`, `realAppEntry` | the most specific route wins; the middlewares on the way run from the root down |
| layout solver (`api/graphics/layout/mod.rs`, `jsland/src/graphics/layout_*.ts`) | boxes, metrics and constraints by index; z3 context, its interrupt handle, a fence | building a request, `api_graphics_layout_solve`, the watcher | the handle never outlives its context; the solve ends; the geometry is what was asked for |
| MySQL API (`api/mysql.rs`) | session per request and database: a mutex, a connection, a transaction; the pool | `exec`, `startTransaction`, `commit`, `rollback`, the end of a request | a statement runs in the transaction it was issued in; transactions are all or nothing; connections return |
| package loading (`package.rs`) | tree of files unpacked from the archive, worklist, module map with aliases, referrer paths | `Package::load`, `load_module_with_dependencies`, `module_resolve_callback` | what is needed is compiled, once; an import is linked to the file it was resolved to |
| symbol registry and host objects (`registry.rs`, `api/host_object.rs`, `api/text/dom`, `api/validation/jtd.rs`, `jsland/src/{host_object,dom/index,jtd}.ts`) | native objects by symbol, JS wrappers with finalizers, reference-counted documents, queries on the stack | parse, query, update, remove, destroy, load a schema, the finalizers, the replacement of a context | the registry has JS's objects and nothing that can never be taken out, but for closed contexts; a document stays whole while any part of it is held; a query reports every match, in order |
| memory monitor (`server.rs`) | last level, workers per app | `memory_watermark`, `tune_smr_parameters` | the limit does not flap |
| background entry points, blocklist, casts, log service, MDS configuration, crypto, codecs, drawing, V8 glue, image builder, process start | | | not modelled: see section 7 and `PROJECT.json` |

How they interact. The HTTP front end finds the metadata of the app, asks the scheduler (`smr`, a
dependency) for a worker of that version and sends it a `BlueboatIpcReq`; the worker makes an
*executor* for it and calls the entry function, which asks the *router* of the app. A worker that
starts, or rebuilds its V8 context, gets its package from the host's package cache over the *reliable
channel*. JS calls native APIs: each spawns a future on the executor, and those that need the host
(KV, pubsub, packages) go over that channel too. The futures come back through `Executor::enter`.
Others leave an object in the isolate's *symbol registry* and give JS a wrapper of it; the registry is
cleared when the context is replaced. Log lines and background entries go over the one-way
*low-priority channel*. The host turns background entries into invocations of workers, serves SSE
clients from the pubsub queue, and watches its memory to limit the workers per app.

What is hard in this code:

- *cancellation*: a dropped future may be at any `await` (callers of the channel, heartbeats of SSE,
  the 30s timeout of a background entry, MySQL calls of a finished request), and blocking code has to
  be interrupted from elsewhere (JS that loops, a z3 check);
- *threads against the event loop*: the watchers of `enter` and of the layout solver run while what
  they watch returns; the dispatch thread runs concurrently with callers;
- *caches*: metadata and packages are cached apart, under different keys, while deployments go on;
- *processes*: each end of the channel may die first; workers are replaced, rebuilt and time out while
  others wait for the same package; the host shuts down while workers submit;
- *unknown outcomes*: `commit_unknown_result` of FoundationDB, a commit that is cut off;
- *order*: JS need not await one call before the next; the reads of a compare-and-set are an `await`
  apart;
- *indices and aliases*: one module under several paths; constraints that travel by position through
  JS, Rust and z3;
- *ownership across the border*: native objects whose lifetime JS decides through finalizers,
  callbacks into JS in the middle of a walk over a document that the callback may change.

The hazards listed in `PROJECT.json` name the line where each bites and the properties for it, or why
there is none.

## 2. Modules

Every module has the same layout: constants with named assumptions, variables, type invariant, `Init`,
one action per operation, fairness, properties. A faulty variant (for example `Abort_Forgotten` before
`Abort`) stands before the definition it is a variant of: the action as a plausible bug would have it.
No specification uses these; they show that each property can fail. `MC*` modules add what a TLC
instance needs; `*Proofs` modules hold the theorems.

    RemoteCall    <- implemented by -  ReliableChannel
    KvRequests    <- AtomicKv          <- implemented by -  KvStore        (both extend KvRequests)
    Router        <- used by -  FrontEnd       (what a package answers is the router's AppEntry)
    SolveGuard    <- extended by -  Layout     (steps of the guard are the steps of the solve)
    FrontEnd, MemoryWatermark <- explored by -  MCServer   (two parts of server.rs that share no state)
    Executor, BackgroundTasks, MessageQueue, MysqlSession, ModuleGraph, HostObjects

The theorems about ModuleGraph, SolveGuard and HostObjects, which all run on the JS thread of a
worker, are in **JsThreadProofs** together with those about Layout, those about FrontEnd,
MemoryWatermark and Router in **ServerProofs**; the others are in the module named after their
component.

**RemoteCall**, **ReliableChannel** (`reliable_channel.rs`). RemoteCall is what the channel promises:
a call is opened, run at most once, answered with its own result, failed without having been run, or
given up. In ReliableChannel one member of `Calls` is one invocation of `call()` or
`call_sync_slow()`. `prepare_call` is three actions, since each of its accesses to shared state takes
a lock or an atomic of its own: `FetchId`, `Register`, `Send`/`SendError`. `Return` and `Cancel` are
the two ends of the await. `Dispatch` is the worker's dispatch thread; its `expect` is the worker
state `"panic"`. On the host `HostRecv`, `HostAcquire` are the loop with its await for a permit, and
`HandlerRespond`/`HandlerSendError` the end of a spawned handler. `HostRecvError`, `HostDisconnected`,
`RecvClosed` and `WorkerExit` are the deaths of each side; `ExitHost` what the host's death takes
along. The mapping reads a caller's phase off its program counter (`Phase`).

**Executor** (`exec.rs`, `ipc.rs`, `ctx.rs`). `inside` is the `enter()` in progress: request, future
(or `Entry`), state of its JS, state of its watcher. The event loop is one thread, so every action of
it needs `inside = None`; the watcher's steps do not. Leaving `enter` is one action for the code from
`abort()` to `return`, since nothing else of that thread runs in between; `late` keeps a watcher that
had slept through its grace period and finds out about `abort()` and the fence later. `activity` is
the holders of an Rc of the activity guard, which `Hold` and `LetGo` clone and drop: the handler until
it has returned from the entry function, and each spawned future until it is over, of itself
(`"ended"`) or killed. `NewExecutor`, `Current` (`Executor::try_current`) and `CompleteWith` are the
executor's own functions, `Invocations` the ways the host calls a worker. Contexts are numbered;
`tainted` remembers those in which JS was terminated.

**BackgroundTasks** (`server.rs`). `Submit` is the worker's side; `IssueLp` the thread behind the
channel, with `try_acquire_owned`; a task goes through `ReadLock`, `LoadMd`, `CheckVersion`, `Invoke`,
`InvokeDone` with its three early ends, or `Timeout`. `Signal`, `AwaitLock`, `WriteLock`, `Exit` are
`async_main`. tokio's `RwLock` is fair: a reader queues behind a waiting writer. An entry beyond the
permits is dropped (server.rs:833), which is an outcome of the model like of the code. `open` is the
HTTP requests and event streams that hyper is serving (`Serve`, `Served`): `AwaitLock` waits for the
last of them, without a deadline, as the code does.

**MessageQueue** (`pubsub/mq.rs`, `pubsub/sse.rs`). One topic. A push is a FoundationDB transaction
(`PushCommit`), possibly after attempts with an unknown result (`PushRetry`); `Write` holds its two
versionstamped mutations. `PushStampError` is the versionstamp that is lost after the commit: the
publisher is given an error for a message that is delivered. `Pop` reads counter and range at one read
version, of which the range may end early; `Arm` and `WatchFire` are its watch. `SendSse` moves the
position only after the last message of a batch, as `SseTask::run` does. `ConnectError` is a client
that is refused; `Heartbeat`, `PopError`, `NetDrop`, `HostRestart` interrupt a stream anywhere. The
flush of hot topics is two steps, as they are taken out of the set before their keys are written;
`mark` follows the entry of each push: in the set, with the flush, written (`"keyed"`) or lost.

**FrontEnd** (`server.rs`, `package_loader.rs`, `ctx.rs`, `ipc.rs`). A request goes from `Handle`
through the metadata cache (`MdHit`, or `MdMiss`, `MdRead`, `MdInsert`), to a worker (`GetWorker`: a
live one of the version, or another one as long as there are fewer than `MaxPerApp`) and to its answer
(`Serve`, `InvokeError`, `EarlyError`). `load[w]` is the host's handler of worker `w`'s
`GetPackageRequest`: `PackageHit`, or `PackageMiss`, the wait for the version's lock and the second
look (`PackageLock`), and the fetch with the metadata *the worker* was started with (`PackageFetched`,
`PackageFailed`). The load of a worker that has died goes on until the receive loop of its channel
finds out, and is then cancelled wherever it is (`LoadCancelled`), which gives up the lock if it had
it (`DropUpdater`). `Boot`, `BootFails`, `InitTimeout`, `Reset` and `WorkerGone` are the worker's.
`Deploy`, `Evict` and `PackageExpire` happen when they like. `missed` is a history variable: who had
missed before the cached entry of a path was inserted. What `Serve` answers is `AppEntry` of Router,
applied to the calls the package's index file makes, and an error if the handler throws; a package
whose index file throws is `Broken`.

**KvRequests**, **AtomicKv**, **KvStore** (`api/kv/mod.rs`, `jsland/src/kv/index.ts`). KvRequests has
the requests and their reference meaning: `Holds` and `Effect` evaluate the parts of a compare-and-set
in order, each seeing what the earlier ones set. AtomicKv is the promise: `Look` and `Apply` are
single instants, `Truth` the answers that are allowed after them. KvStore is the handler: `Begin`
takes a read version, `CasKey`/`CasRefused`/`GetKey` are one key each with an `await` between them,
commits conflict (`CommitConflict`), fail or have unknown results, and `Retry` is `on_error`. `Page`
is one `prefixList` of a range that begins or ends at the cursor: what the database has of it, in
order, down to any number of rows up to the limit, less the rows the code filters out (`Ranked`,
`TakePage`). `scan` is a client that pages through a prefix with the cursor the JS library keeps.
`Strips`, `Hidden` and `Norm` are the three places where the code treats a prefix: as packed tuple, as
text, and with its empty segments dropped.

**Router** (`jsland/src/router.ts`, `index.ts`). The state is the sequence of registrations an app has
made; the tree is computed from it (`Nodes`, `Middlewares`, `Target`, as recursive functions over the
registrations). `Step` is one turn of the loop of `lookupChild`, `AppEntry` is `realAppEntry` with its
method map. The reference definitions (`Matches`, `MoreSpecific`, `Shadowed`, `TimesMet`) speak of
patterns and paths, not of the loop.

**SolveGuard**, **Layout** (`api/graphics/layout/mod.rs`, `layout_box.ts`, `layout_solver.ts`,
`layout_util.ts`). SolveGuard is the JS thread in `api_graphics_layout_solve` against the watcher's
future, which holds an interrupt handle of a z3 context whose lifetime was transmuted away: `Abort`,
`RecvFence`, and the drop of the guard's two fields in their order (`DropHandle`, `DropFence`). Layout
extends it with the data: `NewBox`, `Combine`, `VerticallyAlign`, `Pin` and `KeepApart` build boxes,
metrics and constraints with the indices the JS library uses, next to `intent`, what the application
meant. A metric is kept as the sides it reduces and the comparison it reduces them with, and `Reduced`
is the chain of selects that `realMinMax` makes of them; `BasicValue`, `MetricValue`, `Value` and
`Holds` are what the translation means to z3, with `Fraction` for what mod.rs:358 makes of a constant:
numerator and denominator, without the sign that the crate keeps apart. `Refused` are the requests
that cannot be translated; `Models` is what z3 may answer.

**MysqlSession** (`api/mysql.rs`). `Issue` is the JS call, which spawns a future; `Poll` is that
future's first poll, in which it joins `todo[r]`, the queue of the session's fair mutex. The head of
the queue has the mutex, `Done` passes it on. `GetConn` joins the pool's queue,
`GrantConn`/`GrantTxn`/`ConnError` leave it. `EndTxn` takes the transaction out of the session before
it commits. A statement that fails in a transaction undoes itself or, as the victim of a deadlock, the
whole transaction: `gone[r]` is that the database has rolled it back, which the session is not told.
It keeps `x.txn` (mysql.rs:196-202), its next statements are transactions of their own (`ExecGone`),
and its commit has nothing to commit. `End` is the drop of the executor, with the calls cut off
wherever they are.

**ModuleGraph** (`package.rs`). `Archives` are the regular files of archives, in order. `Unpack` is
what the tree they are inserted into holds in the end: `Kept` leaves out the entries whose path is
there already, `Depth` is how far `trim` goes down into single directories, `BadArchive` the insertion
that panics since it meets a file where it needs a directory. Paths are sequences of segments;
`TransformRelPath` and `NormalizePath` are the functions of the same name, as operators. `AddAlias`
and `LoadModule` are the two branches of the worklist loop, `BeginLink` the collection of
`REFERRER_PATHS` out of a `HashMap` (any of several keys of a module may win), `ResolveCallback` the
callback V8 calls when it links.

**HostObjects** (`registry.rs`, `api/host_object.rs`, `api/text/dom`, `api/validation/jtd.rs`,
`host_object.ts`, `dom/index.ts`, `jtd.ts`). `registry` has the native objects, `wrapper` what JS has
of each: `PutNew` is `put_new` together with the wrapper that JS makes of the symbol, `Get` is
`cast_and_get`, `Without` and `Drop` the two halves of letting go. Documents follow the ownership of
the DOM library: a node owns its children, a handle its node and the root, `Held` is what handles and
queries hold, and `Release` the drop of nodes, which empties every node below one that goes, also one
that is held itself. `Parse`, `LoadSchema`, `Update`, `Remove`, `Query` and `Destroy` are the calls of
JS. A query is a stack of levels, each with a copy of the children it walks over (`Pass`, `EndLevel`,
`QueryEnds`); `Call` enters JS with a handle of the match, and until `CallbackReturns` every call of
JS is possible, a further query included. `Enter` and `Leave` are the ends of `Executor::enter`, the
second with the finalizers that run there; `Terminate` clears the registry and begins a new context,
whose modules run before `Built` makes it the current one; `Close` is the end of an old one. One
document exists at a time: nodes of different documents never meet.

**MemoryWatermark** (`server.rs`). `Tick` is one round of the monitor thread: read, classify,
stabilise, tune.

## 3. What the runs show

Each run finishes within four minutes on two workers. Bounds are constants of the `.cfg` or of the
`MC` module, and appear as guards of actions. Each property has a mutant in `PROJECT.json` that breaks
it.

**reliable_channel** (104,700 states). Three calls, two permits, the third call synchronous, the
second one's handler may hang. Three calls are the least with which two are answered in an order other
than that of their requests while a third is being registered, and with which a loop that waits for a
permit holds one request back while another is behind it. `ImplementsRemoteCall`: every step is one of
RemoteCall or none, so that no call is run twice, answered with another's result, or failed after it
was run. `NoCallbackPanic`: the dispatch thread never misses a callback. `LeakOnlyOnSendError`: what
stays in the callback map are calls whose request or response could not be written, and nothing else
(the code does leave these: the error of a response's send is ignored, reliable_channel.rs:155).
`NobodyHangs`: a call that is sent gets its answer, unless it is given up, its worker dies or the
response cannot be written, and neither end outlives the other. With as many stuck handlers as permits
that would not hold, which is what the code's head-of-line blocking means; the run does not show
anything about that case.

**executor** (83,175 states). Two requests, two futures. Two requests are what a stray termination
needs, two futures what a premature failure needs (one that ends and one that could still complete).
`OnlyCancelledIsHit`, `FailsOnlyWhenOver` and `JsWithinRequest` are safety. `FailsOnlyWhenOver` says
of a request that has failed that it was not completed and is not completed later, and that each of
its futures ran to its own end: none was cut off, as those of a request that is answered are. The code
only looks whether the activity mutex can be locked; that this is enough depends on who passes its Rc
on to whom. `JsWithinRequest` says that JS runs for a request only while its handler is there, and
then finds the executor it spawns on; `CancelledJsStops` says that JS that loops forever is stopped
once its request is cancelled; `EveryRequestEnds`, `TasksEndWithRequest` hold for applications whose
JS returns and whose I/O answers (`AppFairness`), completing or not.

**background_tasks** (97,839 states). Three entries for two permits, so that one can be dropped while
two run, two versions of the app, and up to two HTTP requests or event streams. `QuietAfterLock`,
`AtMostOnceSameVersion`. `ShutdownEnds`: once signalled the host exits, or some request or stream it
serves never ends. It holds although a background task's worker need never answer, because of the
timeout. The other case is real: `graceful.await` (server.rs:525) has no deadline, an HTTP invocation
(server.rs:758, 793) has no timeout, and an event stream (sse.rs:146-190) goes on for as long as its
client does.

**message_queue** (500,697 states). Two messages, a client that may wait or poll, batches of one or
two, and two faults out of lost or refused connection, unknown or failed commit, lost versionstamp,
failed pop or flush and restart: enough for a reconnect in the middle of a batch and for a message
stored twice. `GaplessInOrder`: what a client received is exactly what lies between its first and last
id. `AckIdentifies`: a publisher's id is the id of its message. `NothingBehindCursor`: no message
appears behind a position that was handed out. `EverySubscriberCatchesUp`: no wakeup is lost between
the read of the counter and the watch on it. `AckedBecomesHot`: the topic of an acknowledged push is
flagged, or was lost; and only a restart loses it out of the set, so that a flush that fails loses no
more than what it took, and a push acknowledged while it ran is flagged by the next. Two messages are
what that needs. A duplicate needs an unknown commit and shows as two ids: the model allows it, as the
code does.

**server** (391,327 states). Two requests, two workers, which may be of the same app, three apps: one
that is deployed a second time, one whose version is that of the first one's first deployment, so that
two paths share an entry of the package cache, and one whose index file throws. Two faults out of
failing store, failing fetch, crash, reset and expiry, so that one can strike while another's
consequences are on their way. A start may time out at any moment without being counted, so that a
load is cancelled while it fetches or waits with another one waiting behind it.
`AnsweredByItsPackage`: a request is answered by the callbacks of the package its metadata names.
`FetchedOnce`: one load fetches a version at a time, and only while it is not cached.
`StaleOnlyByRace`: the cached metadata of a path goes back to an older one only by a load that had
missed before the newer one was inserted. That race exists: server.rs:716-724 reads and inserts
without a look at what came in between, and the entry then stays until it is evicted, as the cache has
no time to live. `EveryRequestEnds`: no request is left behind, a cancelled load's lock included. In
the same run, all readings of a scaled-down machine (watermarks 25 and 60, gap 12, memory up to 90),
so that the gap lies inside, at and outside each level: `NoFlapping`. The two parts are explored one
at a time (`part` of MCServer), as they share nothing.

**kv_store** (503,246 states). Two clients, each with one of eleven requests: create, delete, a move
of a key, a write that depends on another key, a check of what the same request has set, a
versionstamped record, requests with too many keys, too large a key or too large a value, and gets.
One key is a prefix of another. A scan pages forwards or backwards meanwhile, with limits of one and
two and pages that may be shorter than the limit; one fault. `ImplementsAtomicKv`: the detailed store
implements AtomicKv, with the snapshot of a request's transaction as what it saw. `AnswerTruthful`:
applied if the answer says so, and not if it says not, unless a commit's result was unknown or the
versionstamp lost; applied more than once only by a retry after an unknown result. `PagesComplete`:
pages come in order without repetition, and have every key that was there all the time, unless a row
was filtered out of a page. `EveryRequestAnswered`.

**router** (45,397 states). Every sequence of up to three registrations of five kinds under eight
patterns, with literal, wildcard and empty last segments, against ten paths and four methods. Three
registrations are what a literal, a wildcard and a middleware need. `MostSpecific`, `MiddlewaresRun`.

**layout** (284,681 states). Every request of up to two boxes and one combined box with two
constraints, hard or soft, out of alignments, pins and exclusions, for boxes on coordinates -1 and 1
and pins at -1, at 0 and at NaN: enough for constraints that contradict each other, for a soft one
that must give way, for a metric that stands on each side, for a pin that is solved at another place
than it names although z3 could have placed a box there, and for one that is refused.
`HandleWithinContext`; `SolveEnds`: a cancelled solve ends, and one z3 is done with ends either way;
`AnswerIsWhatWasMeant`: the geometry fulfils what was asked for as hard, and misses exactly what is
reported, where a combined box is the hull of its children and a coordinate is meant without its sign.

**mysql_session** (465,471 states). A request with four calls (start, two statements, an end; or a
plain connection and a transaction at once) and one with a call of its own, over two connections, with
up to two calls at a time that JS does not await. `RunsWhereIssued` compares the transaction a
statement ran in with the one told from the order in which the calls were issued; that their futures
are polled first in that order is what it hangs on. `AllOrNothing`: what took effect in a transaction
is applied together or not at all, whatever is cut off, and not at all if the transaction was rolled
back, by the application or by the database; a commit that answers Ok has applied all of it if none of
its statements failed. `OnlyAJamHangs`: a call ends unless every connection is held by a request that
waits for another one. That jam is reachable: a request keeps its plain connection while
`pool.start_transaction` asks for a second (api/mysql.rs:94), so requests in number enough to hold all
connections that way wait for each other until one of them is cut off.

**module_graph** (158,789 states). Every package of the index file and up to three of four others
(`a.js`, `a/index.js`, `a/b.js`, `b.js`), with up to two of six specifiers imported by the index file
(one in the largest packages) and one by each of the others: aliases, cycles, two files for one
specifier and relative imports from a subdirectory all occur. The archives have a root directory and a
second entry for the index file; three more are out of the ordinary (a file where a directory is
needed, no index file, `index.js` besides `index.mjs`). `LoadsWhatIsNeeded`, and `FullPathsLink` for
packages whose imports name files in full.

**host_objects** (408,979 states). Three symbols, one document, `<b class="x"><a
class="x"></a></b>text`, a query that matches every node of it but the document, one query at a time,
and two contexts. A callback can thus remove the node the query is at or the one it would visit next,
destroy the handle the query began with, and let the document go; and a termination can strike in each
of these. A second query inside a callback was explored with two symbols. `RegistryFollowsWrappers`:
an object that JS has is registered, and one that nobody can take out any more is a closed context's.
`DocumentsAreWhole`: what is left of a document below its root is what was parsed without what was
removed, whichever handles are left. `QueryFindsAll`: matches come in document order, none below a
node that JS did not want to go into, and none is missing of those that are there in the end. Deadlock
is not checked, since a query stops at a match when all symbols are taken, which do not run out in the
code.

One run is expected to find a violation: **module_graph_aliases**. package.rs:232-241 enters the path
of an import only if its file was loaded before; an app that imports `"./a"` once cannot be linked.

Where the code departs from what one would expect, the models do what the code does. What came up,
apart from the finding above:

- *Executor*: exec.rs:230 says of a terminated context "don't reuse the context", but only
  `BlueboatCtx.v8_ctx` is replaced; executors that are alive keep theirs and enter it again.
- *HostObjects*: the drop of a removed node empties the nodes below it, also those that JS has a
  handle of, which then serialize without their children (`Release`). The registry's objects of a
  context that is closed stay in it until the next termination clears it: the wrappers go without
  their finalizers (`Close`, `"gone"`).
- *ModuleGraph*: with two keys for a module, the referrer path that package.rs:260 keeps may be the
  one whose directory is wrong, and relative imports are then linked to other files than the ones
  loaded. `FullPathsLink` therefore speaks of full paths.
- *MysqlSession*: after a deadlock the session goes on as if its transaction were open. Statements
  that follow are applied at once, one by one, and `commit()` answers Ok with nothing of what came
  before the deadlock applied. JS can tell from the error of the statement only.
- *MessageQueue*: a push whose versionstamp fails to arrive (mq.rs:171) is answered with an error,
  though its message is stored and delivered, and its topic is not entered into the hot set.
- *MessageQueue*: sse.rs:105 compares with `MIN_BATCH_SIZE` twice, so that every batch size but 1 is
  "out of range" when it is given (`BatchSizeOk`); larger batches come from the default.
- *KvStore*: a compare-and-set whose commit was applied with an unknown result is run again, and
  answers `ok: false` if its own effect fails its checks, or is applied twice if they hold again. A
  page of nothing but filtered rows (versionstamped records, or the key `a` in a listing of `a/`) is
  empty and looks like the end of the listing. A prefix with a leading or doubled slash lists nothing,
  as it is packed without its empty segments but compared with them.
- *Router*: a request for a directory itself runs its middlewares twice (router.ts:102-124), once as
  directory of its parent and once as node (`TimesMet`). Lookup does not backtrack out of a literal
  branch (`Shadowed`). An empty segment in the middle of a path, or a method the method map does not
  have, throws outside the `try` of `realAppEntry`: nothing completes the request, which ends as an
  invoke error.
- *FrontEnd*: the reset of a worker's context has no timeout where its start has one (`Reset`,
  `InitTimeout`).
- *Layout*: a pin at -5 is solved as one at 5, and reported as satisfied. `build_z3_real`
  (mod.rs:357-364) takes `numer()` and `denom()` of a `GenericFraction<i32>`, and not its `sign()`.
  The crate is not in this repository: that its numerator is without a sign is taken from its type.
- *Layout*: the list of metrics is empty while metrics are translated (mod.rs:117-121), so that a
  combined box with a combined box among its children is always refused with an error about its metric
  reference (`Refused`). An interrupt before z3 has begun its check may be lost (`Interrupt`):
  `SolveEnds` speaks of cancellations that find the watcher still waiting once the check has begun.

## 4. Fairness

Fairness is weak everywhere and given to what the code schedules itself: threads keep running, an
`await` that is ready is polled, the pipes and the network deliver, V8 delivers a termination. It is
not given to what may never happen: cancellation, crashes and faults, new calls, deployments,
evictions, completions by the application, hung handlers (`Stuck`), workers that do not answer a
background entry (`InvokeDone`), HTTP requests and event streams that are to end (`Served`).
Assumptions that are about others are named:

- the metadata store answers or fails (BackgroundTasks, `LoadMd`: without it the shutdown can hang, as
  the load is outside the 30s timeout, server.rs:870; FrontEnd, `MdRead`, `PackageFetched`);
- the databases answer (MysqlSession, KvStore, MessageQueue), and a client reconnects (MessageQueue);
- the JS of an app returns: `AppFairness` of Executor, a hypothesis of the two properties that need
  it; in FrontEnd the entry function of a worker that is up answers;
- z3 returns once it has been interrupted, and need not before (Layout);
- hyper notices that the last request has ended (`AwaitLock`).

MysqlSession assumes that a future is polled once it is spawned, and that a request none of whose
calls is pending ends. FrontEnd asks nothing of timers, and of each worker only that its load, its
cancellation or its start goes on, whichever of them can (`Load \/ LoadCancelled \/ Start`):
`InitTimeout` has no fairness, and requests end without it, because a start ends with its package or
the error of its fetch. KvStore's retry loop is unbounded in the code; it ends because a conflict is
another request's commit, and faults are bounded by `MaxFaults`.

Deadlock is not checked where the system may stop: processes exit, and the bounded supply of calls,
requests, entries, messages, registrations or imports runs out. What must not stop is a liveness
property.

## 5. What is proved

For every value of the constants that satisfies the modules' assumptions. Each `TypeCorrect` proves
the module's type invariant.

**ReliableChannelProofs**: `TypeCorrect`, `CallbackAlwaysFound`, `AnswersMatch`, `AtMostOnce`,
`NoPermitLeak`, `NoOrphanedCall`, `MapGrowsByFailedWritesOnly`, `ChannelImplementsRemoteCall`.
Assumed: at least one permit; `SyncCalls` and `Stuck` are calls. The invariant is `TypeOK /\ PermitInv
/\ IInv`. The properties are not inductive by themselves: that a callback is found needs to know that
every message on its way, in whichever of four places (request pipe, the loop's hands, handler,
response pipe), belongs to a call that was sent, that its callback is in the map (`Expected`), that no
other message is about the same call (`RequestSide`, `ResponseSide`), and that ids are never drawn
twice (`IdsUnique`). The refinement maps a step of the channel to a step of one call of RemoteCall or
to none: the instant at which a call is run is that of `HostAcquire`, and a call that failed to be
sent was never run because of `CallerSide`. The leak theorem adds `CbAccounted`: an entry of the map
is waited for, on its way, or behind a failed write.

**ExecutorProofs**: `TypeCorrect`, `FenceHolds`, `OnlyCancelledHit`, `JsStaysWithinRequest`,
`FreshContexts`, `FailedWasOver`. The invariant has two halves. `CoreInv`, which is `InsideOwned /\
WatcherSound /\ ContextSound`: whose JS runs, that whatever a watcher did to the isolate is reported
in the `enter()` it belongs to, and that a terminated context is an old one until that `enter()`
returns. And `IdleInv`, for `FailedWasOver`: whoever may still enter JS for a request holds its
activity (`ActivityHeld`: the handler until it leaves the entry function, a future from `spawn` on), a
request whose entry call is refused has started nothing (`ErrorIsEarly`), and futures are killed only
of a request that is answered or dropped (`KilledSound`). That `GiveUp` finds the mutex free then
means that all futures have ended; that none comes after, and no result, is the part of the property
that speaks of every later state.

**BackgroundTasksProofs**: `TypeCorrect`, `NoPermitLeak`, `Quiet`, `AtMostOnce`. Assumed: at least one
permit. `QueuedOnce` (an entry is in the channel once, and only while queued) makes every entry that
is taken on a new one; `RanOnce` says that an entry has run nothing before it is invoked and that it
goes on from the version check only with the version it is pinned to.

**MessageQueueProofs**: `TypeCorrect`, `NoGapNoDuplicate`, `AckIsTheId`, `NothingAppearsBehind`, for
any number of messages, clients, faults and any batch size. `StoreInv` says that the counter is the
version of the last commit and that no two messages share an id. A client's stream is followed from
the database to the client by `StreamInv`: nobody is ahead of the database (`NotAhead`), what is in
the connection continues what the client has and skips nothing (`Chain`), what the task is about to
send continues what is in the connection (`Serving`), and what was received is what lies between the
client's first and last id (`Delivered`). No part of it needs a batch to be as long as its limit.

**ServerProofs**: `TypeCorrect`, `RightPackageAnswers`, `OneFetch`, `OnlyARaceGoesBack`, for any apps,
packages, deployments, requests, workers and faults; `MonitorTypeCorrect` and `Hysteresis` for the
memory monitor. Assumed (`VersionAssumption`): a version names one package, whoever deploys it. The
package cache is keyed by the version alone (package_loader.rs:19), so that without this assumption a
request would be answered by the package of another app. The invariant `FrontInv` ties together what
the code keeps apart: a request's worker is of the version its metadata names (`RequestInv`), a worker
has the package of the metadata it was started with (`WorkerInv`), which need not be that of the
request, the package cache has the package of the version (`CacheInv`), and a load that fetches holds
the lock (`LockInv`), also one whose worker has died, until it is cancelled. `Hysteresis` is under the
hypothesis `CriticalWm <= HighWm`, which the program does not check of its command line; it needs
`Tuned` (the limit of one worker means that the remembered level is Critical).

Of Router, `RouterIsTyped`, `MostSpecificIsFound` and `EveryMiddlewareRuns` are proved for any
registrations of an app and any request. Assumed: paths are sequences of strings that are not empty,
as the split of a string is. The tree and the walk are recursive functions; that these exist and what
they carry along is `Recursion` and `UpTo`, which stand in for induction. What the walk is to have
done is then an invariant of its turns: it stands at a node that follows the path, by the path's own
segment or by a wildcard where there is no such child (`Follows`), or it has gone to the directory of
a node that has no child to go on to (`Stuck`, `WayInv`). No matching pattern is more specific than a
node that follows the path (`FoundIsBest`), and a walk that is stuck was shadowed by a literal
(`StuckMeansShadowed`). `CollectedInv` counts how often the walk has pushed each node with
middlewares, and `ChainInv` how often each middleware is run for it, those nearer to the root first.

**KvStoreProofs**: `TypeCorrect`, `Truthful`, `KvImplementsAtomic`, for any keys, values, requests and
clients. `Snapshot` says that what a transaction read is what the store held at its read version and
still holds in every key nobody has written since; `Walked`, that a compare-and-set halfway has
evaluated its parts as the reference meaning would on that snapshot, and has every key it read from
the store in its conflict range; `Gathered` is the same for gets. A commit that does not conflict then
finds in the store what it read, so that its checks hold at the instant of the commit: that is the
simulation's main step (`Apply`). `BookInv` counts what was applied and what was unknown. Assumed: a
request has at least one key.

`PagesAreComplete` is about listings, for any keys, prefixes and limits, while other requests go on,
and also when the database returns fewer rows than the limit. `PagesInv` says that the cursor is the
last key that was returned (`CursorAtLast`), that keys are in order and were in the store
(`GotInOrder`, `GotWasThere`), and that a key that was there all the time was returned or lies ahead
(`NothingPassed`). It rests on lemmas that the order of keys is total (`PrecedesOrders`) and that a
page has the first rows of what is ahead. Assumed: keys are sequences of numbers below the code of a
versionstamp, there are finitely many of them, and a limit is at least one.

**MysqlSessionProofs**: `TypeCorrect`, `ConnectionsConserved`, `StatementsRunWhereIssued`,
`TransactionsAreAtomic`, for any number of requests, calls and connections. What a statement runs in
is the session's transaction at the time it has the mutex; what it was issued in is told from the
order of the calls. `OpenInv` relates the two: the session's transaction is the one that the calls
done so far have opened (`OpenAt`), calls being done in the order in which they were issued
(`NumberInv`). That a transaction is applied together needs that one that was committed or rolled back
is not entered again (`TxnInv`), that nothing of an open one is applied (`EffectInv`), and that one
that the database has rolled back has had a statement fail, and is recognised by those that came after
it (`GoneInv`). `PoolInv` counts the connections, for which `WaitInv` has to say that a request waits
for one at a time, and `EndedInv` that an ended request keeps none.

**JsThreadProofs**, about three components of the JS thread.

- ModuleGraph: `LoadsOnceWhatIsNeeded`, `FullPathsAreLinked`, for any archives. `MapInv` and
  `OrderInv` are the module map, whose entries were compiled for a file that their key resolves to;
  `QueueInv` and `ClosedInv` are the worklist: it has only what is reachable, and every import of a
  compiled module is compiled or in it. `LinkInv` and `FullInv` follow the links. Lemmas on the
  unpacking say that a package's files are sequences of segments, none below another, which makes full
  paths resolve to themselves.
- SolveGuard: `HandleNeverDangles`, `InterruptsLiveContext`. `GuardInv`: the handle goes before the
  fence, the fence before the JS thread goes on, and the context only then.
- Layout: `SolveIsGuarded`, that a solve with its data implements SolveGuard, and `GeometryIsMeant`,
  for any boxes, combined boxes, constraints and weights, and whatever z3 answers. Assumed:
  coordinates are integers, of either sign, and pins are of a side, at an integer or at a number
  without a fraction. `ObjsInv` says that an object is a box with its own sides or refers to the two
  metrics reduced from the sides of its children, `ConstraintsInv` that the constraint at a position
  expresses what was meant at that position (`Expresses`), and `ResultInv` that what is solved is not
  refused and is still what was built. An object that is not refused is then one box or made of boxes
  (`ChildrenArePlain`), the chain of selects yields an extreme of its arguments (`ReducedIsExtreme`),
  and so a side means to z3 where the object is (`SideMeans`).
- HostObjects: `ObjectTypeCorrect`, `RegistryMatchesWrappers`, `DocumentsStayWhole`, `QueriesFindAll`,
  for any documents, queries, symbols, contexts and nesting. Assumed: parsed documents are trees in
  document order (`DocumentsAssumption`), and queries are among the filters. The first property
  becomes inductive with `JsInOpenContext`. `DocumentInv` adds that whoever holds a node of a document
  holds its root (`HoldsTheRoot`), that nodes only lose children (`NodesStay`), and that while the
  document is in use what hangs below its root is whole (`Whole`); it rests on lemmas about `Reach`
  and about what `Release` tears. `QueryInv` says of each query on the stack (`Sound`) that its levels
  hang below each other (`Chained`), that every match is behind it, refused, or still to come
  (`Covered`), and that its calls are in order (`InOrder`) and keep out of what was refused
  (`Spared`). Its main step is that children lost to a removal or a drop take nothing away that the
  query has yet to visit and that is there in the end: there is one way to a node, through all nodes
  above it (`PathLemma`), so that a node below its start at the end has been so all the time. `Eval`
  is used as it is: its recursion plays no part.

The assumption on `None` in each module says that the value standing for "absent" is not a value;
bounds are natural numbers.

Every safety property of the runs is proved. Only model-checked is liveness (of `AckedBecomesHot` also
the conjunct that is not), which needs fairness and `ENABLED`, both outside the prover's reach:
`NobodyHangs`, `CancelledJsStops`, `EveryRequestEnds` (of Executor and of FrontEnd),
`TasksEndWithRequest`, `ShutdownEnds`, `EverySubscriberCatchesUp`, `AckedBecomesHot`, `OnlyAJamHangs`,
`EveryRequestAnswered` and `SolveEnds`.

## 6. Plan

Done, in this order: ReliableChannel, Executor, BackgroundTasks, MessageQueue, MemoryWatermark,
MysqlSession, ModuleGraph, KvStore with AtomicKv, Router, FrontEnd, Layout with SolveGuard, RemoteCall
and its refinement, HostObjects; the proofs of every safety property.

Next, of the system:

1. log messages of the low-priority channel in BackgroundTasks, which are lost if they are still in it
   when the host flushes its logs (server.rs:537);
2. several namespaces in MessageQueue and KvStore, with the lookup in the app's metadata;
3. the blocklist's nested ranges (`wpbl.rs`), as one small module;
4. prefix deletion, should its native be put into the table of APIs (api/mod.rs:104-107).

Next theorems: that the watermarks of the command line are ordered is a hypothesis of `Hysteresis`,
and that a version names one package one of `RightPackageAnswers`; a model of the deployment side
would show where the second comes from. The liveness properties have safety parts that could be stated
on their own, for example that a waiting caller of the channel always has something under way that
will wake it, short of the fairness that makes it happen.

## 7. Not modelled

- The bytes of messages, bodies, SQL, rows, payloads: model values, or left out.
- `smr` (scheduler and worker pool), hyper, tokio, V8, FoundationDB, MySQL, Kafka, z3: not in this
  repository. What the models assume of them is external in `PROJECT.json`: fair locks and semaphores,
  a scheduler that takes a live worker of the version or starts another up to its limit, FoundationDB
  transactions that commit atomically with increasing versionstamps and watches that fire on a changed
  value, a pool that serves in order, termination delivered to running JS, a model that satisfies the
  hard constraints with the greatest weight of the soft ones.
- Executor: busy time, log sequence numbers, the idle garbage collection. JS of one request that
  resolves a promise of another is not modelled (hazard at `api/mod.rs:178`): it depends on what the
  application shares between its requests.
- MessageQueue: namespaces, what authorisation decides by, and event encoding; a payload with a
  carriage return passes the newline check of sse.rs:232, although an EventSource ends the line there.
- FrontEnd: single-tenant mode, which has one path and never reads the store; sanitising of headers,
  GeoIP and the blocklist lookup, which change headers only. Errors of a request come before its
  worker has it (`EarlyError`) or with its answer (`Serve`); the error of a request id that is no
  header value (server.rs:781) is one of the first kind.
- Router: an app that catches the exception of a malformed path keeps the nodes which that call had
  made before it threw (router.ts:76-86): in the model an app that throws does not start. The warm-up,
  which runs the entry function for the image and completes nothing.
- MysqlSession: statements that end a transaction themselves (`COMMIT` as text, or a change of the
  schema), which the session could not tell either.
- KvStore: the length of a listing's prefix (kv/mod.rs:507), several replicas of a cluster, prefix
  deletion and the raw calls of the JS library, whose natives are not in the table of APIs
  (api/mod.rs:104-107).
- Layout: one dimension of two that are the same code under other names; arithmetic other than what
  boxes are made of, and nesting deeper than theirs; the rounding of a constant to a fraction of
  32-bit numbers; solutions beyond 64 bits, on which `must_eval_real` panics (mod.rs:218-225).
- ModuleGraph: the format of the archive and its entries that are not regular files; paths with dots
  in base names.
- HostObjects: parsing and serializing, which the DOM library does; the text of text nodes; what a
  schema accepts. Handles of several documents at a time, which share nothing.
- Components with nothing to interleave or to keep: pure native APIs, V8 conversions, casts, the log
  service, MDS configuration, background entry points (a table of functions by name), the image
  builder, process start.

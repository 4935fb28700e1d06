-------------------------- MODULE BackgroundTasks --------------------------
(***************************************************************************)
(* At-most-once background tasks and the shutdown of the host (server.rs). *)
(*                                                                         *)
(* JS workers submit background entries over the low-priority IPC channel  *)
(* (api_schedule_at_most_once).  One host thread receives them in order    *)
(* and spawns a task for each, or drops it when no permit is free.  A task *)
(* takes the read side of BACKGROUND_TASK_LOCK, loads the metadata of the  *)
(* app, checks the version it is pinned to, gets a worker and invokes it,  *)
(* all but the metadata load under a 30s timeout.  On a signal the host    *)
(* takes no more connections and waits for the requests and event streams  *)
(* it is serving, which it gives no deadline; then it takes the write side *)
(* of the lock, keeps it for good, flushes its logs and exits.             *)
(***************************************************************************)
EXTENDS Naturals, Sequences, FiniteSets

CONSTANTS
    Entries,    \* background entries submitted, each once
    Versions,   \* versions of the app's package
    Permits,    \* LpContext.bg_permit: Semaphore::new(500)
    MaxOpen,    \* bound: HTTP requests and event streams served at a time
    None

ASSUME PermitsAssumption == Permits \in Nat \ {0}
ASSUME MaxOpenAssumption == MaxOpen \in Nat

VARIABLES
    lp,        \* the low-priority channel (its log messages are left out)
    task,      \* what became of each entry
    pinned,    \* BackgroundEntry.app.version: the version that submitted it
    md,        \* the version of the metadata a task has loaded
    ran,       \* history: the versions of the workers that ran the entry
    permits,   \* free permits
    failCount, \* LP_BG_ISSUE_FAIL_COUNT
    main,      \* where async_main is
    open       \* HTTP requests and event streams being served

vars == <<lp, task, pinned, md, ran, permits, failCount, main, open>>

\* Tasks behind the read lock, and tasks that hold a permit
Reading == {e \in Entries : task[e] \in {"loading", "checking", "starting", "invoked"}}
Holding == {e \in Entries : task[e] = "spawned"} \cup Reading

TypeOK ==
    /\ lp \in Seq(Entries)
    /\ task \in [Entries -> {"new", "queued", "dropped", "spawned", "loading",
                             "checking", "starting", "invoked", "ended"}]
    /\ pinned \in [Entries -> Versions \cup {None}]
    /\ md \in [Entries -> Versions \cup {None}]
    /\ ran \in [Entries -> Seq(Versions)]
    /\ permits \in 0..Permits
    /\ failCount \in Nat
    /\ main \in {"serving", "graceful", "locking", "locked", "exited"}
    /\ open \in 0..MaxOpen

Init ==
    /\ lp = <<>>
    /\ task = [e \in Entries |-> "new"]
    /\ pinned = [e \in Entries |-> None]
    /\ md = [e \in Entries |-> None]
    /\ ran = [e \in Entries |-> <<>>]
    /\ permits = Permits
    /\ failCount = 0
    /\ main = "serving"
    /\ open = 0

-----------------------------------------------------------------------------
(* Faulty variants of the operations below, for the properties to reject.  *)

\* the write guard is dropped instead of forgotten
ReadLock_NotForgotten(e) ==
    /\ main # "exited" /\ task[e] = "spawned" /\ main # "locking"
    /\ task' = [task EXCEPT ![e] = "loading"]
    /\ UNCHANGED <<lp, pinned, md, ran, permits, failCount, main, open>>

\* the version assertion is left out
CheckVersion_None(e) ==
    /\ main # "exited" /\ task[e] = "checking"
    /\ task' = [task EXCEPT ![e] = "starting"]
    /\ UNCHANGED <<lp, pinned, md, ran, permits, failCount, main, open>>

\* a timed-out entry is invoked again
Timeout_Retry(e) ==
    /\ main # "exited" /\ task[e] \in {"checking", "starting", "invoked"}
    /\ task' = [task EXCEPT ![e] = "starting"]
    /\ UNCHANGED <<lp, pinned, md, ran, permits, failCount, main, open>>

\* the timeout only covers finding a worker
Timeout_StartOnly(e) ==
    /\ main # "exited" /\ task[e] \in {"checking", "starting"}
    /\ task' = [task EXCEPT ![e] = "ended"]
    /\ permits' = permits + 1
    /\ UNCHANGED <<lp, pinned, md, ran, failCount, main, open>>

\* an early return that forgets the permit
EndTask_KeepPermit(e) == task' = [task EXCEPT ![e] = "ended"] /\ UNCHANGED permits

-----------------------------------------------------------------------------
(* The worker and the low-priority thread.                                 *)

Up == main # "exited"

\* api_schedule_at_most_once in a worker of version v, same_version = true.
\* Workers keep running while the host shuts down.
Submit(e, v) ==
    /\ Up /\ task[e] = "new"
    /\ task' = [task EXCEPT ![e] = "queued"]
    /\ pinned' = [pinned EXCEPT ![e] = v]
    /\ lp' = Append(lp, e)
    /\ UNCHANGED <<md, ran, permits, failCount, main, open>>

\* rx.recv(), then issue_lp: try_acquire_owned and spawn, or count a failure
IssueLp ==
    /\ Up /\ lp # <<>>
    /\ lp' = Tail(lp)
    /\ IF permits > 0
       THEN /\ task' = [task EXCEPT ![Head(lp)] = "spawned"]
            /\ permits' = permits - 1
            /\ UNCHANGED failCount
       ELSE /\ task' = [task EXCEPT ![Head(lp)] = "dropped"]
            /\ failCount' = failCount + 1
            /\ UNCHANGED permits
    /\ UNCHANGED <<pinned, md, ran, main, open>>

-----------------------------------------------------------------------------
(* run_background_entry.                                                   *)

\* The read guard, then the permit, go when the task returns
EndTask(e) ==
    /\ task' = [task EXCEPT ![e] = "ended"]
    /\ permits' = permits + 1

\* BACKGROUND_TASK_LOCK.read().await: the lock is fair, so a reader queues
\* behind a writer that waits
ReadLock(e) ==
    /\ Up /\ task[e] = "spawned" /\ main \in {"serving", "graceful"}
    /\ task' = [task EXCEPT ![e] = "loading"]
    /\ UNCHANGED <<lp, pinned, md, ran, permits, failCount, main, open>>

\* load_md_with_cache, outside the timeout: it may never answer, and what it
\* answers is whatever version the cache or the store has by then
LoadMd(e) ==
    /\ Up /\ task[e] = "loading"
    /\ task' = [task EXCEPT ![e] = "checking"]
    /\ \E v \in Versions : md' = [md EXCEPT ![e] = v]
    /\ UNCHANGED <<lp, pinned, ran, permits, failCount, main, open>>

LoadMdError(e) ==
    /\ Up /\ task[e] = "loading"
    /\ EndTask(e)
    /\ UNCHANGED <<lp, pinned, md, ran, failCount, main, open>>

\* generic_invoke: md.version = version_assertion, on to Scheduler::get_worker
CheckVersion(e) ==
    /\ Up /\ task[e] = "checking" /\ md[e] = pinned[e]
    /\ task' = [task EXCEPT ![e] = "starting"]
    /\ UNCHANGED <<lp, pinned, md, ran, permits, failCount, main, open>>

VersionChanged(e) ==
    /\ Up /\ task[e] = "checking" /\ md[e] # pinned[e]
    /\ EndTask(e)
    /\ UNCHANGED <<lp, pinned, md, ran, failCount, main, open>>

\* w.invoke(req) on a worker of the loaded package runs the entry
Invoke(e) ==
    /\ Up /\ task[e] = "starting"
    /\ task' = [task EXCEPT ![e] = "invoked"]
    /\ ran' = [ran EXCEPT ![e] = Append(@, md[e])]
    /\ UNCHANGED <<lp, pinned, md, permits, failCount, main, open>>

\* get_worker or invoke returns, with a result or an error: both only logged
InvokeDone(e) ==
    /\ Up /\ task[e] \in {"starting", "invoked"}
    /\ EndTask(e)
    /\ UNCHANGED <<lp, pinned, md, ran, failCount, main, open>>

\* sleep(30s) wins the select: the invocation's future is dropped
Timeout(e) ==
    /\ Up /\ task[e] \in {"checking", "starting", "invoked"}
    /\ EndTask(e)
    /\ UNCHANGED <<lp, pinned, md, ran, failCount, main, open>>

-----------------------------------------------------------------------------
(* The HTTP side and the shutdown in async_main.                           *)

\* hyper calls handle() for a request of some client, as long as it listens
Serve ==
    /\ main = "serving" /\ open < MaxOpen
    /\ open' = open + 1
    /\ UNCHANGED <<lp, task, pinned, md, ran, permits, failCount, main>>

\* The response is out, or the client has gone.  Nothing bounds the time until
\* then: an invocation has no timeout, and the task of an event stream goes on
\* with its heartbeats, in a shutdown as well
Served ==
    /\ open > 0
    /\ open' = open - 1
    /\ UNCHANGED <<lp, task, pinned, md, ran, permits, failCount, main>>

Signal ==
    /\ main = "serving"
    /\ main' = "graceful"
    /\ UNCHANGED <<lp, task, pinned, md, ran, permits, failCount, open>>

\* graceful.await: every connection has ended; the writer joins the lock's queue
AwaitLock ==
    /\ main = "graceful" /\ open = 0
    /\ main' = "locking"
    /\ UNCHANGED <<lp, task, pinned, md, ran, permits, failCount, open>>

\* write().await once the readers are gone; the guard is forgotten
WriteLock ==
    /\ main = "locking" /\ Reading = {}
    /\ main' = "locked"
    /\ UNCHANGED <<lp, task, pinned, md, ran, permits, failCount, open>>

\* flush_before_exit of both log services, then return
Exit ==
    /\ main = "locked"
    /\ main' = "exited"
    /\ UNCHANGED <<lp, task, pinned, md, ran, permits, failCount, open>>

-----------------------------------------------------------------------------
RunTask(e) ==
    \/ ReadLock(e) \/ LoadMd(e) \/ LoadMdError(e) \/ CheckVersion(e)
    \/ VersionChanged(e) \/ Invoke(e) \/ InvokeDone(e) \/ Timeout(e)

Shutdown == Signal \/ AwaitLock \/ WriteLock \/ Exit

Next ==
    \/ \E e \in Entries, v \in Versions : Submit(e, v)
    \/ IssueLp
    \/ Serve \/ Served
    \/ \E e \in Entries : RunTask(e)
    \/ Shutdown

(***************************************************************************)
(* The low-priority thread and the tasks run, timers fire, and a metadata  *)
(* load answers or fails.  A worker need not be found and an invocation    *)
(* need not return: neither InvokeDone nor Served has fairness.            *)
(***************************************************************************)
Fairness ==
    /\ WF_vars(IssueLp)
    /\ \A e \in Entries : WF_vars(ReadLock(e)) /\ WF_vars(Timeout(e))
                          /\ WF_vars(LoadMd(e) \/ LoadMdError(e))
    /\ WF_vars(AwaitLock) /\ WF_vars(WriteLock) /\ WF_vars(Exit)

Spec == Init /\ [][Next]_vars

FairSpec == Spec /\ Fairness

-----------------------------------------------------------------------------
(* Properties.                                                             *)

\* Every path of a task gives its permit back, and no entry is taken on beyond
\* the number of permits.
PermitsConserved == permits + Cardinality(Holding) = Permits

\* "background tasks completed": from the moment the host holds the write lock
\* until it is gone, no task is loading, starting or awaiting an invocation,
\* although workers go on submitting entries and tasks go on being spawned.
QuietAfterLock == main \in {"locked", "exited"} => Reading = {}

\* At most once: an entry runs once or not at all, in a worker of the version
\* that submitted it; a dropped entry never runs.
AtMostOnceSameVersion ==
    \A e \in Entries :
        /\ Len(ran[e]) <= 1
        /\ \A i \in 1..Len(ran[e]) : ran[e][i] = pinned[e]
        /\ task[e] = "dropped" => ran[e] = <<>>

\* Nothing but an HTTP request or an event stream that never ends keeps the host
\* from exiting: a background task whose worker hangs does not, nor do workers
\* that go on submitting entries.
ShutdownEnds == main # "serving" ~> (main = "exited" \/ [](open > 0))

-----------------------------------------------------------------------------
(* The inductive invariant behind the safety properties.                   *)

\* An entry is in the channel once, and only while it is queued
QueuedOnce ==
    /\ \A i \in 1..Len(lp) : task[lp[i]] = "queued"
    /\ \A i, j \in 1..Len(lp) : i # j => lp[i] # lp[j]

\* An entry has not run before it is invoked, and goes on from its version
\* check with the version it is pinned to
RanOnce(e) ==
    /\ task[e] \notin {"invoked", "ended"} => ran[e] = <<>>
    /\ task[e] = "starting" => md[e] = pinned[e]
    /\ ran[e] = <<>> \/ ran[e] = <<pinned[e]>>
    /\ task[e] # "new" => pinned[e] \in Versions

IInv ==
    /\ QueuedOnce
    /\ \A e \in Entries : RanOnce(e)
    /\ IsFiniteSet(Holding) /\ PermitsConserved
    /\ QuietAfterLock

=============================================================================

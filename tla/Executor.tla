------------------------------ MODULE Executor ------------------------------
(***************************************************************************)
(* A JS worker running requests (exec.rs, ipc.rs, ctx.rs).                 *)
(*                                                                         *)
(* One thread runs an event loop; every request has an Executor, alive     *)
(* while the future of handle_with_cancellation is.  JS only runs inside   *)
(* Executor::enter, synchronously: first for the entry function of the     *)
(* request, then for the callback of each task the JS spawned (sleep,      *)
(* fetch, KV, pubsub, mysql, apns: all spawn a future and enter with its   *)
(* result).  A watcher on another thread terminates the JS of a request    *)
(* that is cancelled and does not yield within a grace period; a fence     *)
(* keeps it from doing so once enter has returned.  Panics abort the       *)
(* process.                                                                *)
(***************************************************************************)
EXTENDS Naturals, FiniteSets

CONSTANTS
    Requests,   \* invocations sent to this worker
    Tasks,      \* futures spawned by JS; each is spawned at most once
    Entry,      \* stands for the entry function where a task is expected
    None

\* An enter() in progress: for which request and task, how its JS stands, and
\* its watcher
Enters == [req : Requests, task : Tasks \cup {Entry},
           js : {"running", "returned", "error", "threw", "terminated"},
           watch : {"armed", "grace", "fired"}, report : BOOLEAN]

ASSUME EntryAssumption == Entry \notin Tasks
ASSUME NoneAssumption == None \notin Enters /\ None \notin Requests

VARIABLES
    req,         \* where handle_with_cancellation is, per request
    ctxOf,       \* Executor.v8_ctx: the context a request runs in
    completed,   \* requests whose completed_result is Some
    cancelled,   \* requests whose cancel watch has changed
    task,        \* state of each spawned future; it ends, or is killed
    activity,    \* who holds an Rc of the spawn_activity guard, per request
    owner,       \* the executor that spawned it
    inside,      \* the enter() in progress, with its watcher, or None
    late,        \* watchers past their grace period whose enter() has returned
    termPending, \* a termination is requested of the isolate and not delivered
    ctx,         \* BlueboatCtx.v8_ctx: contexts are numbered
    tainted,     \* history: contexts in which JS was terminated
    worker       \* "up", or why the process aborted

vars == <<req, ctxOf, completed, cancelled, task, activity, owner, inside, late,
          termPending, ctx, tainted, worker>>

TypeOK ==
    /\ req \in [Requests -> {"new", "entering", "waiting", "done", "failed", "dropped"}]
    /\ ctxOf \in [Requests -> Nat]
    /\ completed \subseteq Requests
    /\ cancelled \subseteq Requests
    /\ task \in [Tasks -> {"unused", "pending", "inside", "ended", "killed"}]
    /\ activity \in [Requests -> SUBSET (Tasks \cup {Entry})]
    /\ owner \in [Tasks -> Requests \cup {None}]
    /\ \A t \in Tasks : task[t] # "unused" => owner[t] \in Requests
    /\ inside \in Enters \cup {None}
    /\ late \subseteq [req : Requests, fence : BOOLEAN]
    /\ termPending \in BOOLEAN
    /\ ctx \in Nat
    /\ tainted \subseteq Nat
    /\ worker \in {"up", "entry_abort", "reset_abort"}

Init ==
    /\ req = [r \in Requests |-> "new"]
    /\ ctxOf = [r \in Requests |-> 0]
    /\ completed = {}
    /\ cancelled = {}
    /\ task = [t \in Tasks |-> "unused"]
    /\ activity = [r \in Requests |-> {}]
    /\ owner = [t \in Tasks |-> None]
    /\ inside = None
    /\ late = {}
    /\ termPending = FALSE
    /\ ctx = 1
    /\ tainted = {}
    /\ worker = "up"

-----------------------------------------------------------------------------
(* Faulty variants: plausible mistakes in the definitions below, which the *)
(* properties at the end of the module must reject.                        *)

\* a spawned future does not keep the activity
Hold_HandlerOnly(r, h) ==
    activity' = [activity EXCEPT ![r] = @ \cup ({h} \cap {Entry})]

\* a future that is over leaks its Rc
LetGo_Leaked(r, h) == activity' = [activity EXCEPT ![r] = @ \ ({h} \cap {Entry})]

\* a plain time limit instead of one that starts at the cancellation
WatcherWake_NoCancel ==
    /\ worker = "up" /\ inside # None
    /\ inside.watch = "armed"
    /\ inside' = [inside EXCEPT !.watch = "grace"]
    /\ UNCHANGED <<req, ctxOf, completed, cancelled, task, activity, owner, late, termPending, ctx, tainted, worker>>

\* the report is set but the isolate is not told
WatcherFire_ReportOnly ==
    /\ worker = "up" /\ inside # None
    /\ inside.watch = "grace"
    /\ inside' = [inside EXCEPT !.watch = "fired", !.report = TRUE]
    /\ UNCHANGED <<req, ctxOf, completed, cancelled, task, activity, owner, late, termPending, ctx, tainted, worker>>

\* abort() is taken to be synchronous and the fence is never raised
RaiseFence_AbortOnly ==
    late' = IF inside.watch = "grace"
            THEN late \cup {[req |-> inside.req, fence |-> FALSE]} ELSE late

\* async_kill is polled after the future itself, and enter does not upgrade
TaskResume_Unbiased(t) ==
    /\ worker = "up" /\ inside = None /\ task[t] = "pending"
    /\ task' = [task EXCEPT ![t] = "inside"]
    /\ inside' = [req |-> owner[t], task |-> t, js |-> "running", watch |-> "armed",
                  report |-> FALSE]
    /\ UNCHANGED <<req, ctxOf, completed, cancelled, activity, owner, late, termPending, ctx, tainted, worker>>

\* tasks are only killed by a completion
TaskKilled_OnComplete(t) ==
    /\ worker = "up" /\ inside = None /\ task[t] = "pending" /\ req[owner[t]] = "done"
    /\ task' = [task EXCEPT ![t] = "killed"]
    /\ activity' = [activity EXCEPT ![owner[t]] = @ \ {t}]
    /\ UNCHANGED <<req, ctxOf, completed, cancelled, owner, inside, late, termPending, ctx, tainted, worker>>

-----------------------------------------------------------------------------
\* The Rc<Executor> lives in the handler's future
Alive(r) == req[r] \in {"entering", "waiting"}

\* An Rc of the guard is cloned: by Executor::new for the handler, which keeps
\* it until it has returned from the entry function, and by spawn
Hold(r, h) == activity' = [activity EXCEPT ![r] = @ \cup {h}]

\* ... and dropped; the mutex is free again when the last one is
LetGo(r, h) == activity' = [activity EXCEPT ![r] = @ \ {h}]

\* spawn_activity_maybe_owner can be upgraded, spawn_activity cannot be locked
Active(r) == activity[r] # {}

\* The event loop thread is free to poll a future
Idle == worker = "up" /\ inside = None

\* The thread is in JS called by enter()
Running == worker = "up" /\ inside # None /\ inside.js = "running"

Enter(r, t, js) ==
    inside' = [req |-> r, task |-> t, js |-> js, watch |-> "armed", report |-> FALSE]

\* Executor::new: the executor of a request, with its activity, lives in the
\* context that is current
NewExecutor(r) ==
    /\ req' = [req EXCEPT ![r] = "entering"]
    /\ ctxOf' = [ctxOf EXCEPT ![r] = ctx]
    /\ Hold(r, Entry)

\* The entry call may fail before any JS runs: build_invocation does, or the
\* entry is not a function
Invocations == {"running", "error"}

\* handle_with_cancellation: create the executor and enter
Start(r) ==
    /\ Idle /\ req[r] = "new"
    /\ NewExecutor(r)
    /\ \E js \in Invocations : Enter(r, Entry, js)
    /\ UNCHANGED <<completed, cancelled, task, owner, late, termPending, ctx, tainted, worker>>

\* Executor::try_current: what API functions that the running JS calls act for
Current == inside.req

\* Executor::spawn from an API function called by the running JS, whose activity
\* it finds (JsWithinRequest) and clones
JsSpawn(t) ==
    /\ Running /\ task[t] = "unused" /\ Active(Current)
    /\ Hold(Current, t)
    /\ task' = [task EXCEPT ![t] = "pending"]
    /\ owner' = [owner EXCEPT ![t] = Current]
    /\ UNCHANGED <<req, ctxOf, completed, cancelled, inside, late, termPending, ctx, tainted, worker>>

\* Executor::complete: stores the result and releases wait_for_completion
CompleteWith(r) == completed' = completed \cup {r}

\* api_complete, called by the running JS
JsComplete ==
    /\ Running
    /\ CompleteWith(Current)
    /\ UNCHANGED <<req, ctxOf, cancelled, task, activity, owner, inside, late, termPending, ctx, tainted, worker>>

\* The JS returns, or throws; the entry functions are async and do not throw
JsReturn ==
    /\ Running
    /\ \E js \in {"returned"} \cup (IF inside.task = Entry THEN {} ELSE {"threw"}) :
          inside' = [inside EXCEPT !.js = js]
    /\ UNCHANGED <<req, ctxOf, completed, cancelled, task, activity, owner, late, termPending, ctx, tainted, worker>>

\* V8 delivers a requested termination to the running JS
JsTerminated ==
    /\ Running /\ termPending
    /\ inside' = [inside EXCEPT !.js = "terminated"]
    /\ termPending' = FALSE
    /\ tainted' = tainted \cup {ctxOf[inside.req]}
    /\ UNCHANGED <<req, ctxOf, completed, cancelled, task, activity, owner, late, ctx, worker>>

\* The watcher: cancel.changed(), then the grace period
WatcherWake ==
    /\ worker = "up" /\ inside # None
    /\ inside.watch = "armed" /\ inside.req \in cancelled
    /\ inside' = [inside EXCEPT !.watch = "grace"]
    /\ UNCHANGED <<req, ctxOf, completed, cancelled, task, activity, owner, late, termPending, ctx, tainted, worker>>

\* ... then, under the lock of the fence: terminate and report
WatcherFire ==
    /\ worker = "up" /\ inside # None
    /\ inside.watch = "grace"
    /\ inside' = [inside EXCEPT !.watch = "fired", !.report = TRUE]
    /\ termPending' = TRUE
    /\ UNCHANGED <<req, ctxOf, completed, cancelled, task, activity, owner, late, ctx, tainted, worker>>

\* A watcher whose abort() came too late finds the fence up
LateWatcher(w) ==
    /\ worker = "up" /\ w \in late
    /\ late' = late \ {w}
    /\ termPending' = (termPending \/ ~w.fence)
    /\ UNCHANGED <<req, ctxOf, completed, cancelled, task, activity, owner, inside, ctx, tainted, worker>>

-----------------------------------------------------------------------------
(* Leaving enter().                                                        *)

\* watcher.abort() (it may be past its last await), then *abort_fence = true
RaiseFence ==
    late' = IF inside.watch = "grace"
            THEN late \cup {[req |-> inside.req, fence |-> TRUE]} ELSE late

\* What the caller does with enter's None: the entry call unwraps it
ReturnNone ==
    /\ IF inside.task = Entry
       THEN worker' = "entry_abort" /\ UNCHANGED <<inside, task, activity>>
       ELSE /\ task' = [task EXCEPT ![inside.task] = "ended"]
            /\ LetGo(inside.req, inside.task)
            /\ inside' = None
            /\ UNCHANGED worker
    /\ UNCHANGED req

\* ... and with Some(ret): the handler drops its activity and waits, or returns
\* the error of the entry call
ReturnSome ==
    /\ IF inside.task = Entry
       THEN /\ req' = [req EXCEPT ![inside.req] =
                         IF inside.js = "error" THEN "failed" ELSE "waiting"]
            /\ UNCHANGED task
       ELSE /\ task' = [task EXCEPT ![inside.task] = "ended"]
            /\ UNCHANGED req
    /\ LetGo(inside.req, inside.task)
    /\ inside' = None
    /\ UNCHANGED worker

\* enter returns without a report: None on an uncaught exception
LeaveNormally ==
    /\ worker = "up" /\ inside # None /\ inside.js # "running" /\ ~inside.report
    /\ RaiseFence
    /\ IF inside.js \in {"threw", "terminated"} THEN ReturnNone ELSE ReturnSome
    /\ UNCHANGED <<ctxOf, completed, cancelled, owner, termPending, ctx, tainted>>

\* faulty variant: the terminated context is kept
LeaveAndReset_KeepContext ==
    /\ worker = "up" /\ inside # None /\ inside.js # "running" /\ inside.report
    /\ ~termPending
    /\ RaiseFence
    /\ ReturnNone
    /\ UNCHANGED <<ctxOf, completed, cancelled, owner, termPending, ctx, tainted>>

\* The watcher reported a termination: reset_v8_context, then None
LeaveAndReset ==
    /\ worker = "up" /\ inside # None /\ inside.js # "running" /\ inside.report
    /\ ~termPending
    /\ RaiseFence
    /\ ctx' = ctx + 1
    /\ ReturnNone
    /\ UNCHANGED <<ctxOf, completed, cancelled, owner, termPending, tainted>>

\* expect("reset failed"): the package call fails, or the termination that the
\* returning JS did not see hits the scripts of the new context
ResetFails ==
    /\ worker = "up" /\ inside # None /\ inside.js # "running" /\ inside.report
    /\ worker' = "reset_abort"
    /\ UNCHANGED <<req, ctxOf, completed, cancelled, task, activity, owner, inside, late, termPending, ctx, tainted>>

-----------------------------------------------------------------------------
(* The event loop polls futures while no JS runs.                          *)

\* wait_for_completion, first branch: the result is taken and returned, and the
\* executor is dropped with the future
Complete(r) ==
    /\ Idle /\ req[r] = "waiting" /\ r \in completed
    /\ req' = [req EXCEPT ![r] = "done"]
    /\ UNCHANGED <<ctxOf, completed, cancelled, task, activity, owner, inside, late, termPending, ctx, tainted, worker>>

\* second branch: spawn_activity.lock(), nobody is left who could complete
GiveUp(r) ==
    /\ Idle /\ req[r] = "waiting" /\ r \notin completed /\ ~Active(r)
    /\ req' = [req EXCEPT ![r] = "failed"]
    /\ UNCHANGED <<ctxOf, completed, cancelled, task, activity, owner, inside, late, termPending, ctx, tainted, worker>>

\* The caller drops the handler's future at its await
DropFuture(r) ==
    /\ Idle /\ req[r] = "waiting"
    /\ req' = [req EXCEPT ![r] = "dropped"]
    /\ UNCHANGED <<ctxOf, completed, cancelled, task, activity, owner, inside, late, termPending, ctx, tainted, worker>>

\* The caller signals cancellation, on whatever thread, at any time
Cancel(r) ==
    /\ worker = "up" /\ Alive(r) /\ r \notin cancelled
    /\ cancelled' = cancelled \cup {r}
    /\ UNCHANGED <<req, ctxOf, completed, task, activity, owner, inside, late, termPending, ctx, tainted, worker>>

\* A spawned future has its result and enters JS: not if its executor is gone
\* (the biased select polls async_kill first, and enter cannot upgrade)
TaskResume(t) ==
    /\ Idle /\ task[t] = "pending" /\ Alive(owner[t])
    /\ task' = [task EXCEPT ![t] = "inside"]
    /\ Enter(owner[t], t, "running")
    /\ UNCHANGED <<req, ctxOf, completed, cancelled, activity, owner, late, termPending, ctx, tainted, worker>>

\* async_kill: the write guard went with the executor
TaskKilled(t) ==
    /\ Idle /\ task[t] = "pending" /\ ~Alive(owner[t])
    /\ task' = [task EXCEPT ![t] = "killed"]
    /\ LetGo(owner[t], t)
    /\ UNCHANGED <<req, ctxOf, completed, cancelled, owner, inside, late, termPending, ctx, tainted, worker>>

-----------------------------------------------------------------------------
Js == (\E t \in Tasks : JsSpawn(t)) \/ JsComplete \/ JsReturn \/ JsTerminated

Leave == LeaveNormally \/ LeaveAndReset \/ ResetFails

Watcher == WatcherWake \/ WatcherFire \/ \E w \in late : LateWatcher(w)

Handler(r) == Start(r) \/ Complete(r) \/ GiveUp(r) \/ DropFuture(r) \/ Cancel(r)

Next ==
    \/ \E r \in Requests : Handler(r)
    \/ Js \/ Leave \/ Watcher
    \/ \E t \in Tasks : TaskResume(t) \/ TaskKilled(t)

(***************************************************************************)
(* The event loop polls what is ready, the watcher's runtime runs, and V8  *)
(* delivers a termination.  Nothing is assumed of the application's JS.    *)
(***************************************************************************)
Fairness ==
    /\ WF_vars(Leave) /\ WF_vars(JsTerminated)
    /\ WF_vars(WatcherWake) /\ WF_vars(WatcherFire)
    /\ \A r \in Requests : WF_vars(Complete(r)) /\ WF_vars(GiveUp(r))
    /\ \A t \in Tasks : WF_vars(TaskKilled(t))

\* An application whose JS returns and whose I/O answers; it need not complete
AppFairness == WF_vars(JsReturn) /\ \A t \in Tasks : WF_vars(TaskResume(t))

Spec == Init /\ [][Next]_vars

FairSpec == Spec /\ Fairness

-----------------------------------------------------------------------------
\* The runtime never takes a request to be idle that is not: one that fails was
\* not completed before and is not completed later, and each of its futures ran
\* to its own end.  Only an answer, or a caller that went away, cuts a future off.
FailsOnlyWhenOver ==
    \A r \in Requests : req[r] = "failed" =>
        /\ r \notin completed
        /\ \A t \in Tasks : owner[t] = r => task[t] = "ended"

-----------------------------------------------------------------------------
(* The inductive invariant behind the safety properties.                   *)

\* Whose JS runs: the entry of a handler that has not returned from it, or a
\* task of a live executor
InsideOwned ==
    inside # None =>
        /\ Alive(inside.req)
        /\ inside.task = Entry => req[inside.req] = "entering"
        /\ inside.task # Entry => /\ task[inside.task] = "inside"
                                  /\ owner[inside.task] = inside.req
        /\ inside.js = "threw" => inside.task # Entry

\* The watcher acts on a cancelled request only, and whatever it did to the
\* isolate is reported in the enter() it belongs to
WatcherSound ==
    /\ inside # None =>
          /\ inside.watch # "armed" => inside.req \in cancelled
          /\ inside.report => inside.watch = "fired"
          /\ inside.js = "terminated" => inside.report
    /\ termPending => inside # None /\ inside.report
    /\ \A w \in late : w.fence
    /\ worker # "up" => inside # None /\ inside.report

\* A terminated context is an old one, unless the enter() that terminated it
\* has yet to return
ContextSound ==
    /\ \A r \in Requests : ctxOf[r] <= ctx
    /\ \A g \in tainted : g < ctx \/ (g = ctx /\ inside # None /\ inside.js = "terminated")

\* Every future that may still enter JS holds the activity of its request, and
\* so does the handler until it has returned from the entry function
ActivityHeld ==
    /\ \A r \in Requests : req[r] = "entering" => Entry \in activity[r]
    /\ \A t \in Tasks : task[t] \in {"pending", "inside"} => t \in activity[owner[t]]

\* The request whose entry call was refused has spawned nothing yet
ErrorIsEarly ==
    /\ \A r \in Requests : req[r] = "new" => r \notin completed
    /\ \A t \in Tasks : task[t] # "unused" => req[owner[t]] # "new"
    /\ inside # None /\ inside.js = "error" =>
          /\ inside.task = Entry /\ inside.req \notin completed
          /\ \A t \in Tasks : owner[t] # inside.req

\* Killed is only what an answer or a dropped caller left behind
KilledSound ==
    /\ \A t \in Tasks : task[t] = "unused" => owner[t] = None
    /\ \A t \in Tasks : task[t] = "killed" => ~Alive(owner[t])

CoreInv == InsideOwned /\ WatcherSound /\ ContextSound

IdleInv == ActivityHeld /\ FailsOnlyWhenOver /\ ErrorIsEarly /\ KilledSound

IInv == CoreInv /\ IdleInv

-----------------------------------------------------------------------------
(* Properties.                                                             *)

\* The fence works: a termination is only ever pending while the enter() that
\* reported it has not returned, so it never hits the JS of a later request,
\* however late the watcher runs.
NoStrayTermination == termPending => inside # None /\ inside.report

\* Only a request that was itself cancelled has its JS terminated, and only
\* such a request can bring the worker down.
OnlyCancelledIsHit ==
    (worker # "up" \/ (inside # None /\ inside.js = "terminated")) =>
        inside # None /\ inside.req \in cancelled

\* JS runs within its request: not for one whose handler has returned or was
\* dropped, and not without its spawn activity, since spawn() would then take
\* the path "failed to get activity" and never call the callback it was given.
JsWithinRequest == inside # None => Alive(inside.req) /\ Active(inside.req)

\* A request that starts never gets a context in which JS was terminated.
FreshContextForNewRequests == Idle => ctx \notin tainted

\* A cancelled request cannot keep the worker's only thread, even if its JS
\* loops forever.
CancelledJsStops ==
    \A r \in Requests :
        (inside # None /\ inside.req = r /\ r \in cancelled)
            ~> (inside = None \/ inside.req # r \/ worker # "up")

\* Every request ends, also when the application never completes it, as long
\* as its JS returns and its I/O answers.
EveryRequestEnds ==
    AppFairness => \A r \in Requests : req[r] # "new" ~> ~Alive(r) \/ worker # "up"

\* Under the same condition the futures of a request do not outlive it.
TasksEndWithRequest ==
    AppFairness => \A t \in Tasks :
        (task[t] = "pending" /\ ~Alive(owner[t])) ~> task[t] = "killed" \/ worker # "up"

=============================================================================

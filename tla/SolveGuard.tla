---------------------------- MODULE SolveGuard ----------------------------
(***************************************************************************)
(* The cancellation of one layout solve: api_graphics_layout_solve of      *)
(* src/src/api/graphics/layout/mod.rs.                                     *)
(*                                                                         *)
(* The JS thread builds the problem in a z3 context that lives on its      *)
(* stack, and checks it without ever returning to V8 or tokio.  A task on  *)
(* the watcher's runtime is given a handle of that context, whose lifetime *)
(* is transmuted away, and interrupts the check when the request is        *)
(* cancelled.  What keeps the handle from outliving the context is the     *)
(* guard the task owns: it drops the handle first and the sender of a      *)
(* fence second, and the JS thread waits for the fence before it returns.  *)
(***************************************************************************)

VARIABLES
    pc,          \* the JS thread: "app", "spawned", "check", "abort", "recv", "answer" or "done"
    task,        \* the watcher's future: "none", "waiting", "woken", "dropping" or "gone"
    z3ctx,       \* the z3 context exists
    handle,      \* the task's ContextHandle has not been dropped
    fence,       \* async_fence_tx has not been dropped
    cancelled,   \* the request's cancel channel has changed, or its sender is gone
    aborted,     \* abort() was called on the task
    interrupted, \* z3 has been told to give up
    check_res    \* what opt.check returned, or "none"

guardVars == <<pc, task, z3ctx, handle, fence, cancelled, aborted, interrupted, check_res>>

GuardTypeOK ==
    /\ pc \in {"app", "spawned", "check", "abort", "recv", "answer", "done"}
    /\ task \in {"none", "waiting", "woken", "dropping", "gone"}
    /\ z3ctx \in BOOLEAN /\ handle \in BOOLEAN /\ fence \in BOOLEAN
    /\ cancelled \in BOOLEAN /\ aborted \in BOOLEAN /\ interrupted \in BOOLEAN
    /\ check_res \in {"none", "sat", "unsat", "unknown"}

GuardInit ==
    /\ pc = "app" /\ task = "none"
    /\ z3ctx = FALSE /\ handle = FALSE /\ fence = FALSE
    /\ cancelled = FALSE /\ aborted = FALSE /\ interrupted = FALSE
    /\ check_res = "none"

-----------------------------------------------------------------------------
(* The JS thread.                                                          *)

\* The problem is built in a new context, and the watcher spawned
Spawn ==
    /\ pc = "app"
    /\ pc' = "spawned" /\ task' = "waiting"
    /\ z3ctx' = TRUE /\ handle' = TRUE /\ fence' = TRUE
    /\ UNCHANGED <<cancelled, aborted, interrupted, check_res>>

\* The problem cannot be built: the error is thrown to JS, the context dropped
BuildError ==
    /\ pc = "app"
    /\ pc' = "done"
    /\ UNCHANGED <<task, z3ctx, handle, fence, cancelled, aborted, interrupted, check_res>>

Check ==
    /\ pc = "spawned"
    /\ pc' = "check"
    /\ UNCHANGED <<task, z3ctx, handle, fence, cancelled, aborted, interrupted, check_res>>

\* z3 takes as long as it takes, unless it is interrupted; then it mostly
\* answers "unknown"
CheckReturns ==
    /\ pc = "check"
    /\ pc' = "abort"
    /\ check_res' \in {"sat", "unsat", "unknown"}
    /\ UNCHANGED <<task, z3ctx, handle, fence, cancelled, aborted, interrupted>>

\* faulty variant: the task is left to end on its own
Abort_Forgotten ==
    /\ pc = "abort"
    /\ pc' = "recv"
    /\ UNCHANGED <<task, z3ctx, handle, fence, cancelled, aborted, interrupted, check_res>>

\* handle.abort()
Abort ==
    /\ pc = "abort"
    /\ pc' = "recv"
    /\ aborted' = TRUE
    /\ UNCHANGED <<task, z3ctx, handle, fence, cancelled, interrupted, check_res>>

\* async_fence_rx.recv() returns when the sender is gone
RecvFence ==
    /\ pc = "recv" /\ ~fence
    /\ pc' = "answer"
    /\ UNCHANGED <<task, z3ctx, handle, fence, cancelled, aborted, interrupted, check_res>>

\* The model is read, the result is set, and the context goes with the function
Answer ==
    /\ pc = "answer"
    /\ pc' = "done"
    /\ z3ctx' = FALSE
    /\ UNCHANGED <<task, handle, fence, cancelled, aborted, interrupted, check_res>>

-----------------------------------------------------------------------------
(* The watcher's future, on a thread of its own, and the request.          *)

\* The client goes away, or the request times out
CancelRequest ==
    /\ ~cancelled
    /\ cancelled' = TRUE
    /\ UNCHANGED <<pc, task, z3ctx, handle, fence, aborted, interrupted, check_res>>

\* cancel.changed() is ready; a poll that has begun may find it so even after
\* abort(), which takes effect between polls
Wake ==
    /\ task = "waiting" /\ cancelled
    /\ task' = "woken"
    /\ UNCHANGED <<pc, z3ctx, handle, fence, cancelled, aborted, interrupted, check_res>>

\* guard.handle.interrupt(); before the check begins z3 may or may not remember it
Interrupt ==
    /\ task = "woken"
    /\ task' = "dropping"
    /\ interrupted' \in IF pc = "spawned" THEN BOOLEAN ELSE {TRUE}
    /\ UNCHANGED <<pc, z3ctx, handle, fence, cancelled, aborted, check_res>>

\* The runtime finds the task aborted, and drops its future
TaskAborted ==
    /\ task = "waiting" /\ aborted
    /\ task' = "dropping"
    /\ UNCHANGED <<pc, z3ctx, handle, fence, cancelled, aborted, interrupted, check_res>>

\* Guard::drop: first the handle
DropHandle ==
    /\ task = "dropping" /\ handle
    /\ handle' = FALSE
    /\ UNCHANGED <<pc, task, z3ctx, fence, cancelled, aborted, interrupted, check_res>>

\* faulty variant: the fields are dropped in any order
DropFence_AnyOrder ==
    /\ task = "dropping" /\ fence
    /\ fence' = FALSE
    /\ task' = IF handle THEN task ELSE "gone"
    /\ UNCHANGED <<pc, z3ctx, handle, cancelled, aborted, interrupted, check_res>>

\* ... then the fence
DropFence ==
    /\ task = "dropping" /\ ~handle
    /\ fence' = FALSE /\ task' = "gone"
    /\ UNCHANGED <<pc, z3ctx, handle, cancelled, aborted, interrupted, check_res>>

-----------------------------------------------------------------------------
JsThread == Spawn \/ BuildError \/ Check \/ CheckReturns \/ Abort \/ RecvFence \/ Answer

Watcher == Wake \/ Interrupt \/ TaskAborted \/ DropHandle \/ DropFence

GuardNext == JsThread \/ Watcher \/ CancelRequest

GuardSpec == GuardInit /\ [][GuardNext]_guardVars

\* The handle never outlives its context: interrupt() and the drop of the
\* handle only ever touch memory that is there, however late the watcher runs
\* ("Ensure that `handle` is dropped before `async_fence_tx`").
HandleWithinContext == handle => z3ctx

=============================================================================

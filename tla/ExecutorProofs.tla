--------------------------- MODULE ExecutorProofs ---------------------------
(***************************************************************************)
(* Proofs about Executor, for every set of requests and tasks.             *)
(***************************************************************************)
EXTENDS Executor, TLAPS

LEMMA InitType == Init => TypeOK
<1> SUFFICES ASSUME Init PROVE TypeOK  OBVIOUS
<1>1. /\ req \in [Requests -> {"new", "entering", "waiting", "done", "failed", "dropped"}]
      /\ ctxOf \in [Requests -> Nat]
  BY DEF Init
<1>2. /\ task \in [Tasks -> {"unused", "pending", "inside", "ended", "killed"}]
      /\ owner \in [Tasks -> Requests \cup {None}]
      /\ \A t \in Tasks : task[t] = "unused"
      /\ activity \in [Requests -> SUBSET (Tasks \cup {Entry})]
  BY DEF Init
<1>3. /\ completed \subseteq Requests /\ cancelled \subseteq Requests /\ tainted \subseteq Nat
      /\ late \subseteq [req : Requests, fence : BOOLEAN]
  BY DEF Init
<1>4. /\ inside \in Enters \cup {None} /\ termPending \in BOOLEAN /\ ctx \in Nat
      /\ worker \in {"up", "entry_abort", "reset_abort"}
  BY DEF Init
<1> QED  BY <1>1, <1>2, <1>3, <1>4 DEF TypeOK

LEMMA InitIInv == Init => IInv
  BY NoneAssumption
  DEF Init, IInv, CoreInv, IdleInv, InsideOwned, WatcherSound, ContextSound, ActivityHeld,
      FailsOnlyWhenOver, ErrorIsEarly, KilledSound

\* The fields of an enter() in progress.
LEMMA EnterFields ==
    ASSUME TypeOK, inside # None
    PROVE  /\ inside \in Enters
           /\ inside.req \in Requests
           /\ inside.task \in Tasks \cup {Entry}
           /\ inside.report \in BOOLEAN
  BY DEF TypeOK, Enters

\* A record with the fields of an enter() is one, and is not None.
LEMMA EnterType ==
    ASSUME NEW r \in Requests, NEW t \in Tasks \cup {Entry},
           NEW js \in {"running", "returned", "error", "threw", "terminated"},
           NEW w \in {"armed", "grace", "fired"}, NEW b \in BOOLEAN
    PROVE  /\ [req |-> r, task |-> t, js |-> js, watch |-> w, report |-> b] \in Enters
           /\ [req |-> r, task |-> t, js |-> js, watch |-> w, report |-> b] # None
  BY NoneAssumption DEF Enters

\* Whoever takes or drops the activity of a request.
LEMMA ActivityType ==
    ASSUME TypeOK, NEW r \in Requests, NEW h \in Tasks \cup {Entry}, Hold(r, h) \/ LetGo(r, h)
    PROVE  activity' \in [Requests -> SUBSET (Tasks \cup {Entry})]
  BY DEF TypeOK, Hold, LetGo

\* A watcher that outlives its enter() has the fields of one.
LEMMA FenceType ==
    ASSUME TypeOK, inside # None, RaiseFence
    PROVE  late' \subseteq [req : Requests, fence : BOOLEAN]
<1> DEFINE S == [req : Requests, fence : BOOLEAN]
<1>1. [req |-> inside.req, fence |-> TRUE] \in S  BY EnterFields
<1>2. late \subseteq S  BY DEF TypeOK
<1>3. late' = late \/ late' = late \cup {[req |-> inside.req, fence |-> TRUE]}
  BY DEF RaiseFence
<1> HIDE DEF S
<1>4. late' \subseteq S  BY <1>1, <1>2, <1>3
<1> QED  BY <1>4 DEF S

LEMMA TypeStep == TypeOK /\ IInv /\ [Next]_vars => TypeOK'
<1> SUFFICES ASSUME TypeOK, IInv, [Next]_vars PROVE TypeOK'  OBVIOUS
<1>1. ASSUME NEW r \in Requests, Start(r) PROVE TypeOK'
  <2>1. inside' \in Enters
    <3>1. PICK js \in {"running", "error"} : Enter(r, Entry, js)
      BY <1>1 DEF Start, Invocations
    <3> QED  BY <3>1, EnterType DEF Enter
  <2>2. /\ req' \in [Requests -> {"new", "entering", "waiting", "done", "failed", "dropped"}]
        /\ ctxOf' \in [Requests -> Nat]
    BY <1>1 DEF Start, NewExecutor, Invocations, TypeOK
  <2>3. UNCHANGED <<completed, cancelled, task, owner, late, termPending, ctx, tainted, worker>>
    BY <1>1 DEF Start, NewExecutor, Invocations
  <2>4. activity' \in [Requests -> SUBSET (Tasks \cup {Entry})]
    BY <1>1, ActivityType DEF Start, NewExecutor
  <2> QED  BY <2>1, <2>2, <2>3, <2>4 DEF TypeOK
<1>2. ASSUME NEW t \in Tasks, JsSpawn(t) PROVE TypeOK'
  <2>1. inside # None /\ inside.req \in Requests  BY <1>2, EnterFields DEF JsSpawn, Running
  <2>2. activity' \in [Requests -> SUBSET (Tasks \cup {Entry})]
    BY <1>2, <2>1, ActivityType DEF JsSpawn, Current
  <2> QED  BY <1>2, <2>1, <2>2 DEF JsSpawn, Current, TypeOK
<1>3. CASE JsComplete
  BY <1>3, EnterFields DEF JsComplete, CompleteWith, Current, Running, TypeOK
<1>4. CASE JsReturn
  BY <1>4, EnterFields DEF JsReturn, Running, TypeOK, Enters
<1>5. CASE JsTerminated
  BY <1>5, EnterFields DEF JsTerminated, Running, TypeOK, Enters
<1>6. CASE WatcherWake
  BY <1>6, EnterFields DEF WatcherWake, TypeOK, Enters
<1>7. CASE WatcherFire
  BY <1>7, EnterFields DEF WatcherFire, TypeOK, Enters
<1>8. ASSUME NEW w \in late, LateWatcher(w) PROVE TypeOK'
  BY <1>8 DEF LateWatcher, TypeOK
<1>9. CASE LeaveNormally
  <2>1. late' \subseteq [req : Requests, fence : BOOLEAN]
    BY <1>9, FenceType DEF LeaveNormally
  <2>2. /\ task' \in [Tasks -> {"unused", "pending", "inside", "ended", "killed"}]
        /\ \A t \in Tasks : task'[t] # "unused" => owner[t] \in Requests
    <3>1. CASE inside.task = Entry
      BY <1>9, <3>1 DEF LeaveNormally, ReturnNone, ReturnSome, TypeOK
    <3>2. CASE inside.task # Entry
      <4>1. inside.task \in Tasks /\ task[inside.task] = "inside"
        BY <1>9, <3>2, EnterFields DEF LeaveNormally, IInv, CoreInv, InsideOwned
      <4>2. task' = [task EXCEPT ![inside.task] = "ended"]
        BY <1>9, <3>2 DEF LeaveNormally, ReturnNone, ReturnSome
      <4> QED  BY <4>1, <4>2 DEF TypeOK
    <3> QED  BY <3>1, <3>2
  <2>3. req' \in [Requests -> {"new", "entering", "waiting", "done", "failed", "dropped"}]
    BY <1>9, EnterFields DEF LeaveNormally, ReturnNone, ReturnSome, TypeOK
  <2>4. inside' \in Enters \cup {None} /\ worker' \in {"up", "entry_abort", "reset_abort"}
    BY <1>9, EnterFields DEF LeaveNormally, ReturnNone, ReturnSome, TypeOK
  <2>5. /\ ctxOf' \in [Requests -> Nat] /\ ctx' \in Nat
        /\ completed' \subseteq Requests /\ cancelled' \subseteq Requests /\ tainted' \subseteq Nat
        /\ owner' = owner /\ owner' \in [Tasks -> Requests \cup {None}]
        /\ termPending' \in BOOLEAN
    BY <1>9 DEF LeaveNormally, TypeOK
  <2>6. \A t \in Tasks : task'[t] # "unused" => owner'[t] \in Requests
    BY <2>2, <2>5
  <2>7. activity' \in [Requests -> SUBSET (Tasks \cup {Entry})]
    <3>1. LetGo(inside.req, inside.task) \/ activity' = activity
      BY <1>9 DEF LeaveNormally, ReturnNone, ReturnSome
    <3>2. inside.req \in Requests /\ inside.task \in Tasks \cup {Entry}
      BY <1>9, EnterFields DEF LeaveNormally
    <3>3. activity \in [Requests -> SUBSET (Tasks \cup {Entry})]  BY DEF TypeOK
    <3> QED  BY <3>1, <3>2, <3>3, ActivityType
  <2> QED  BY <2>1, <2>2, <2>3, <2>4, <2>5, <2>6, <2>7, Zenon DEF TypeOK
<1>10. CASE LeaveAndReset
  <2>1. late' \subseteq [req : Requests, fence : BOOLEAN]
    BY <1>10, FenceType DEF LeaveAndReset
  <2>2. /\ task' \in [Tasks -> {"unused", "pending", "inside", "ended", "killed"}]
        /\ \A t \in Tasks : task'[t] # "unused" => owner[t] \in Requests
    <3>1. CASE inside.task = Entry
      BY <1>10, <3>1 DEF LeaveAndReset, ReturnNone, TypeOK
    <3>2. CASE inside.task # Entry
      <4>1. inside.task \in Tasks /\ task[inside.task] = "inside"
        BY <1>10, <3>2, EnterFields DEF LeaveAndReset, IInv, CoreInv, InsideOwned
      <4>2. task' = [task EXCEPT ![inside.task] = "ended"]
        BY <1>10, <3>2 DEF LeaveAndReset, ReturnNone
      <4> QED  BY <4>1, <4>2 DEF TypeOK
    <3> QED  BY <3>1, <3>2
  <2>3. req' \in [Requests -> {"new", "entering", "waiting", "done", "failed", "dropped"}]
    BY <1>10, EnterFields DEF LeaveAndReset, ReturnNone, TypeOK
  <2>4. inside' \in Enters \cup {None} /\ worker' \in {"up", "entry_abort", "reset_abort"}
    BY <1>10, EnterFields DEF LeaveAndReset, ReturnNone, TypeOK
  <2>5. /\ ctxOf' \in [Requests -> Nat] /\ ctx' \in Nat
        /\ completed' \subseteq Requests /\ cancelled' \subseteq Requests /\ tainted' \subseteq Nat
        /\ owner' = owner /\ owner' \in [Tasks -> Requests \cup {None}]
        /\ termPending' \in BOOLEAN
    BY <1>10 DEF LeaveAndReset, TypeOK
  <2>6. \A t \in Tasks : task'[t] # "unused" => owner'[t] \in Requests
    BY <2>2, <2>5
  <2>7. activity' \in [Requests -> SUBSET (Tasks \cup {Entry})]
    <3>1. LetGo(inside.req, inside.task) \/ activity' = activity
      BY <1>10 DEF LeaveAndReset, ReturnNone
    <3>2. inside.req \in Requests /\ inside.task \in Tasks \cup {Entry}
      BY <1>10, EnterFields DEF LeaveAndReset
    <3>3. activity \in [Requests -> SUBSET (Tasks \cup {Entry})]  BY DEF TypeOK
    <3> QED  BY <3>1, <3>2, <3>3, ActivityType
  <2> QED  BY <2>1, <2>2, <2>3, <2>4, <2>5, <2>6, <2>7, Zenon DEF TypeOK
<1>11. CASE ResetFails
  BY <1>11 DEF ResetFails, TypeOK
<1>12. ASSUME NEW r \in Requests, Complete(r) \/ GiveUp(r) \/ DropFuture(r) PROVE TypeOK'
  BY <1>12 DEF Complete, GiveUp, DropFuture, TypeOK
<1>13. ASSUME NEW r \in Requests, Cancel(r) PROVE TypeOK'
  BY <1>13 DEF Cancel, TypeOK
<1>14. ASSUME NEW t \in Tasks, TaskResume(t) PROVE TypeOK'
  <2>1. owner[t] \in Requests  BY <1>14 DEF TaskResume, TypeOK
  <2> QED  BY <1>14, <2>1, EnterType DEF TaskResume, Enter, TypeOK
<1>15. ASSUME NEW t \in Tasks, TaskKilled(t) PROVE TypeOK'
  <2>1. owner[t] \in Requests  BY <1>15 DEF TaskKilled, TypeOK
  <2>2. activity' \in [Requests -> SUBSET (Tasks \cup {Entry})]
    BY <1>15, <2>1, ActivityType DEF TaskKilled
  <2> QED  BY <1>15, <2>2 DEF TaskKilled, TypeOK
<1>16. CASE UNCHANGED vars
  BY <1>16 DEF vars, TypeOK
<1> QED
  BY <1>1, <1>2, <1>3, <1>4, <1>5, <1>6, <1>7, <1>8, <1>9, <1>10, <1>11, <1>12, <1>13, <1>14,
     <1>15, <1>16
  DEF Next, Handler, Js, Leave, Watcher

LEMMA CoreStep == TypeOK /\ TypeOK' /\ CoreInv /\ [Next]_vars => CoreInv'
<1> SUFFICES ASSUME TypeOK, TypeOK', CoreInv, [Next]_vars PROVE CoreInv'  OBVIOUS
<1> USE DEF CoreInv
<1>1. ASSUME NEW r \in Requests, Start(r) PROVE CoreInv'
  <2> USE <1>1 DEF Start, NewExecutor, Invocations, Idle, Enter
  <2>1. PICK js \in {"running", "error"} :
            inside' = [req |-> r, task |-> Entry, js |-> js, watch |-> "armed", report |-> FALSE]
    OBVIOUS
  <2>2. InsideOwned'  BY <2>1 DEF InsideOwned, Alive, TypeOK
  <2>3. WatcherSound'  BY <2>1 DEF WatcherSound
  <2>4. ContextSound'  BY DEF ContextSound, TypeOK
  <2> QED  BY <2>2, <2>3, <2>4
<1>2. ASSUME NEW t \in Tasks, JsSpawn(t) PROVE CoreInv'
  <2> USE <1>2, EnterFields DEF JsSpawn, Current, Running
  <2>1. InsideOwned'  BY DEF InsideOwned, Alive, TypeOK
  <2>2. WatcherSound'  BY DEF WatcherSound
  <2>3. ContextSound'  BY DEF ContextSound
  <2> QED  BY <2>1, <2>2, <2>3
<1>3. CASE JsComplete
  BY <1>3 DEF JsComplete, CompleteWith, Current, Running, InsideOwned, Alive, WatcherSound,
                ContextSound
<1>4. CASE JsReturn
  <2> USE <1>4, EnterFields DEF JsReturn, Running, Enters
  <2>1. InsideOwned'  BY EntryAssumption DEF InsideOwned, Alive
  <2>2. WatcherSound'  BY NoneAssumption DEF WatcherSound
  <2>3. ContextSound'  BY DEF ContextSound
  <2> QED  BY <2>1, <2>2, <2>3
<1>5. CASE JsTerminated
  <2> USE <1>5, EnterFields DEF JsTerminated, Running
  <2>1. inside' # None  BY NoneAssumption DEF Enters
  <2>2. InsideOwned'  BY DEF InsideOwned, Alive, Enters
  <2>3. WatcherSound'  BY <2>1 DEF WatcherSound, Enters
  <2>4. ContextSound'  BY <2>1 DEF ContextSound, Enters, TypeOK
  <2> QED  BY <2>2, <2>3, <2>4
<1>6. CASE WatcherWake
  <2> USE <1>6, EnterFields DEF WatcherWake, Enters
  <2>1. inside' # None  BY NoneAssumption
  <2>2. InsideOwned'  BY DEF InsideOwned, Alive
  <2>3. WatcherSound'  BY <2>1 DEF WatcherSound
  <2>4. ContextSound'  BY <2>1 DEF ContextSound
  <2> QED  BY <2>2, <2>3, <2>4
<1>7. CASE WatcherFire
  <2> USE <1>7, EnterFields DEF WatcherFire, Enters
  <2>1. inside' # None  BY NoneAssumption
  <2>2. InsideOwned'  BY DEF InsideOwned, Alive
  <2>3. WatcherSound'  BY <2>1 DEF WatcherSound
  <2>4. ContextSound'  BY <2>1 DEF ContextSound
  <2> QED  BY <2>2, <2>3, <2>4
<1>8. ASSUME NEW w \in late, LateWatcher(w) PROVE CoreInv'
  <2> USE <1>8 DEF LateWatcher
  <2>1. InsideOwned'  BY DEF InsideOwned, Alive
  <2>2. WatcherSound'  BY DEF WatcherSound
  <2>3. ContextSound'  BY DEF ContextSound
  <2> QED  BY <2>1, <2>2, <2>3
<1>9. CASE LeaveNormally
  <2> USE <1>9 DEF LeaveNormally
  <2>1. inside.js # "terminated" /\ ~termPending /\ inside # None
    BY DEF WatcherSound
  <2>2. inside' = None /\ worker' = worker
    BY <2>1, EnterFields DEF ReturnNone, ReturnSome, InsideOwned
  <2>3. \A w \in late' : w.fence
    BY DEF RaiseFence, WatcherSound
  <2>4. InsideOwned' /\ WatcherSound'  BY <2>1, <2>2, <2>3 DEF InsideOwned, WatcherSound
  <2>5. ContextSound'  BY <2>1, <2>2 DEF ContextSound
  <2> QED  BY <2>4, <2>5
<1>10. CASE LeaveAndReset
  <2> USE <1>10 DEF LeaveAndReset
  <2>1. \A w \in late' : w.fence
    BY DEF RaiseFence, WatcherSound
  <2>2. InsideOwned'
    BY EnterFields DEF ReturnNone, InsideOwned, Alive
  <2>3. WatcherSound'  BY <2>1 DEF ReturnNone, WatcherSound
  <2>4. ContextSound'  BY DEF ContextSound, TypeOK
  <2> QED  BY <2>2, <2>3, <2>4
<1>11. CASE ResetFails
  BY <1>11 DEF ResetFails, InsideOwned, Alive, WatcherSound, ContextSound
<1>12. ASSUME NEW r \in Requests, Complete(r) \/ GiveUp(r) \/ DropFuture(r) PROVE CoreInv'
  BY <1>12 DEF Complete, GiveUp, DropFuture, Idle, InsideOwned, WatcherSound, ContextSound
<1>13. ASSUME NEW r \in Requests, Cancel(r) PROVE CoreInv'
  BY <1>13 DEF Cancel, InsideOwned, Alive, WatcherSound, ContextSound
<1>14. ASSUME NEW t \in Tasks, TaskResume(t) PROVE CoreInv'
  <2> USE <1>14 DEF TaskResume, Idle, Enter
  <2>1. InsideOwned'  BY EntryAssumption DEF InsideOwned, Alive, TypeOK
  <2>2. WatcherSound'  BY DEF WatcherSound
  <2>3. ContextSound'  BY DEF ContextSound
  <2> QED  BY <2>1, <2>2, <2>3
<1>15. ASSUME NEW t \in Tasks, TaskKilled(t) PROVE CoreInv'
  BY <1>15 DEF TaskKilled, Idle, InsideOwned, WatcherSound, ContextSound
<1>16. CASE UNCHANGED vars
  BY <1>16 DEF vars, InsideOwned, Alive, WatcherSound, ContextSound
<1> QED
  BY <1>1, <1>2, <1>3, <1>4, <1>5, <1>6, <1>7, <1>8, <1>9, <1>10, <1>11, <1>12, <1>13, <1>14,
     <1>15, <1>16
  DEF Next, Handler, Js, Leave, Watcher

\* What the futures of a request hold and how they end is not touched by a step
\* that leaves the handlers, the futures and the activity alone.
LEMMA IdleUnchanged ==
    ASSUME TypeOK, IdleInv, UNCHANGED <<req, completed, task, activity, owner>>,
           inside' # None /\ inside'.js = "error" =>
              /\ inside # None /\ inside.js = "error"
              /\ inside'.task = inside.task /\ inside'.req = inside.req
    PROVE  IdleInv'
  BY DEF IdleInv, ActivityHeld, FailsOnlyWhenOver, ErrorIsEarly, KilledSound, Alive

LEMMA IdleStep == TypeOK /\ TypeOK' /\ IInv /\ [Next]_vars => IdleInv'
<1> SUFFICES ASSUME TypeOK, TypeOK', IInv, [Next]_vars PROVE IdleInv'  OBVIOUS
<1> USE DEF IInv, IdleInv
<1>1. ASSUME NEW r \in Requests, Start(r) PROVE IdleInv'
  <2> USE <1>1 DEF Start, NewExecutor, Invocations, Idle, Enter, Hold
  <2>1. PICK js \in {"running", "error"} :
            inside' = [req |-> r, task |-> Entry, js |-> js, watch |-> "armed", report |-> FALSE]
    OBVIOUS
  <2>2. ActivityHeld'  BY DEF ActivityHeld, TypeOK
  <2>3. FailsOnlyWhenOver'  BY DEF FailsOnlyWhenOver, TypeOK
  <2>4. ErrorIsEarly'
    <3>1. \A t \in Tasks : owner[t] # r
      BY NoneAssumption DEF ErrorIsEarly, KilledSound, TypeOK
    <3> QED  BY <2>1, <3>1 DEF ErrorIsEarly, TypeOK
  <2>5. KilledSound'  BY DEF KilledSound, ErrorIsEarly, Alive, TypeOK
  <2> QED  BY <2>2, <2>3, <2>4, <2>5
<1>2. ASSUME NEW t \in Tasks, JsSpawn(t) PROVE IdleInv'
  <2> USE <1>2 DEF JsSpawn, Current, Running, Hold
  <2>1. /\ inside.req \in Requests /\ Alive(inside.req)  BY EnterFields DEF CoreInv, InsideOwned
  <2>2. ActivityHeld'  BY <2>1 DEF ActivityHeld, TypeOK
  <2>3. FailsOnlyWhenOver'  BY <2>1 DEF FailsOnlyWhenOver, Alive, TypeOK
  <2>4. ErrorIsEarly'  BY <2>1 DEF ErrorIsEarly, Alive, TypeOK
  <2>5. KilledSound'  BY <2>1 DEF KilledSound, Alive, TypeOK
  <2> QED  BY <2>2, <2>3, <2>4, <2>5
<1>3. CASE JsComplete
  <2> USE <1>3 DEF JsComplete, CompleteWith, Current, Running
  <2>1. inside.req \in Requests /\ Alive(inside.req)  BY EnterFields DEF CoreInv, InsideOwned
  <2>2. ActivityHeld' /\ KilledSound'  BY DEF ActivityHeld, KilledSound, Alive
  <2>3. FailsOnlyWhenOver'  BY <2>1 DEF FailsOnlyWhenOver, Alive
  <2>4. ErrorIsEarly'  BY <2>1 DEF ErrorIsEarly, Alive
  <2> QED  BY <2>2, <2>3, <2>4
<1>4. CASE JsReturn \/ JsTerminated
  BY <1>4, EnterFields, IdleUnchanged DEF JsReturn, JsTerminated, Running, Enters
<1>5. CASE WatcherWake \/ WatcherFire
  BY <1>5, EnterFields, IdleUnchanged DEF WatcherWake, WatcherFire, Enters
<1>6. ASSUME NEW w \in late, LateWatcher(w) PROVE IdleInv'
  BY <1>6, IdleUnchanged DEF LateWatcher
<1>7. CASE ResetFails \/ UNCHANGED vars
  BY <1>7, IdleUnchanged DEF ResetFails, vars
<1>8. CASE LeaveNormally \/ LeaveAndReset
  <2>1. /\ inside # None /\ UNCHANGED <<completed, owner>>
        /\ ReturnNone \/ (ReturnSome /\ LeaveNormally)
    BY <1>8 DEF LeaveNormally, LeaveAndReset
  <2>2. CASE inside' = inside /\ UNCHANGED <<req, task, activity>>
    BY <2>1, <2>2, IdleUnchanged
  <2>3. CASE inside.task # Entry
    <3>1. /\ inside' = None /\ req' = req
          /\ task' = [task EXCEPT ![inside.task] = "ended"]
          /\ activity' = [activity EXCEPT ![inside.req] = @ \ {inside.task}]
      BY <2>1, <2>3 DEF ReturnNone, ReturnSome, LetGo
    <3>2. /\ inside.task \in Tasks /\ inside.req \in Requests
          /\ owner[inside.task] = inside.req /\ Alive(inside.req)
          /\ task[inside.task] = "inside"
      BY <2>1, <2>3, EnterFields DEF CoreInv, InsideOwned
    <3>3. ActivityHeld'
      BY <2>1, <3>1, <3>2, EntryAssumption DEF ActivityHeld, TypeOK
    <3>4. FailsOnlyWhenOver'
      BY <2>1, <3>1, <3>2 DEF FailsOnlyWhenOver, TypeOK
    <3>5. ErrorIsEarly'
      BY <2>1, <3>1, <3>2 DEF ErrorIsEarly, Alive, TypeOK
    <3>6. KilledSound'
      BY <2>1, <3>1, <3>2 DEF KilledSound, Alive, TypeOK
    <3> QED  BY <3>3, <3>4, <3>5, <3>6
  <2>4. CASE inside.task = Entry /\ inside' = None
    <3>1. /\ ReturnSome
          /\ req' = [req EXCEPT ![inside.req] = IF inside.js = "error" THEN "failed" ELSE "waiting"]
          /\ task' = task
          /\ activity' = [activity EXCEPT ![inside.req] = @ \ {Entry}]
      BY <2>1, <2>4 DEF ReturnNone, ReturnSome, LetGo
    <3>2. inside.req \in Requests /\ req[inside.req] = "entering"
      BY <2>1, <2>4, EnterFields DEF CoreInv, InsideOwned
    <3>3. ActivityHeld'
      BY <2>1, <3>1, <3>2, EntryAssumption DEF ActivityHeld, TypeOK
    <3>4. FailsOnlyWhenOver'
      BY <2>1, <3>1, <3>2 DEF FailsOnlyWhenOver, ErrorIsEarly, TypeOK
    <3>5. ErrorIsEarly'
      BY <2>1, <2>4, <3>1, <3>2 DEF ErrorIsEarly, TypeOK
    <3>6. KilledSound'
      <4>1. ASSUME NEW t \in Tasks, task[t] = "killed" PROVE owner[t] # inside.req
        BY <3>2, <4>1 DEF KilledSound, Alive
      <4> QED  BY <2>1, <3>1, <3>2, <4>1 DEF KilledSound, Alive, TypeOK
    <3> QED  BY <3>3, <3>4, <3>5, <3>6
  <2>5. inside.task = Entry => inside' = None \/ (inside' = inside /\ UNCHANGED <<req, task, activity>>)
    BY <2>1 DEF ReturnNone, ReturnSome
  <2> QED  BY <2>2, <2>3, <2>4, <2>5
<1>9. ASSUME NEW r \in Requests, Complete(r) \/ GiveUp(r) \/ DropFuture(r) PROVE IdleInv'
  <2> USE <1>9 DEF Complete, GiveUp, DropFuture, Idle
  <2>1. ActivityHeld'  BY DEF ActivityHeld, TypeOK
  <2>2. FailsOnlyWhenOver'
    <3>1. ASSUME GiveUp(r), NEW t \in Tasks, owner[t] = r PROVE task[t] = "ended"
      <4>1. task[t] \notin {"pending", "inside"}
        BY <3>1 DEF Active, ActivityHeld
      <4>2. task[t] \notin {"unused", "killed"}
        BY <3>1, NoneAssumption DEF KilledSound, Alive
      <4> QED  BY <4>1, <4>2 DEF TypeOK
    <3> QED  BY <3>1 DEF FailsOnlyWhenOver, TypeOK
  <2>3. ErrorIsEarly'  BY DEF ErrorIsEarly, TypeOK
  <2>4. KilledSound'  BY DEF KilledSound, Alive, TypeOK
  <2> QED  BY <2>1, <2>2, <2>3, <2>4
<1>10. ASSUME NEW r \in Requests, Cancel(r) PROVE IdleInv'
  BY <1>10, IdleUnchanged DEF Cancel
<1>11. ASSUME NEW t \in Tasks, TaskResume(t) PROVE IdleInv'
  <2> USE <1>11 DEF TaskResume, Idle, Enter
  <2>1. owner[t] \in Requests  BY DEF TypeOK
  <2>2. ActivityHeld'  BY DEF ActivityHeld, TypeOK
  <2>3. FailsOnlyWhenOver'  BY DEF FailsOnlyWhenOver, Alive, TypeOK
  <2>4. ErrorIsEarly'  BY DEF ErrorIsEarly, Alive, TypeOK
  <2>5. KilledSound'  BY DEF KilledSound, Alive, TypeOK
  <2> QED  BY <2>2, <2>3, <2>4, <2>5
<1>12. ASSUME NEW t \in Tasks, TaskKilled(t) PROVE IdleInv'
  <2> USE <1>12 DEF TaskKilled, Idle, LetGo
  <2>1. owner[t] \in Requests  BY DEF TypeOK
  <2>2. ActivityHeld'  BY <2>1, EntryAssumption DEF ActivityHeld, TypeOK
  <2>3. FailsOnlyWhenOver'  BY <2>1 DEF FailsOnlyWhenOver, Alive, TypeOK
  <2>4. ErrorIsEarly'  BY <2>1 DEF ErrorIsEarly, Alive, TypeOK
  <2>5. KilledSound'  BY <2>1 DEF KilledSound, Alive, TypeOK
  <2> QED  BY <2>2, <2>3, <2>4, <2>5
<1> QED
  BY <1>1, <1>2, <1>3, <1>4, <1>5, <1>6, <1>7, <1>8, <1>9, <1>10, <1>11, <1>12
  DEF Next, Handler, Js, Leave, Watcher

LEMMA Inductive == Spec => [](TypeOK /\ IInv)
<1>1. TypeOK /\ IInv /\ [Next]_vars => (TypeOK /\ IInv)'  BY TypeStep, CoreStep, IdleStep DEF IInv
<1> QED  BY InitType, InitIInv, <1>1, PTL DEF Spec

\* The state of a worker is well typed.
THEOREM TypeCorrect == Spec => []TypeOK
  BY Inductive, PTL

\* The fence keeps a late watcher from terminating the JS of a later request.
THEOREM FenceHolds == Spec => []NoStrayTermination
<1>1. IInv => NoStrayTermination  BY DEF IInv, CoreInv, WatcherSound, NoStrayTermination
<1> QED  BY Inductive, <1>1, PTL

\* Whoever was not cancelled is neither terminated nor takes the worker down.
THEOREM OnlyCancelledHit == Spec => []OnlyCancelledIsHit
<1>1. IInv => OnlyCancelledIsHit  BY DEF IInv, CoreInv, WatcherSound, OnlyCancelledIsHit
<1> QED  BY Inductive, <1>1, PTL

\* No JS runs for a request whose handler is gone, and spawn() always finds the
\* activity of the request whose JS calls it.
THEOREM JsStaysWithinRequest == Spec => []JsWithinRequest
<1>1. TypeOK /\ IInv => JsWithinRequest
  BY EnterFields DEF IInv, CoreInv, IdleInv, InsideOwned, ActivityHeld, JsWithinRequest, Active
<1> QED  BY Inductive, <1>1, PTL

\* New requests get a context in which nothing was terminated.
THEOREM FreshContexts == Spec => []FreshContextForNewRequests
<1>1. TypeOK /\ IInv => FreshContextForNewRequests
  BY DEF IInv, CoreInv, ContextSound, FreshContextForNewRequests, Idle, TypeOK
<1> QED  BY Inductive, <1>1, PTL

\* A request that fails was not completed, will not be, and none of its futures
\* was or will be cut off: each had run to its end.
THEOREM FailedWasOver == Spec => []FailsOnlyWhenOver
<1>1. IInv => FailsOnlyWhenOver  BY DEF IInv, IdleInv
<1> QED  BY Inductive, <1>1, PTL

=============================================================================

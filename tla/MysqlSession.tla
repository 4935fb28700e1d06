---------------------------- MODULE MysqlSession ----------------------------
(***************************************************************************)
(* App.mysql of one database (api/mysql.rs, jsland/src/mysql.ts): the      *)
(* requests of a worker share a connection pool.  A call is a future of    *)
(* its own, and every request has one session behind a fair mutex, so its  *)
(* calls run one at a time, in the order of their futures' first polls.  A *)
(* session holds a plain connection from its first statement outside a     *)
(* transaction on, and one more while a transaction is open; both go back  *)
(* to the pool when the request ends, wherever its calls are.              *)
(*                                                                         *)
(* The pool and the database are external: a pool hands out at most Max    *)
(* connections, first come first served; a transaction whose connection    *)
(* is given back uncommitted is rolled back; a commit, or a statement      *)
(* outside a transaction, that fails or is cut off may have been applied.  *)
(* A statement that fails in a transaction undoes itself, or, as the       *)
(* victim of a deadlock, all of the transaction: of that nothing tells the *)
(* session, whose next statements are then transactions of their own.      *)
(***************************************************************************)
EXTENDS Naturals, Sequences, FiniteSets

CONSTANTS
    Requests,   \* the executors of a worker
    Max,        \* connections of the pool
    MaxCalls,   \* bound on the calls of each request
    MaxPending  \* bound on the calls of a request that are not done

ASSUME MaxAssumption == Max \in Nat \ {0}

VARIABLES
    live,       \* requests whose executor exists
    spawned,    \* futures of calls that were not polled yet
    todo,       \* calls waiting for the session's mutex; the head has it
    conn,       \* sessions that hold a plain connection
    txn,        \* ExecutorMysqlState.txn: the call that opened it, or 0
    gone,       \* sessions whose transaction the database has rolled back
    free,       \* connections of the pool nobody holds
    waiters,    \* requests waiting for a connection
    log,        \* history: the calls that are done, and in which transaction
    applied     \* statements whose effect is in the database

vars == <<live, spawned, todo, conn, txn, gone, free, waiters, log, applied>>

Calls == {"exec", "start", "commit", "rollback"}

TypeOK ==
    /\ live \subseteq Requests
    /\ spawned \in [Requests -> Seq([n : Nat, call : Calls])]
    /\ todo \in [Requests -> Seq([n : Nat, call : Calls])]
    /\ conn \subseteq Requests
    /\ txn \in [Requests -> Nat]
    /\ gone \subseteq Requests
    /\ free \in 0..Max
    /\ waiters \in Seq(Requests)
    /\ log \in [Requests -> 
             SUBSET [n : Nat, call : Calls, txn : Nat, ok : BOOLEAN, alone : BOOLEAN]]
    /\ applied \subseteq Requests \X Nat

Init ==
    /\ live = Requests
    /\ spawned = [r \in Requests |-> <<>>]
    /\ todo = [r \in Requests |-> <<>>]
    /\ conn = {}
    /\ txn = [r \in Requests |-> 0]
    /\ gone = {}
    /\ free = Max
    /\ waiters = <<>>
    /\ log = [r \in Requests |-> {}]
    /\ applied = {}

Pending(r) == Len(todo[r]) + Len(spawned[r])

Issued(r) == Cardinality(log[r]) + Pending(r)

Waiting(r) == \E i \in 1..Len(waiters) : waiters[i] = r

\* The call that has the mutex, and is not waiting for a connection
Running(r, call) ==
    r \in live /\ todo[r] # <<>> /\ Head(todo[r]).call = call /\ ~Waiting(r)

\* The statements that took effect in the transaction that call t opened, and
\* are part of it as the database has it
Statements(r, t) ==
    {e.n : e \in {x \in log[r] : x.call = "exec" /\ x.txn = t /\ x.ok /\ ~x.alone}}

\* The call returns: its callback is called and the mutex goes to the next one
Done(r, ok) ==
    /\ todo' = [todo EXCEPT ![r] = Tail(@)]
    /\ log' = [log EXCEPT ![r] = @ \cup
                 {[n |-> Head(todo[r]).n, call |-> Head(todo[r]).call, txn |-> txn[r], ok |-> ok,
                   alone |-> r \in gone]}]

\* The statement of the call that returns is a transaction of its own
Autocommit(r) ==
    \/ Done(r, TRUE) /\ applied' = applied \cup {<<r, Head(todo[r]).n>>}
    \/ Done(r, FALSE) /\ applied' \in {applied, applied \cup {<<r, Head(todo[r]).n>>}}

-----------------------------------------------------------------------------
(* Faulty variants of the operations below, for the properties to reject.  *)

\* the future spawned last is polled first, as a LIFO slot of a scheduler would
Poll_Lifo(r) ==
    /\ spawned[r] # <<>>
    /\ LET n == Len(spawned[r])
       IN  /\ todo' = [todo EXCEPT ![r] = Append(@, spawned[r][n])]
           /\ spawned' = [spawned EXCEPT ![r] = SubSeq(@, 1, n - 1)]
    /\ UNCHANGED <<live, conn, txn, gone, free, waiters, log, applied>>

\* statements go over the plain connection while a transaction is open
ExecTxn_PlainConn(r) ==
    /\ Running(r, "exec") /\ txn[r] # 0
    /\ Autocommit(r)
    /\ UNCHANGED <<live, spawned, conn, txn, gone, free, waiters>>

\* connections of a session that is cut off are not given back
Release_IdleOnly(r) ==
    free' = free + IF todo[r] # <<>> THEN 0
                   ELSE Cardinality(conn \cap {r}) + (IF txn[r] = 0 THEN 0 ELSE 1)

-----------------------------------------------------------------------------
(* The session of a request.                                               *)

\* mysql.exec, startTransaction, commit and rollback called by JS: spawn_local
\* queues a future
Issue(r, call) ==
    /\ r \in live /\ Issued(r) < MaxCalls[r] /\ Pending(r) < MaxPending
    /\ spawned' = [spawned EXCEPT ![r] = Append(@, [n |-> Issued(r) + 1, call |-> call])]
    /\ UNCHANGED <<live, todo, conn, txn, gone, free, waiters, log, applied>>

\* A future is polled, in the order of the LocalSet's queue; get_mysql_state
\* does not wait before it has queued for the session's mutex
Poll(r) ==
    /\ spawned[r] # <<>>
    /\ todo' = [todo EXCEPT ![r] = Append(@, Head(spawned[r]))]
    /\ spawned' = [spawned EXCEPT ![r] = Tail(@)]
    /\ UNCHANGED <<live, conn, txn, gone, free, waiters, log, applied>>

\* run_mysql with a transaction: txn.exec_iter.  An error takes the statement
\* or all of the transaction back, and x.txn stays either way
ExecTxn(r) ==
    /\ Running(r, "exec") /\ txn[r] # 0 /\ r \notin gone
    /\ \/ Done(r, TRUE) /\ UNCHANGED gone
       \/ Done(r, FALSE) /\ gone' \in {gone, gone \cup {r}}
    /\ UNCHANGED <<live, spawned, conn, txn, free, waiters, applied>>

\* ... whose connection is in no transaction any more
ExecGone(r) ==
    /\ Running(r, "exec") /\ r \in gone
    /\ Autocommit(r)
    /\ UNCHANGED <<live, spawned, conn, txn, gone, free, waiters>>

\* ... and without one, once ensure_conn has a connection
ExecConn(r) ==
    /\ Running(r, "exec") /\ txn[r] = 0 /\ r \in conn
    /\ Autocommit(r)
    /\ UNCHANGED <<live, spawned, conn, txn, gone, free, waiters>>

\* pool.get_conn of ensure_conn, or of pool.start_transaction, which does not
\* look at the connections the session has
GetConn(r) ==
    /\ Running(r, "start") \/ (Running(r, "exec") /\ txn[r] = 0 /\ r \notin conn)
    /\ waiters' = Append(waiters, r)
    /\ UNCHANGED <<live, spawned, todo, conn, txn, gone, free, log, applied>>

\* ensure_conn has its connection
GrantConn(r) ==
    /\ waiters # <<>> /\ Head(waiters) = r /\ Head(todo[r]).call = "exec" /\ free > 0
    /\ waiters' = Tail(waiters)
    /\ free' = free - 1
    /\ conn' = conn \cup {r}
    /\ UNCHANGED <<live, spawned, todo, txn, gone, log, applied>>

\* start_transaction has its connection and has sent START TRANSACTION: the
\* transaction that was open, if any, is dropped, which rolls it back
GrantTxn(r) ==
    /\ waiters # <<>> /\ Head(waiters) = r /\ Head(todo[r]).call = "start" /\ free > 0
    /\ waiters' = Tail(waiters)
    /\ Done(r, TRUE)
    /\ txn' = [txn EXCEPT ![r] = Head(todo[r]).n]
    /\ gone' = gone \ {r}
    /\ free' = IF txn[r] = 0 THEN free - 1 ELSE free
    /\ UNCHANGED <<live, spawned, conn, applied>>

\* No connection can be made, or START TRANSACTION fails: the session is left
\* as it was
ConnError(r) ==
    /\ waiters # <<>> /\ Head(waiters) = r
    /\ waiters' = Tail(waiters)
    /\ Done(r, FALSE)
    /\ UNCHANGED <<live, spawned, conn, txn, gone, free, applied>>

\* end_transaction: txn.take(), then COMMIT or ROLLBACK; whatever the answer,
\* the session is out of the transaction.  A COMMIT finds nothing to commit in a
\* transaction the database has rolled back, and is answered as any other
EndTxn(r) ==
    \E call \in {"commit", "rollback"}, ok \in BOOLEAN :
        /\ Running(r, call) /\ txn[r] # 0
        /\ Done(r, ok)
        /\ txn' = [txn EXCEPT ![r] = 0]
        /\ gone' = gone \ {r}
        /\ free' = free + 1
        /\ LET all == applied \cup ({r} \X Statements(r, txn[r]))
           IN  applied' \in IF call = "rollback" \/ r \in gone THEN {applied}
                            ELSE IF ok THEN {all} ELSE {applied, all}
        /\ UNCHANGED <<live, spawned, conn, waiters>>

\* ... without a transaction it answers Ok
EndNothing(r) ==
    /\ Running(r, "commit") \/ Running(r, "rollback")
    /\ txn[r] = 0
    /\ Done(r, TRUE)
    /\ UNCHANGED <<live, spawned, conn, txn, gone, free, waiters, applied>>

-----------------------------------------------------------------------------
(* The end of a request.                                                   *)

\* The session's connections are dropped, into the pool
Release(r) ==
    free' = free + Cardinality(conn \cap {r}) + (IF txn[r] = 0 THEN 0 ELSE 1)

\* What the call that is cut off may have done before
CutOff(r) ==
    IF Running(r, "commit") /\ txn[r] # 0 /\ r \notin gone
    THEN {{}, {r} \X Statements(r, txn[r])}
    ELSE IF Running(r, "exec") /\ (r \in gone \/ (txn[r] = 0 /\ r \in conn))
    THEN {{}, {<<r, Head(todo[r]).n>>}}
    ELSE {{}}

\* A request that is dropped while it waits for a connection leaves the line
Without(s, r) ==
    IF \E i \in 1..Len(s) : s[i] = r
    THEN LET i == CHOOSE i \in 1..Len(s) : s[i] = r
         IN  SubSeq(s, 1, i - 1) \o SubSeq(s, i + 1, Len(s))
    ELSE s

\* The executor is dropped: its futures are killed where they are, and the
\* session goes with them
End(r) ==
    /\ r \in live
    /\ live' = live \ {r}
    /\ \E s \in CutOff(r) : applied' = applied \cup s
    /\ Release(r)
    /\ conn' = conn \ {r}
    /\ txn' = [txn EXCEPT ![r] = 0]
    /\ gone' = gone \ {r}
    /\ spawned' = [spawned EXCEPT ![r] = <<>>]
    /\ todo' = [todo EXCEPT ![r] = <<>>]
    /\ waiters' = Without(waiters, r)
    /\ UNCHANGED log

-----------------------------------------------------------------------------
Grant(r) == GrantConn(r) \/ GrantTxn(r)

Run(r) ==
    ExecTxn(r) \/ ExecGone(r) \/ ExecConn(r) \/ GetConn(r) \/ EndTxn(r) \/ EndNothing(r)

Next ==
    \E r \in Requests :
        \/ \E call \in Calls : Issue(r, call)
        \/ Poll(r) \/ Run(r) \/ Grant(r) \/ ConnError(r) \/ End(r)

Idle(r) == Pending(r) = 0

(***************************************************************************)
(* Futures are polled, the database answers, the pool hands out what it   *)
(* has, and a request none of whose calls is pending ends sooner or later. *)
(***************************************************************************)
Fairness ==
    \A r \in Requests :
        /\ WF_vars(Poll(r)) /\ WF_vars(Run(r)) /\ WF_vars(Grant(r))
        /\ WF_vars(Idle(r) /\ End(r))

Spec == Init /\ [][Next]_vars

FairSpec == Spec /\ Fairness

-----------------------------------------------------------------------------
(* Properties.                                                             *)

\* The transaction that is open at call n of a request, told from the calls
\* issued before it
OpenAt(r, n) ==
    LET before == {e \in log[r] : e.n < n}
        opened == {s \in before : s.call = "start" /\ s.ok
                     /\ \A e \in before : e.n > s.n => e.call = "exec" \/ (e.call = "start" /\ ~e.ok)}
    IN  IF opened = {} THEN 0 ELSE (CHOOSE s \in opened : TRUE).n

\* A statement runs in the transaction that was open when JS issued it, or in
\* none, although JS need not await one call before the next and calls fail.
RunsWhereIssued ==
    \A r \in Requests : \A e \in log[r] : e.call = "exec" => e.txn = OpenAt(r, e.n)

\* Transactions are all or nothing, whatever fails and wherever the request is
\* cut off.  What took effect in a transaction is without effect if commit() was
\* never called, if rollback() was, or if the database has rolled it back on its
\* own, whatever commit() answers then.  A commit() that answers Ok has committed
\* every statement since startTransaction(), provided none of them has failed.
AllOrNothing ==
    \A r \in Requests : \A s \in {e \in log[r] : e.call = "start" /\ e.ok} :
        LET during == {e \in log[r] : e.txn = s.n /\ e.call # "start"}
            execs  == {e \in during : e.call = "exec"}
            within == {r} \X Statements(r, s.n)
            Ended(call) == \E e \in during : e.call = call
        IN  /\ within \subseteq applied \/ within \cap applied = {}
            /\ \/ r \in live /\ ~Ended("commit") /\ ~Ended("rollback")
               \/ Ended("rollback")
               \/ \E e \in during : e.alone
               => within \cap applied = {}
            /\ (\A e \in execs : e.ok) /\ (\E e \in during : e.call = "commit" /\ e.ok)
               => \A e \in execs : <<r, e.n>> \in applied

\* Connections held by requests that wait for another one
Jam ==
    Max = Cardinality({r \in conn : Waiting(r)})
            + Cardinality({r \in Requests : txn[r] # 0 /\ Waiting(r)})

\* A call ends, its request with it, or the pool is jammed: every connection
\* is held by a request that itself waits for another one.  Nothing else makes
\* a call wait for ever; in particular no connection is ever lost.
OnlyAJamHangs == \A r \in Requests : ~Idle(r) ~> (Idle(r) \/ Jam)

=============================================================================

------------------------- MODULE MysqlSessionProofs -------------------------
(***************************************************************************)
(* Proofs about MysqlSession, for any number of requests, of calls and of  *)
(* connections in the pool.                                                *)
(***************************************************************************)
EXTENDS MysqlSession, FiniteSetTheorems, SequenceTheorems, TLAPS

Entries == [n : Nat, call : Calls, txn : Nat, ok : BOOLEAN, alone : BOOLEAN]
Call == [n : Nat, call : Calls]

-----------------------------------------------------------------------------
(* The inductive invariant.                                                *)

\* The calls of a request that are done
Last(r) == Cardinality(log[r])

\* Calls are numbered as they were issued, and done in that order.
NumberInv ==
    \A r \in Requests :
        /\ IsFiniteSet(log[r])
        /\ \A e \in log[r] : e.n \in 1..Last(r)
        /\ \A e, f \in log[r] : e.n = f.n => e = f
        /\ \A i \in 1..Len(todo[r]) : todo[r][i].n = Last(r) + i
        /\ \A i \in 1..Len(spawned[r]) : spawned[r][i].n = Last(r) + Len(todo[r]) + i

\* Nothing is left of a request that has ended.
EndedInv ==
    /\ conn \subseteq live
    /\ \A r \in Requests :
          r \notin live => todo[r] = <<>> /\ spawned[r] = <<>> /\ txn[r] = 0

\* Who waits for a connection needs it
InLine(r) ==
    /\ r \in live /\ todo[r] # <<>>
    /\ \/ Head(todo[r]).call = "start"
       \/ Head(todo[r]).call = "exec" /\ txn[r] = 0 /\ r \notin conn

\* A request waits for one connection at a time, for the sake of a call.
WaitInv ==
    /\ \A i \in 1..Len(waiters) : InLine(waiters[i])
    /\ \A i, j \in 1..Len(waiters) : waiters[i] = waiters[j] => i = j

InTxn == {r \in Requests : txn[r] # 0}

\* Every connection is free, a session's plain one, or one of a transaction.
PoolInv ==
    /\ IsFiniteSet(conn) /\ IsFiniteSet(InTxn)
    /\ free + Cardinality(conn) + Cardinality(InTxn) = Max

\* The transaction a session is in is the one its calls have opened.
OpenInv ==
    \A r \in Requests : r \in live => txn[r] = OpenAt(r, Last(r) + 1)

\* A transaction that was committed or rolled back is not entered again.
TxnInv ==
    \A r \in Requests :
        /\ txn[r] <= Last(r)
        /\ \A e \in log[r] :
              /\ e.txn < e.n
              /\ e.call \in {"commit", "rollback"} /\ e.txn # 0 => txn[r] # e.txn

\* A transaction the database has rolled back on its own has a statement that
\* failed, and is the session's until JS ends it.
GoneInv ==
    \A r \in Requests :
        /\ r \in gone =>
              txn[r] # 0 /\ \E f \in log[r] : f.call = "exec" /\ f.txn = txn[r] /\ ~f.ok
        /\ \A e \in log[r] :
              e.alone =>
                 /\ e.txn # 0
                 /\ \E f \in log[r] : f.call = "exec" /\ f.txn = e.txn /\ ~f.ok
                 /\ e.txn = txn[r] => r \in gone

TxnStmts(r) == {e \in log[r] : e.call = "exec" /\ e.txn # 0 /\ e.ok /\ ~e.alone}

\* What is in the database, statement by statement.
EffectInv ==
    /\ \A r \in live : \A n \in Nat : <<r, n>> \in applied => n <= Last(r)
    /\ \A r \in Requests :
          /\ \A e, f \in TxnStmts(r) :
                e.txn = f.txn /\ <<r, e.n>> \in applied => <<r, f.n>> \in applied
          /\ \A e \in TxnStmts(r), c \in log[r] :
                c.txn = e.txn =>
                   /\ c.call = "commit" /\ c.ok /\ ~c.alone => <<r, e.n>> \in applied
                   /\ c.call = "rollback" \/ c.alone => <<r, e.n>> \notin applied
          /\ r \in live =>
                \A e \in TxnStmts(r) :
                   <<r, e.n>> \in applied =>
                      \E c \in log[r] : c.call \in {"commit", "rollback"} /\ c.txn = e.txn

IInv ==
    /\ TypeOK
    /\ NumberInv
    /\ EndedInv
    /\ WaitInv
    /\ PoolInv
    /\ OpenInv
    /\ TxnInv
    /\ RunsWhereIssued
    /\ GoneInv
    /\ EffectInv

-----------------------------------------------------------------------------
(* Lemmas.                                                                 *)

\* OpenAt, of a set of calls
Before(calls, n) == {e \in calls : e.n < n}

Opened(before) ==
    {s \in before : s.call = "start" /\ s.ok
        /\ \A e \in before : e.n > s.n => e.call = "exec" \/ (e.call = "start" /\ ~e.ok)}

NumberOf(opened) == IF opened = {} THEN 0 ELSE (CHOOSE s \in opened : TRUE).n

OpenIn(calls, n) == NumberOf(Opened(Before(calls, n)))

LEMMA OpenAtIsOpenIn == \A r, n : OpenAt(r, n) = OpenIn(log[r], n)
BY DEF OpenAt, OpenIn, NumberOf, Opened, Before

\* Calls issued later do not change what was open.
LEMMA LaterCalls ==
    ASSUME NEW calls \in SUBSET Entries, NEW e \in Entries, NEW n \in Nat, n <= e.n
    PROVE  OpenIn(calls \cup {e}, n) = OpenIn(calls, n)
<1>1. Before(calls \cup {e}, n) = Before(calls, n)
  BY DEF Entries, Before
<1> QED
  BY <1>1 DEF OpenIn

\* What is open after one more call.
LEMMA NextCall ==
    ASSUME NEW calls \in SUBSET Entries, NEW k \in Nat,
           NEW e \in Entries, e.n = k + 1,
           \A x \in calls : x.n <= k
    PROVE  OpenIn(calls \cup {e}, k + 2) =
              IF e.call = "start" /\ e.ok THEN k + 1
              ELSE IF e.call \in {"exec", "start"} THEN OpenIn(calls, k + 1)
              ELSE 0
<1> DEFINE After(s, set) ==
        \A x \in set : x.n > s.n => x.call = "exec" \/ (x.call = "start" /\ ~x.ok)
    all == calls \cup {e}
<1>1. Before(all, k + 2) = all /\ Before(calls, k + 1) = calls
  <2>1. \A x \in calls : x.n < k + 2 /\ x.n < k + 1
    BY DEF Entries
  <2>2. e.n < k + 2
    OBVIOUS
  <2> QED
    BY <2>1, <2>2 DEF Before
<1>2. /\ OpenIn(all, k + 2) = NumberOf(Opened(all))
      /\ OpenIn(calls, k + 1) = NumberOf(Opened(calls))
  BY <1>1 DEF OpenIn
<1>3. \A s \in calls : e.n > s.n /\ ~(s.n > e.n)
  BY DEF Entries
<1>4. e.call \in Calls /\ e.ok \in BOOLEAN /\ ~(e.n > e.n)
  BY DEF Entries
<1>5. CASE e.call = "start" /\ e.ok
  <2>1. Opened(all) = {e}
    <3>1. \A s \in calls : ~After(s, all)
      BY <1>3, <1>5
    <3>2. After(e, all)
      BY <1>3, <1>4
    <3> QED
      BY <3>1, <3>2, <1>5 DEF Opened
  <2>2. NumberOf({e}) = e.n
    BY DEF NumberOf
  <2> QED
    BY <1>2, <1>5, <2>1, <2>2
<1>6. CASE ~(e.call = "start" /\ e.ok) /\ e.call \in {"exec", "start"}
  <2>1. \A s \in calls : After(s, all) <=> After(s, calls)
    BY <1>6
  <2>2. Opened(all) = Opened(calls)
    BY <2>1, <1>6 DEF Opened
  <2> QED
    BY <1>2, <1>6, <2>2
<1>7. CASE e.call \notin {"exec", "start"}
  <2>1. \A s \in calls : ~After(s, all)
    BY <1>3, <1>7
  <2>2. Opened(all) = {}
    BY <2>1, <1>7 DEF Opened
  <2> QED
    BY <1>2, <1>7, <2>2 DEF NumberOf
<1> QED
  BY <1>4, <1>5, <1>6, <1>7

\* What is left of the line of waiting requests.
LEMMA WithoutFacts ==
    ASSUME NEW S, NEW s \in Seq(S), NEW r,
           \A i, j \in 1..Len(s) : s[i] = s[j] => i = j
    PROVE  /\ Without(s, r) \in Seq(S)
           /\ \A i \in 1..Len(Without(s, r)) :
                 /\ Without(s, r)[i] # r
                 /\ \E j \in 1..Len(s) : Without(s, r)[i] = s[j]
           /\ \A i, j \in 1..Len(Without(s, r)) :
                 Without(s, r)[i] = Without(s, r)[j] => i = j
<1>1. CASE ~\E i \in 1..Len(s) : s[i] = r
  BY <1>1 DEF Without
<1>2. CASE \E i \in 1..Len(s) : s[i] = r
  <2> DEFINE k == CHOOSE i \in 1..Len(s) : s[i] = r
      left == SubSeq(s, 1, k - 1)
      right == SubSeq(s, k + 1, Len(s))
      w == left \o right
  <2>1. k \in 1..Len(s) /\ s[k] = r
    BY <1>2
  <2>2. Without(s, r) = w
    BY <1>2 DEF Without
  <2> HIDE DEF k
  <2>3. /\ left \in Seq(S) /\ Len(left) = k - 1
        /\ \A i \in 1..(k - 1) : left[i] = s[i]
    BY <2>1, SubSeqProperties
  <2>4. /\ right \in Seq(S) /\ Len(right) = Len(s) - k
        /\ \A i \in 1..(Len(s) - k) : right[i] = s[k + i]
    <3>1. Len(s) \in Nat /\ k + 1 \in 1..(Len(s) + 1) /\ Len(s) \in (k + 1 - 1)..Len(s)
      BY <2>1
    <3>2. /\ right \in Seq(S)
          /\ Len(right) = Len(s) - (k + 1) + 1
          /\ \A i \in 1..(Len(s) - (k + 1) + 1) : right[i] = s[k + 1 + i - 1]
      BY <3>1, <2>1
    <3> QED
      BY <3>1, <3>2, <2>1
  <2> HIDE DEF left, right
  <2>5. w \in Seq(S) /\ Len(w) = Len(s) - 1
    BY <2>1, <2>3, <2>4
  <2>6. \A i \in 1..Len(w) : w[i] = s[IF i < k THEN i ELSE i + 1]
    BY <2>1, <2>3, <2>4, <2>5
  <2>7. \A i \in 1..Len(w) : /\ (IF i < k THEN i ELSE i + 1) \in 1..Len(s)
                             /\ (IF i < k THEN i ELSE i + 1) # k
    BY <2>1, <2>5
  <2> HIDE DEF w
  <2>8. \A i \in 1..Len(w) : w[i] # r
    BY <2>1, <2>6, <2>7
  <2>9. \A i, j \in 1..Len(w) : w[i] = w[j] => i = j
    BY <2>1, <2>5, <2>6, <2>7
  <2> QED
    BY <2>2, <2>5, <2>6, <2>7, <2>8, <2>9
<1> QED
  BY <1>1, <1>2

-----------------------------------------------------------------------------
(* A call that returns.                                                    *)

Entry(r, ok) ==
    [n |-> Head(todo[r]).n, call |-> Head(todo[r]).call, txn |-> txn[r], ok |-> ok,
     alone |-> r \in gone]

LEMMA HeadFacts ==
    ASSUME TypeOK, NumberInv, NEW r \in Requests, todo[r] # <<>>
    PROVE  /\ Last(r) \in Nat
           /\ Len(todo[r]) \in Nat \ {0}
           /\ Head(todo[r]) \in Call
           /\ Head(todo[r]).n = Last(r) + 1
           /\ Tail(todo[r]) \in Seq(Call)
           /\ Len(Tail(todo[r])) = Len(todo[r]) - 1
           /\ \A i \in 1..Len(Tail(todo[r])) : Tail(todo[r])[i] = todo[r][i + 1]
<1>1. todo[r] \in Seq(Call)
  BY DEF TypeOK, Call
<1>2. Last(r) \in Nat
  BY FS_CardinalityType DEF NumberInv, Last
<1>3. Head(todo[r]) = todo[r][1] /\ 1 \in 1..Len(todo[r])
  BY <1>1
<1>4. todo[r][1].n = Last(r) + 1
  BY <1>3 DEF NumberInv
<1> QED
  BY <1>1, <1>2, <1>3, <1>4

LEMMA DoneFacts ==
    ASSUME TypeOK, NumberInv, NEW r \in Requests, NEW ok \in BOOLEAN,
           todo[r] # <<>>, Done(r, ok)
    PROVE  /\ Entry(r, ok) \in Entries
           /\ Entry(r, ok).n = Last(r) + 1
           /\ log'[r] = log[r] \cup {Entry(r, ok)}
           /\ todo'[r] = Tail(todo[r])
           /\ Last(r)' = Last(r) + 1
           /\ \A q \in Requests \ {r} :
                 log'[q] = log[q] /\ todo'[q] = todo[q] /\ Last(q)' = Last(q)
<1>1. Head(todo[r]) \in Call /\ Head(todo[r]).n = Last(r) + 1
  BY HeadFacts
<1>2. Entry(r, ok) \in Entries /\ Entry(r, ok).n = Last(r) + 1
  BY <1>1 DEF Entry, Entries, Call, TypeOK
<1>3. /\ log' = [log EXCEPT ![r] = @ \cup {Entry(r, ok)}]
      /\ todo' = [todo EXCEPT ![r] = Tail(@)]
  BY DEF Done, Entry
<1>4. /\ log'[r] = log[r] \cup {Entry(r, ok)}
      /\ todo'[r] = Tail(todo[r])
  BY <1>3 DEF TypeOK
<1>5. ASSUME NEW q \in Requests \ {r}
      PROVE  log'[q] = log[q] /\ todo'[q] = todo[q] /\ Last(q)' = Last(q)
  BY <1>3 DEF TypeOK, Last
<1>6. Last(r)' = Last(r) + 1
  <2>1. IsFiniteSet(log[r]) /\ Last(r) \in Nat
    BY HeadFacts DEF NumberInv
  <2>2. Entry(r, ok) \notin log[r]
    BY <1>2, <2>1 DEF NumberInv
  <2> QED
    BY <1>4, <2>1, <2>2, FS_AddElement DEF Last
<1> QED
  BY <1>2, <1>4, <1>5, <1>6

LEMMA DoneNumbers ==
    ASSUME TypeOK, NumberInv, NEW r \in Requests, NEW ok \in BOOLEAN,
           todo[r] # <<>>, Done(r, ok), spawned' = spawned
    PROVE  /\ todo' \in [Requests -> Seq(Call)]
           /\ log' \in [Requests -> SUBSET Entries]
           /\ NumberInv'
<1>1. /\ Entry(r, ok) \in Entries
      /\ Entry(r, ok).n = Last(r) + 1
      /\ log'[r] = log[r] \cup {Entry(r, ok)}
      /\ todo'[r] = Tail(todo[r])
      /\ Last(r)' = Last(r) + 1
      /\ \A q \in Requests \ {r} : log'[q] = log[q] /\ todo'[q] = todo[q] /\ Last(q)' = Last(q)
  BY DoneFacts
<1>2. /\ Last(r) \in Nat
      /\ Tail(todo[r]) \in Seq(Call)
      /\ Len(todo[r]) \in Nat \ {0}
      /\ Len(Tail(todo[r])) = Len(todo[r]) - 1
      /\ \A i \in 1..Len(Tail(todo[r])) : Tail(todo[r])[i] = todo[r][i + 1]
  BY HeadFacts
<1>3. todo' \in [Requests -> Seq(Call)]
  BY <1>2 DEF Done, TypeOK, Call
<1>4. log' \in [Requests -> SUBSET Entries]
  <2>1. log' = [log EXCEPT ![r] = @ \cup {Entry(r, ok)}]
    BY DEF Done, Entry
  <2>2. log \in [Requests -> SUBSET Entries]
    BY DEF TypeOK, Entries
  <2> QED
    BY <1>1, <2>1, <2>2
<1>5. ASSUME NEW q \in Requests, q # r
      PROVE  /\ IsFiniteSet(log'[q])
             /\ \A e \in log'[q] : e.n \in 1..Last(q)'
             /\ \A e, f \in log'[q] : e.n = f.n => e = f
             /\ \A i \in 1..Len(todo'[q]) : todo'[q][i].n = Last(q)' + i
             /\ \A i \in 1..Len(spawned'[q]) : spawned'[q][i].n = Last(q)' + Len(todo'[q]) + i
  <2>1. log'[q] = log[q] /\ todo'[q] = todo[q] /\ Last(q)' = Last(q)
    BY <1>1, <1>5
  <2> QED
    BY <2>1 DEF NumberInv
<1>6. /\ IsFiniteSet(log'[r])
      /\ \A e \in log'[r] : e.n \in 1..Last(r)'
      /\ \A e, f \in log'[r] : e.n = f.n => e = f
  <2>1. \A e \in log[r] : e.n \in 1..Last(r)
    BY DEF NumberInv
  <2>2. IsFiniteSet(log'[r])
    BY <1>1, FS_AddElement DEF NumberInv
  <2>3. \A e, f \in log[r] : e.n = f.n => e = f
    BY DEF NumberInv
  <2> QED
    BY <1>1, <1>2, <2>1, <2>2, <2>3
<1>7. \A i \in 1..Len(todo'[r]) : todo'[r][i].n = Last(r)' + i
  <2> SUFFICES ASSUME NEW i \in 1..Len(todo'[r]) PROVE todo'[r][i].n = Last(r)' + i
    OBVIOUS
  <2>1. todo'[r][i] = todo[r][i + 1] /\ i + 1 \in 1..Len(todo[r])
    BY <1>1, <1>2
  <2>2. todo[r][i + 1].n = Last(r) + (i + 1)
    BY <2>1 DEF NumberInv
  <2> QED
    BY <1>1, <1>2, <2>1, <2>2
<1>8. \A i \in 1..Len(spawned'[r]) : spawned'[r][i].n = Last(r)' + Len(todo'[r]) + i
  <2>1. Last(r)' + Len(todo'[r]) = Last(r) + Len(todo[r])
    BY <1>1, <1>2
  <2> QED
    BY <2>1 DEF NumberInv
<1>9. NumberInv'
  BY <1>5, <1>6, <1>7, <1>8 DEF NumberInv
<1> QED
  BY <1>3, <1>4, <1>9

\* What a session is in after the call that returns, told by the call.
LEMMA DoneOpen ==
    ASSUME TypeOK, NumberInv, OpenInv, TxnInv, RunsWhereIssued,
           NEW r \in live, NEW ok \in BOOLEAN, todo[r] # <<>>, Done(r, ok),
           live' = live,
           txn' = [txn EXCEPT ![r] =
                     IF Head(todo[r]).call = "start" /\ ok THEN Last(r) + 1
                     ELSE IF Head(todo[r]).call \in {"exec", "start"} THEN txn[r]
                     ELSE 0]
    PROVE  OpenInv' /\ TxnInv' /\ RunsWhereIssued'
<1> DEFINE e == Entry(r, ok)
<1>0. r \in Requests
  BY DEF TypeOK
<1>1. /\ e \in Entries
      /\ e.n = Last(r) + 1
      /\ log'[r] = log[r] \cup {e}
      /\ Last(r)' = Last(r) + 1
      /\ \A q \in Requests \ {r} : log'[q] = log[q] /\ Last(q)' = Last(q)
  BY <1>0, DoneFacts
<1>2. /\ e.call = Head(todo[r]).call
      /\ e.txn = txn[r]
      /\ e.ok = ok
  BY DEF Entry
<1>3. Last(r) \in Nat /\ log[r] \in SUBSET Entries /\ \A x \in log[r] : x.n \in 1..Last(r)
  BY <1>0, HeadFacts DEF NumberInv, TypeOK, Entries
<1>4. \A x \in log[r] : x.n <= Last(r)
  BY <1>3
<1>5. txn[r] = OpenIn(log[r], Last(r) + 1)
  BY <1>0, OpenAtIsOpenIn DEF OpenInv
<1>6. /\ txn'[r] = IF e.call = "start" /\ e.ok THEN Last(r) + 1
                   ELSE IF e.call \in {"exec", "start"} THEN txn[r] ELSE 0
      /\ \A q \in Requests \ {r} : txn'[q] = txn[q]
  BY <1>0, <1>2 DEF TypeOK
<1> HIDE DEF e
<1>7. \A q, n : OpenAt(q, n)' = OpenIn(log'[q], n)
  BY DEF OpenAt, OpenIn, NumberOf, Opened, Before
<1>8. OpenInv'
  <2>1. txn'[r] = OpenAt(r, Last(r) + 1)'
    <3>1. OpenIn(log[r] \cup {e}, Last(r) + 2) = txn'[r]
      BY <1>1, <1>3, <1>4, <1>5, <1>6, NextCall
    <3>2. Last(r)' + 1 = Last(r) + 2
      BY <1>1, <1>3
    <3>3. OpenIn(log'[r], Last(r)' + 1) = txn'[r]
      BY <1>1, <3>1, <3>2
    <3> QED
      BY <1>7, <3>3
  <2>2. ASSUME NEW q \in Requests, q # r, q \in live'
        PROVE  txn'[q] = OpenAt(q, Last(q) + 1)'
    <3>1. txn[q] = OpenIn(log[q], Last(q) + 1)
      BY <2>2, OpenAtIsOpenIn DEF OpenInv
    <3>2. txn'[q] = txn[q] /\ log'[q] = log[q] /\ Last(q)' = Last(q)
      BY <1>1, <1>6, <2>2
    <3> QED
      BY <1>7, <3>1, <3>2
  <2> QED
    BY <2>1, <2>2 DEF OpenInv
<1>9. TxnInv'
  <2>1. txn[r] \in Nat /\ txn[r] <= Last(r)
    BY <1>0 DEF TypeOK, TxnInv
  <2>2. txn'[r] <= Last(r)'
    BY <1>1, <1>3, <1>6, <2>1
  <2>3. ASSUME NEW x \in log'[r]
        PROVE  /\ x.txn < x.n
               /\ x.call \in {"commit", "rollback"} /\ x.txn # 0 => txn'[r] # x.txn
    <3>1. CASE x = e
      <4>1. x.txn < x.n
        BY <3>1, <1>1, <1>2, <1>3, <2>1
      <4>2. x.call \in {"commit", "rollback"} => txn'[r] = 0
        BY <3>1, <1>6
      <4> QED
        BY <4>1, <4>2
    <3>2. CASE x \in log[r]
      <4>1. x.txn < x.n /\ x.n \in 1..Last(r) /\ x.txn \in Nat
        BY <1>0, <1>3, <3>2 DEF TxnInv, Entries
      <4>2. x.txn # Last(r) + 1
        BY <1>3, <4>1
      <4>3. x.call \in {"commit", "rollback"} /\ x.txn # 0 => txn[r] # x.txn
        BY <1>0, <3>2 DEF TxnInv
      <4> QED
        BY <1>6, <4>1, <4>2, <4>3
    <3> QED
      BY <1>1, <2>3, <3>1, <3>2
  <2>4. ASSUME NEW q \in Requests, q # r
        PROVE  /\ txn'[q] <= Last(q)'
               /\ \A x \in log'[q] :
                     /\ x.txn < x.n
                     /\ x.call \in {"commit", "rollback"} /\ x.txn # 0 => txn'[q] # x.txn
    <3>1. txn'[q] = txn[q] /\ log'[q] = log[q] /\ Last(q)' = Last(q)
      BY <1>1, <1>6, <2>4
    <3> QED
      BY <3>1 DEF TxnInv
  <2> QED
    BY <2>2, <2>3, <2>4 DEF TxnInv
<1>10. RunsWhereIssued'
  <2>1. ASSUME NEW x \in log'[r], x.call = "exec"
        PROVE  x.txn = OpenIn(log'[r], x.n)
    <3>1. CASE x = e
      <4>0. e.n \in Nat /\ e.n <= e.n
        BY <1>1, <1>3
      <4>1. OpenIn(log[r] \cup {e}, e.n) = OpenIn(log[r], e.n)
        BY <1>1, <1>3, <4>0, LaterCalls
      <4> QED
        BY <1>1, <1>2, <1>5, <3>1, <4>1
    <3>2. CASE x \in log[r]
      <4>1. x.txn = OpenIn(log[r], x.n)
        BY <1>0, <2>1, <3>2, OpenAtIsOpenIn DEF RunsWhereIssued
      <4>2. x.n \in Nat /\ x.n <= e.n
        BY <1>1, <1>3, <3>2
      <4>3. OpenIn(log[r] \cup {e}, x.n) = OpenIn(log[r], x.n)
        BY <1>1, <1>3, <4>2, LaterCalls
      <4> QED
        BY <1>1, <4>1, <4>3
    <3> QED
      BY <1>1, <2>1, <3>1, <3>2
  <2>2. ASSUME NEW q \in Requests, q # r, NEW x \in log'[q], x.call = "exec"
        PROVE  x.txn = OpenIn(log'[q], x.n)
    <3>1. log'[q] = log[q]
      BY <1>1, <2>2
    <3>2. x.txn = OpenIn(log[q], x.n)
      BY <2>2, <3>1, OpenAtIsOpenIn DEF RunsWhereIssued
    <3> QED
      BY <3>1, <3>2
  <2> QED
    BY <1>7, <2>1, <2>2 DEF RunsWhereIssued
<1> QED
  BY <1>8, <1>9, <1>10

\* What the session is in when the call has returned
NextTxn(r, ok) ==
    IF Head(todo[r]).call = "start" /\ ok THEN Last(r) + 1
    ELSE IF Head(todo[r]).call \in {"exec", "start"} THEN txn[r]
    ELSE 0

\* The database may roll back a transaction whose statement fails, and has
\* rolled it back for as long as it is the session's
NextGone(r, ok) ==
    /\ \A q \in Requests \ {r} : q \in gone' <=> q \in gone
    /\ r \in gone' => /\ txn[r] # 0 /\ NextTxn(r, ok) = txn[r]
                      /\ r \in gone \/ (Head(todo[r]).call = "exec" /\ ~ok)
    /\ r \in gone /\ NextTxn(r, ok) = txn[r] => r \in gone'

LEMMA DoneGone ==
    ASSUME TypeOK, NumberInv, TxnInv, GoneInv,
           NEW r \in live, NEW ok \in BOOLEAN, todo[r] # <<>>, Done(r, ok),
           txn' = [txn EXCEPT ![r] = NextTxn(r, ok)],
           NextGone(r, ok)
    PROVE  GoneInv'
<1> DEFINE e == Entry(r, ok)
<1>0. r \in Requests
  BY DEF TypeOK
<1>1. /\ log'[r] = log[r] \cup {e}
      /\ \A q \in Requests \ {r} : log'[q] = log[q]
  BY <1>0, DoneFacts
<1>2. /\ e.call = Head(todo[r]).call /\ e.txn = txn[r] /\ e.ok = ok
      /\ e.alone <=> r \in gone
  BY DEF Entry
<1>3. /\ txn'[r] = NextTxn(r, ok)
      /\ \A q \in Requests \ {r} : txn'[q] = txn[q]
  BY <1>0 DEF TypeOK
<1>4. NextTxn(r, ok) \in {0, txn[r], Last(r) + 1}
  BY DEF NextTxn
<1>5. \A x \in log[r] : x.txn # Last(r) + 1
  <2>1. Last(r) \in Nat
    BY <1>0, HeadFacts
  <2>2. \A x \in log[r] : x.txn \in Nat /\ x.n \in 1..Last(r) /\ x.txn < x.n
    BY <1>0 DEF TypeOK, NumberInv, TxnInv
  <2> QED
    BY <2>1, <2>2
<1> HIDE DEF e
<1>6. r \in gone' => txn'[r] # 0 /\ \E f \in log'[r] : f.call = "exec" /\ f.txn = txn'[r] /\ ~f.ok
  BY <1>0, <1>1, <1>2, <1>3 DEF NextGone, GoneInv
<1>7. ASSUME NEW x \in log'[r], x.alone
      PROVE  /\ x.txn # 0
             /\ \E f \in log'[r] : f.call = "exec" /\ f.txn = x.txn /\ ~f.ok
             /\ x.txn = txn'[r] => r \in gone'
  <2>1. CASE x = e
    BY <1>0, <1>1, <1>2, <1>3, <1>7, <2>1 DEF NextGone, GoneInv
  <2>2. CASE x \in log[r]
    <3>1. /\ x.txn # 0
          /\ \E f \in log[r] : f.call = "exec" /\ f.txn = x.txn /\ ~f.ok
          /\ x.txn = txn[r] => r \in gone
      BY <1>0, <1>7, <2>2 DEF GoneInv
    <3>2. x.txn = txn'[r] => r \in gone'
      BY <1>3, <1>4, <1>5, <2>2, <3>1 DEF NextGone
    <3> QED
      BY <1>1, <3>1, <3>2
  <2> QED
    BY <1>1, <1>7, <2>1, <2>2
<1>8. ASSUME NEW q \in Requests \ {r}
      PROVE  log'[q] = log[q] /\ txn'[q] = txn[q] /\ (q \in gone' <=> q \in gone)
  BY <1>1, <1>3 DEF NextGone
<1> QED
  BY <1>6, <1>7, <1>8 DEF GoneInv

\* The statements of one transaction are told by their numbers.
LEMMA StatementNumbers ==
    ASSUME NumberInv, NEW r \in Requests, NEW x \in TxnStmts(r), NEW t,
           x.n \in Statements(r, t)
    PROVE  x.txn = t
<1>1. PICK y \in log[r] : y.txn = t /\ y.n = x.n
  BY DEF Statements
<1>2. x \in log[r]
  BY DEF TxnStmts
<1> QED
  BY <1>1, <1>2 DEF NumberInv

\* What the database has after the call that returns.
LEMMA DoneEffect ==
    ASSUME TypeOK, NumberInv, TxnInv, GoneInv, EffectInv,
           NEW r \in live, NEW ok \in BOOLEAN, todo[r] # <<>>, Done(r, ok),
           live' = live,
           NEW S \in SUBSET Nat, applied' = applied \cup ({r} \X S),
           \/ S = {} /\ (Head(todo[r]).call = "commit" => txn[r] = 0 \/ ~ok \/ r \in gone)
           \/ S = {Last(r) + 1} /\ Head(todo[r]).call = "exec" /\ (txn[r] = 0 \/ r \in gone)
           \/ /\ S = Statements(r, txn[r]) /\ Head(todo[r]).call = "commit"
              /\ txn[r] # 0 /\ r \notin gone
    PROVE  EffectInv'
<1> DEFINE e == Entry(r, ok)
           Ap(n) == <<r, n>> \in applied
           Old == TxnStmts(r)
           New == TxnStmts(r)'
<1>0. r \in Requests
  BY DEF TypeOK
<1>1. /\ e \in Entries
      /\ e.n = Last(r) + 1
      /\ log'[r] = log[r] \cup {e}
      /\ Last(r)' = Last(r) + 1
      /\ \A q \in Requests \ {r} : log'[q] = log[q] /\ Last(q)' = Last(q)
  BY <1>0, DoneFacts
<1>2. /\ e.call = Head(todo[r]).call /\ e.txn = txn[r] /\ e.ok = ok
      /\ e.alone <=> r \in gone
  BY DEF Entry
<1>3. Last(r) \in Nat /\ \A x \in log[r] : x.n \in 1..Last(r)
  BY <1>0, HeadFacts DEF NumberInv
<1>4. \A n : <<r, n>> \in applied' <=> Ap(n) \/ n \in S
  OBVIOUS
<1>5. ~Ap(Last(r) + 1)
  BY <1>3 DEF EffectInv
<1>6. \A c \in log[r] : c.call \in {"commit", "rollback"} /\ c.txn # 0 => txn[r] # c.txn
  BY <1>0 DEF TxnInv
<1>7. /\ \A x, y \in Old : x.txn = y.txn /\ Ap(x.n) => Ap(y.n)
      /\ \A x \in Old, c \in log[r] :
            c.txn = x.txn => /\ c.call = "commit" /\ c.ok /\ ~c.alone => Ap(x.n)
                             /\ c.call = "rollback" \/ c.alone => ~Ap(x.n)
      /\ \A x \in Old :
            Ap(x.n) => \E c \in log[r] : c.call \in {"commit", "rollback"} /\ c.txn = x.txn
  BY <1>0 DEF EffectInv
<1>8. \A x \in Old : x \in log[r] /\ x.call = "exec" /\ x.txn # 0 /\ x.n # Last(r) + 1
  BY <1>3 DEF TxnStmts
<1>9. \A x \in Old : x.txn = txn[r] => ~Ap(x.n)
  BY <1>6, <1>7, <1>8
<1>10. New = IF e.call = "exec" /\ e.txn # 0 /\ e.ok /\ ~e.alone THEN Old \cup {e} ELSE Old
  BY <1>1 DEF TxnStmts
<1>11. \A x \in Old : x.n \in S <=> S # {} /\ e.call = "commit" /\ x.txn = txn[r]
  <2>1. CASE S = Statements(r, txn[r]) /\ e.call = "commit" /\ txn[r] # 0
    <3> SUFFICES ASSUME NEW x \in Old PROVE x.n \in S <=> S # {} /\ x.txn = txn[r]
      BY <2>1
    <3>1. x.n \in S => x.txn = txn[r]
      BY <1>0, <2>1, StatementNumbers
    <3>2. x.txn = txn[r] => x.n \in S
      BY <2>1 DEF TxnStmts, Statements
    <3> QED
      BY <3>1, <3>2
  <2>2. CASE S = {} \/ (S = {Last(r) + 1} /\ e.call = "exec")
    BY <1>8, <2>2
  <2> QED
    BY <1>2, <2>1, <2>2
<1>12. e.call = "exec" /\ e.txn # 0 /\ ~e.alone => S = {}
  BY <1>2
<1>13. e.call = "commit" /\ e.txn # 0 /\ e.ok /\ ~e.alone => S = Statements(r, txn[r])
  BY <1>2
<1>14. e.call = "rollback" \/ (e.alone /\ e.call # "exec") => S = {}
  BY <1>2
<1>15. \A c \in log[r] : c.alone /\ c.txn = txn[r] => r \in gone
  BY <1>0 DEF GoneInv
<1>16. \A n \in Nat : <<r, n>> \in applied' => n <= Last(r)'
  <2>1. \A n \in S : n <= Last(r) + 1
    <3>1. \A n \in Statements(r, txn[r]) : n \in 1..Last(r)
      BY <1>3 DEF Statements
    <3>2. S \subseteq Statements(r, txn[r]) \cup {Last(r) + 1}
      OBVIOUS
    <3>3. \A n \in Statements(r, txn[r]) \cup {Last(r) + 1} : n <= Last(r) + 1
      BY <1>3, <3>1
    <3> QED
      BY <3>2, <3>3
  <2>2. \A n \in Nat : Ap(n) => n <= Last(r)
    BY DEF EffectInv
  <2> QED
    BY <1>1, <1>3, <1>4, <2>1, <2>2
<1>17. ASSUME NEW x \in Old
       PROVE  <<r, x.n>> \in applied' <=> Ap(x.n) \/ (S # {} /\ e.call = "commit" /\ x.txn = txn[r])
  BY <1>4, <1>11
<1>18. e \in New => <<r, e.n>> \notin applied'
  BY <1>1, <1>4, <1>5, <1>8, <1>10, <1>12
<1> HIDE DEF e, Old, New
<1>20. ASSUME NEW x \in New, NEW y \in New, x.txn = y.txn, <<r, x.n>> \in applied'
       PROVE  <<r, y.n>> \in applied'
  <2>1. x \in Old
    BY <1>10, <1>18, <1>20
  <2>2. CASE y \in Old
    BY <1>7, <1>17, <1>20, <2>1, <2>2
  <2>3. CASE y = e /\ e.call = "exec" /\ e.txn # 0
    BY <1>2, <1>9, <1>12, <1>17, <1>20, <2>1, <2>3
  <2> QED
    BY <1>10, <2>2, <2>3
<1>21. ASSUME NEW x \in New, NEW c \in log'[r], c.txn = x.txn
       PROVE  /\ c.call = "commit" /\ c.ok /\ ~c.alone => <<r, x.n>> \in applied'
              /\ c.call = "rollback" \/ c.alone => <<r, x.n>> \notin applied'
  <2>1. CASE x \in Old /\ c \in log[r]
    <3>1. c.call = "rollback" \/ c.alone => x.txn # txn[r] \/ S = {} \/ e.call # "commit"
      BY <1>2, <1>6, <1>8, <1>14, <1>15, <1>21, <2>1
    <3> QED
      BY <1>7, <1>17, <1>21, <2>1, <3>1
  <2>2. CASE x \in Old /\ c = e
    <3>1. x.txn = txn[r] /\ x.txn # 0
      BY <1>2, <1>8, <1>21, <2>2
    <3>2. e.call = "commit" /\ e.ok /\ ~e.alone => S # {}
      <4>1. x.n \in Statements(r, txn[r])
        BY <3>1, <2>2 DEF Statements, TxnStmts, Old
      <4> QED
        BY <1>2, <1>13, <3>1, <4>1
    <3> QED
      BY <1>9, <1>14, <1>17, <2>2, <3>1, <3>2
  <2>3. CASE x = e /\ e.call = "exec" /\ e.txn # 0
    <3>1. c \in log[r] => c.call \notin {"commit", "rollback"}
      BY <1>2, <1>6, <1>21, <2>3
    <3>2. c.call \notin {"commit", "rollback"}
      BY <1>1, <2>3, <3>1
    <3> QED
      BY <1>18, <1>21, <2>3, <3>2
  <2> QED
    BY <1>1, <1>10, <2>1, <2>2, <2>3
<1>22. ASSUME NEW x \in New, <<r, x.n>> \in applied'
       PROVE  \E c \in log'[r] : c.call \in {"commit", "rollback"} /\ c.txn = x.txn
  <2>1. x \in Old
    BY <1>10, <1>18, <1>22
  <2> QED
    BY <1>1, <1>2, <1>7, <1>17, <1>22, <2>1
<1>23. ASSUME NEW q \in Requests, q # r
       PROVE  /\ TxnStmts(q)' = TxnStmts(q) /\ log'[q] = log[q]
              /\ \A n : <<q, n>> \in applied' <=> <<q, n>> \in applied
  BY <1>1, <1>23 DEF TxnStmts
<1>24. \A q \in live' : \A n \in Nat : <<q, n>> \in applied' => n <= Last(q)'
  <2> SUFFICES ASSUME NEW q \in live', NEW n \in Nat, <<q, n>> \in applied', q # r
               PROVE  n <= Last(q)'
    BY <1>16
  <2>1. q \in Requests
    BY DEF TypeOK
  <2> QED
    BY <1>1, <1>23, <2>1 DEF EffectInv
<1>25. ASSUME NEW q \in Requests
       PROVE  /\ \A x, y \in TxnStmts(q)' :
                    x.txn = y.txn /\ <<q, x.n>> \in applied' => <<q, y.n>> \in applied'
              /\ \A x \in TxnStmts(q)', c \in log'[q] :
                    c.txn = x.txn =>
                       /\ c.call = "commit" /\ c.ok /\ ~c.alone => <<q, x.n>> \in applied'
                       /\ c.call = "rollback" \/ c.alone => <<q, x.n>> \notin applied'
              /\ q \in live' =>
                    \A x \in TxnStmts(q)' :
                       <<q, x.n>> \in applied' =>
                          \E c \in log'[q] : c.call \in {"commit", "rollback"} /\ c.txn = x.txn
  <2>1. CASE q = r
    BY <2>1, <1>20, <1>21, <1>22 DEF New
  <2>2. CASE q # r
    BY <1>23, <2>2 DEF EffectInv
  <2> QED
    BY <2>1, <2>2
<1> QED
  BY <1>24, <1>25 DEF EffectInv

-----------------------------------------------------------------------------
(* The pool.                                                               *)

\* A session that holds no plain connection, or is in no transaction, takes one.
LEMMA PoolFacts ==
    ASSUME TypeOK, PoolInv, NEW r \in Requests
    PROVE  /\ Cardinality(conn) \in Nat /\ Cardinality(InTxn) \in Nat
           /\ IsFiniteSet(conn \cup {r})
           /\ IsFiniteSet(conn \ {r})
           /\ IsFiniteSet(InTxn \cup {r})
           /\ IsFiniteSet(InTxn \ {r})
           /\ Cardinality(conn \cup {r}) = Cardinality(conn) + (IF r \in conn THEN 0 ELSE 1)
           /\ Cardinality(conn \ {r}) = Cardinality(conn) - (IF r \in conn THEN 1 ELSE 0)
           /\ Cardinality(InTxn \cup {r}) = Cardinality(InTxn) + (IF r \in InTxn THEN 0 ELSE 1)
           /\ Cardinality(InTxn \ {r}) = Cardinality(InTxn) - (IF r \in InTxn THEN 1 ELSE 0)
           /\ Cardinality(conn \cap {r}) = IF r \in conn THEN 1 ELSE 0
<1>1. IsFiniteSet(conn) /\ IsFiniteSet(InTxn)
  BY DEF PoolInv
<1>2. /\ IsFiniteSet(conn \cup {r}) /\ IsFiniteSet(InTxn \cup {r})
      /\ Cardinality(conn \cup {r}) = Cardinality(conn) + (IF r \in conn THEN 0 ELSE 1)
      /\ Cardinality(InTxn \cup {r}) = Cardinality(InTxn) + (IF r \in InTxn THEN 0 ELSE 1)
  BY <1>1, FS_AddElement, FS_CardinalityType
<1>3. /\ IsFiniteSet(conn \ {r}) /\ IsFiniteSet(InTxn \ {r})
      /\ Cardinality(conn \ {r}) = Cardinality(conn) - (IF r \in conn THEN 1 ELSE 0)
      /\ Cardinality(InTxn \ {r}) = Cardinality(InTxn) - (IF r \in InTxn THEN 1 ELSE 0)
  <2>1. ASSUME NEW A, IsFiniteSet(A)
        PROVE  /\ IsFiniteSet(A \ {r})
               /\ Cardinality(A \ {r}) = Cardinality(A) - (IF r \in A THEN 1 ELSE 0)
    <3>1. CASE r \in A
      BY <2>1, <3>1, FS_RemoveElement, FS_CardinalityType
    <3>2. CASE r \notin A
      <4>1. A \ {r} = A
        BY <3>2
      <4>2. Cardinality(A) \in Nat
        BY <2>1, FS_CardinalityType
      <4>3. Cardinality(A) = Cardinality(A) - 0
        BY <4>2
      <4> QED
        BY <2>1, <3>2, <4>1, <4>3
    <3> QED
      BY <3>1, <3>2
  <2> QED
    BY <1>1, <2>1
<1>4. Cardinality(conn \cap {r}) = IF r \in conn THEN 1 ELSE 0
  <2>1. CASE r \in conn
    <3>1. conn \cap {r} = {r}
      BY <2>1
    <3> QED
      BY <2>1, <3>1, FS_Singleton
  <2>2. CASE r \notin conn
    <3>1. conn \cap {r} = {}
      BY <2>2
    <3> QED
      BY <2>2, <3>1, FS_EmptySet
  <2> QED
    BY <2>1, <2>2
<1>5. Cardinality(conn) \in Nat /\ Cardinality(InTxn) \in Nat
  BY <1>1, FS_CardinalityType
<1> QED
  BY <1>2, <1>3, <1>4, <1>5

\* Connections move between the pool and the sessions, and none is lost.
LEMMA PoolStep ==
    ASSUME TypeOK, PoolInv, NEW r \in Requests,
           NEW c \in BOOLEAN, NEW t \in Nat,
           conn' = IF c THEN conn \cup {r} ELSE conn \ {r},
           txn' = [txn EXCEPT ![r] = t],
           free' = free + (IF r \in conn THEN 1 ELSE 0) - (IF c THEN 1 ELSE 0)
                        + (IF txn[r] # 0 THEN 1 ELSE 0) - (IF t # 0 THEN 1 ELSE 0),
           free' >= 0
    PROVE  PoolInv' /\ free' \in 0..Max
<1>1. InTxn' = IF t # 0 THEN InTxn \cup {r} ELSE InTxn \ {r}
  BY DEF InTxn, TypeOK
<1>2. r \in InTxn <=> txn[r] # 0
  BY DEF InTxn
<1>3. IsFiniteSet(conn') /\ IsFiniteSet(InTxn')
  BY <1>1, PoolFacts
<1>4. /\ Cardinality(conn)' = Cardinality(conn) + (IF c THEN 1 ELSE 0) - (IF r \in conn THEN 1 ELSE 0)
      /\ Cardinality(InTxn)' = Cardinality(InTxn) + (IF t # 0 THEN 1 ELSE 0)
                                   - (IF txn[r] # 0 THEN 1 ELSE 0)
      /\ Cardinality(conn) \in Nat /\ Cardinality(InTxn) \in Nat
  <2>1. /\ Cardinality(conn) \in Nat /\ Cardinality(InTxn) \in Nat
        /\ Cardinality(conn \cup {r}) = Cardinality(conn) + (IF r \in conn THEN 0 ELSE 1)
        /\ Cardinality(conn \ {r}) = Cardinality(conn) - (IF r \in conn THEN 1 ELSE 0)
        /\ Cardinality(InTxn \cup {r}) = Cardinality(InTxn) + (IF r \in InTxn THEN 0 ELSE 1)
        /\ Cardinality(InTxn \ {r}) = Cardinality(InTxn) - (IF r \in InTxn THEN 1 ELSE 0)
    BY PoolFacts
  <2>2. Cardinality(conn)' = Cardinality(conn) + (IF c THEN 1 ELSE 0) - (IF r \in conn THEN 1 ELSE 0)
    BY <2>1
  <2>3. Cardinality(InTxn)' = Cardinality(InTxn) + (IF t # 0 THEN 1 ELSE 0)
                                   - (IF txn[r] # 0 THEN 1 ELSE 0)
    BY <1>1, <1>2, <2>1
  <2> QED
    BY <2>1, <2>2, <2>3
<1>5. Cardinality(conn)' \in Nat /\ Cardinality(InTxn)' \in Nat
  BY <1>3, FS_CardinalityType
<1>6. free \in Nat /\ Max \in Nat
  BY MaxAssumption DEF TypeOK
<1>7. free + Cardinality(conn) + Cardinality(InTxn) = Max
  BY DEF PoolInv
<1>8. (free + Cardinality(conn) + Cardinality(InTxn))' = Max
  BY <1>4, <1>6, <1>7
<1>9. free' \in 0..Max
  BY <1>4, <1>5, <1>6, <1>7, <1>8
<1> QED
  BY <1>3, <1>8, <1>9 DEF PoolInv

-----------------------------------------------------------------------------
(* The steps.                                                              *)

LEMMA InitIInv == Init => IInv
<1> SUFFICES ASSUME Init PROVE IInv
  OBVIOUS
<1>1. TypeOK
  BY MaxAssumption DEF Init, TypeOK
<1>2. \A r \in Requests :
         log[r] = {} /\ todo[r] = <<>> /\ spawned[r] = <<>> /\ txn[r] = 0 /\ Last(r) = 0
  BY FS_EmptySet DEF Init, Last
<1>3. NumberInv
  <2> SUFFICES ASSUME NEW r \in Requests
               PROVE  /\ IsFiniteSet(log[r]) /\ log[r] = {}
                      /\ \A i \in 1..Len(todo[r]) : todo[r][i].n = Last(r) + i
                      /\ \A i \in 1..Len(spawned[r]) :
                            spawned[r][i].n = Last(r) + Len(todo[r]) + i
    BY DEF NumberInv
  <2>1. Len(todo[r]) = 0 /\ Len(spawned[r]) = 0
    BY <1>2
  <2>2. log[r] = {} /\ 1..Len(todo[r]) = {} /\ 1..Len(spawned[r]) = {}
    BY <1>2, <2>1
  <2>3. IsFiniteSet(log[r])
    BY <2>2, FS_EmptySet
  <2> QED
    BY <2>2, <2>3
<1>4. EndedInv /\ WaitInv
  BY <1>2 DEF EndedInv, WaitInv, Init
<1>5. PoolInv
  <2>1. conn = {} /\ InTxn = {}
    BY DEF Init, InTxn
  <2> QED
    BY <2>1, FS_EmptySet, MaxAssumption DEF PoolInv, Init
<1>6. OpenInv
  <2>1. \A r \in Requests : Before(log[r], Last(r) + 1) = {}
    BY <1>2 DEF Before
  <2>2. \A r \in Requests : OpenIn(log[r], Last(r) + 1) = 0
    BY <2>1 DEF OpenIn, Opened, NumberOf
  <2> QED
    BY <1>2, <2>2, OpenAtIsOpenIn DEF OpenInv
<1>7. TxnInv /\ RunsWhereIssued /\ GoneInv
  BY <1>2 DEF TxnInv, RunsWhereIssued, GoneInv, Init
<1>8. EffectInv
  BY <1>2 DEF EffectInv, Init, TxnStmts
<1> QED
  BY <1>1, <1>3, <1>4, <1>5, <1>6, <1>7, <1>8 DEF IInv

\* A step that leaves what is done, and what it did, alone.
LEMMA HistoryUnchanged ==
    ASSUME IInv, UNCHANGED <<log, txn, gone, applied, live>>
    PROVE  OpenInv' /\ TxnInv' /\ RunsWhereIssued' /\ GoneInv' /\ EffectInv'
<1>1. \A r : Last(r)' = Last(r) /\ TxnStmts(r)' = TxnStmts(r)
  BY DEF Last, TxnStmts
<1>2. \A q, n : OpenAt(q, n)' = OpenAt(q, n)
  BY DEF OpenAt
<1>3. OpenInv'
  BY <1>1, <1>2 DEF IInv, OpenInv
<1>4. RunsWhereIssued'
  BY <1>2 DEF IInv, RunsWhereIssued
<1>5. TxnInv'
  BY <1>1 DEF IInv, TxnInv
<1>6. EffectInv'
  BY <1>1 DEF IInv, EffectInv
<1>7. GoneInv'
  BY DEF IInv, GoneInv
<1> QED
  BY <1>3, <1>4, <1>5, <1>6, <1>7

\* What it may have done: nothing, its statement, or those of its transaction
Effect(r, ok, S) ==
    \/ S = {} /\ (Head(todo[r]).call = "commit" => txn[r] = 0 \/ ~ok \/ r \in gone)
    \/ S = {Last(r) + 1} /\ Head(todo[r]).call = "exec" /\ (txn[r] = 0 \/ r \in gone)
    \/ /\ S = Statements(r, txn[r]) /\ Head(todo[r]).call = "commit"
       /\ txn[r] # 0 /\ r \notin gone

\* The line is as it was, but for the request
LineWithout(r) ==
    /\ waiters' \in Seq(Requests)
    /\ \A i \in 1..Len(waiters') :
          waiters'[i] # r /\ \E j \in 1..Len(waiters) : waiters'[i] = waiters[j]
    /\ \A i, j \in 1..Len(waiters') : waiters'[i] = waiters'[j] => i = j

One(t) == IF t = 0 THEN 0 ELSE 1

LEMMA NextTxnType ==
    ASSUME IInv, NEW r \in live, NEW ok \in BOOLEAN
    PROVE  NextTxn(r, ok) \in Nat /\ Last(r) \in Nat /\ free \in Nat
<1>1. r \in Requests /\ IsFiniteSet(log[r])
  BY DEF IInv, TypeOK, NumberInv
<1>2. Last(r) \in Nat
  BY <1>1, FS_CardinalityType DEF Last
<1>3. free \in Nat /\ txn[r] \in Nat
  BY <1>1, MaxAssumption DEF IInv, TypeOK
<1> QED
  BY <1>2, <1>3 DEF NextTxn

\* A call that returns, whichever it is: its request is in no line any more.
LEMMA DoneStep ==
    ASSUME IInv, NEW r \in live, NEW ok \in BOOLEAN, todo[r] # <<>>, Done(r, ok),
           live' = live, spawned' = spawned, conn' = conn, LineWithout(r),
           gone' \subseteq Requests, NextGone(r, ok),
           txn' = [txn EXCEPT ![r] = NextTxn(r, ok)],
           free' = free + One(txn[r]) - One(NextTxn(r, ok)),
           free' >= 0,
           NEW S \in SUBSET Nat, applied' = applied \cup ({r} \X S),
           Effect(r, ok, S)
    PROVE  IInv'
<1> USE DEF IInv
<1>0. r \in Requests
  BY DEF TypeOK
<1>1. NextTxn(r, ok) \in Nat /\ Last(r) \in Nat /\ free \in Nat
  BY NextTxnType
<1>2. /\ todo' \in [Requests -> Seq(Call)]
      /\ log' \in [Requests -> SUBSET Entries]
      /\ NumberInv'
  BY <1>0, DoneNumbers
<1>3. OpenInv' /\ TxnInv' /\ RunsWhereIssued' /\ GoneInv'
  BY DoneOpen, DoneGone DEF NextTxn
<1>4. EffectInv'
  BY DoneEffect DEF Effect
<1> DEFINE t == NextTxn(r, ok)
<1>5. t \in Nat /\ txn' = [txn EXCEPT ![r] = t]
  BY <1>1
<1>6. PoolInv' /\ free' \in 0..Max
  <2> DEFINE c == r \in conn
  <2>1. conn' = IF c THEN conn \cup {r} ELSE conn \ {r}
    OBVIOUS
  <2>2. free' = free + (IF r \in conn THEN 1 ELSE 0) - (IF c THEN 1 ELSE 0)
                  + (IF txn[r] # 0 THEN 1 ELSE 0) - (IF t # 0 THEN 1 ELSE 0)
    BY <1>1 DEF TypeOK, One
  <2>3. c \in BOOLEAN
    OBVIOUS
  <2> HIDE DEF c, t
  <2> QED
    BY <1>0, <1>5, <2>1, <2>2, <2>3, PoolStep
<1>7. EndedInv'
  <2>1. \A q \in Requests \ {r} : todo'[q] = todo[q] /\ txn'[q] = txn[q]
    BY <1>0, <1>5, DoneFacts DEF TypeOK
  <2> QED
    BY <2>1 DEF EndedInv
<1>8. WaitInv'
  <2> SUFFICES ASSUME NEW i \in 1..Len(waiters')
               PROVE  InLine(waiters[i])'
    BY DEF WaitInv, LineWithout
  <2>1. PICK j \in 1..Len(waiters) : waiters'[i] = waiters[j]
    BY DEF LineWithout
  <2> DEFINE q == waiters[j]
  <2>2. InLine(q) /\ q # r
    BY <2>1 DEF WaitInv, LineWithout
  <2>3. q \in Requests \ {r}
    BY <2>2 DEF InLine, TypeOK
  <2>4. todo'[q] = todo[q] /\ txn'[q] = txn[q]
    <3>1. \A p \in Requests \ {r} : todo'[p] = todo[p]
      BY <1>0, DoneFacts
    <3>2. \A p \in Requests \ {r} : txn'[p] = txn[p]
      BY <1>0, <1>5 DEF TypeOK
    <3> HIDE DEF q
    <3> QED
      BY <2>3, <3>1, <3>2
  <2>5. waiters'[i] = q
    BY <2>1
  <2> HIDE DEF q
  <2> QED
    BY <2>2, <2>4, <2>5 DEF InLine
<1>9. TypeOK'
  <2>1. applied' \subseteq Requests \X Nat
    BY <1>0 DEF TypeOK
  <2>2. txn' \in [Requests -> Nat]
    BY <1>5 DEF TypeOK
  <2> QED
    BY <1>2, <1>6, <2>1, <2>2 DEF TypeOK, Call, Entries, LineWithout
<1> QED
  BY <1>2, <1>3, <1>4, <1>6, <1>7, <1>8, <1>9

\* The calls that return without a connection from the pool.
LEMMA RunStep ==
    ASSUME IInv, NEW r \in Requests, ExecTxn(r) \/ ExecGone(r) \/ ExecConn(r) \/ EndTxn(r) \/ EndNothing(r)
    PROVE  IInv'
<1>1. PICK call \in Calls : Running(r, call)
  BY DEF ExecTxn, ExecGone, ExecConn, EndTxn, EndNothing, Calls
<1>2. r \in live /\ todo[r] # <<>> /\ ~Waiting(r)
  BY <1>1 DEF Running
<1>3. \A ok \in BOOLEAN : NextTxn(r, ok) \in Nat /\ Last(r) \in Nat /\ free \in Nat
  BY <1>2, NextTxnType
<1>4. waiters' = waiters => LineWithout(r)
  BY <1>2 DEF IInv, WaitInv, TypeOK, Waiting, LineWithout
<1>5. txn = [txn EXCEPT ![r] = txn[r]] /\ txn[r] \in Nat
  BY DEF IInv, TypeOK
<1>6. applied = applied \cup ({r} \X {})
  OBVIOUS
<1>7. \A t : One(t) \in {0, 1}
  BY DEF One
<1>8. CASE ExecTxn(r) \/ EndNothing(r)
  <2>1. PICK ok \in BOOLEAN : Done(r, ok) /\ NextGone(r, ok) /\ gone' \subseteq Requests
    <3>1. CASE ExecTxn(r)
      <4>1. PICK ok \in BOOLEAN : Done(r, ok) /\ (gone' = gone \/ (~ok /\ gone' = gone \cup {r}))
        BY <3>1 DEF ExecTxn
      <4>2. txn[r] # 0 /\ Head(todo[r]).call = "exec" /\ r \notin gone
        BY <3>1 DEF ExecTxn, Running
      <4> QED
        BY <4>1, <4>2 DEF NextGone, NextTxn, IInv, TypeOK
    <3>2. CASE EndNothing(r)
      <4>1. Done(r, TRUE) /\ gone' = gone /\ txn[r] = 0
        BY <3>2 DEF EndNothing
      <4> QED
        BY <4>1 DEF NextGone, IInv, GoneInv, TypeOK
    <3> QED
      BY <1>8, <3>1, <3>2
  <2>2. UNCHANGED <<live, spawned, conn, txn, free, waiters, applied>>
    BY <1>8 DEF ExecTxn, EndNothing
  <2>3. NextTxn(r, ok) = txn[r] /\ Effect(r, ok, {})
    BY <1>8 DEF ExecTxn, EndNothing, Running, NextTxn, Effect
  <2>4. free' = free + One(txn[r]) - One(NextTxn(r, ok)) /\ free' >= 0
    BY <1>3, <1>7, <2>2, <2>3
  <2>5. txn' = [txn EXCEPT ![r] = NextTxn(r, ok)]
    BY <1>5, <2>2, <2>3
  <2>6. applied' = applied \cup ({r} \X {}) /\ LineWithout(r) /\ {} \in SUBSET Nat
    BY <1>4, <1>6, <2>2
  <2> QED
    BY <1>2, <2>1, <2>2, <2>3, <2>4, <2>5, <2>6, DoneStep
<1>9. CASE ExecConn(r) \/ ExecGone(r)
  <2>1. /\ Head(todo[r]).call = "exec" /\ (txn[r] = 0 \/ r \in gone)
        /\ UNCHANGED <<live, spawned, conn, txn, gone, free, waiters>>
    BY <1>9 DEF ExecConn, ExecGone, Running
  <2>2. Head(todo[r]).n = Last(r) + 1
    BY <1>2, HeadFacts DEF IInv
  <2>3. PICK ok \in BOOLEAN, S \in {{}, {Last(r) + 1}} :
           Done(r, ok) /\ applied' = applied \cup ({r} \X S)
    <3>1. {<<r, Head(todo[r]).n>>} = {r} \X {Last(r) + 1}
      BY <2>2
    <3> QED
      BY <1>6, <1>9, <3>1 DEF ExecConn, ExecGone, Autocommit
  <2>4. S \in SUBSET Nat
    BY <1>3
  <2>5. NextTxn(r, ok) = txn[r] /\ Effect(r, ok, S)
    BY <2>1, <2>3 DEF NextTxn, Effect
  <2>6. free' = free + One(txn[r]) - One(NextTxn(r, ok)) /\ free' >= 0
    BY <1>3, <1>7, <2>1, <2>5
  <2>7. txn' = [txn EXCEPT ![r] = NextTxn(r, ok)] /\ LineWithout(r)
    BY <1>4, <1>5, <2>1, <2>5
  <2>8. NextGone(r, ok) /\ gone' \subseteq Requests
    BY <2>1, <2>5 DEF NextGone, IInv, GoneInv, TypeOK
  <2> QED
    BY <1>2, <2>1, <2>3, <2>4, <2>5, <2>6, <2>7, <2>8, DoneStep
<1>10. CASE EndTxn(r)
  <2>1. PICK cmd \in {"commit", "rollback"}, ok \in BOOLEAN :
           /\ Head(todo[r]).call = cmd /\ txn[r] # 0
           /\ Done(r, ok)
           /\ txn' = [txn EXCEPT ![r] = 0]
           /\ gone' = gone \ {r}
           /\ free' = free + 1
           /\ LET all == applied \cup ({r} \X Statements(r, txn[r]))
              IN  applied' \in IF cmd = "rollback" \/ r \in gone THEN {applied}
                               ELSE IF ok THEN {all} ELSE {applied, all}
           /\ UNCHANGED <<live, spawned, conn, waiters>>
    BY <1>10 DEF EndTxn, Running
  <2>2. PICK S \in {{}, Statements(r, txn[r])} :
           /\ applied' = applied \cup ({r} \X S)
           /\ cmd = "rollback" \/ r \in gone => S = {}
           /\ cmd = "commit" /\ ok /\ r \notin gone => S = Statements(r, txn[r])
    BY <1>6, <2>1
  <2>3. S \in SUBSET Nat
    BY DEF Statements, IInv, TypeOK
  <2>4. NextTxn(r, ok) = 0
    BY <2>1 DEF NextTxn
  <2>5. One(0) = 0 /\ One(txn[r]) = 1
    BY <2>1 DEF One
  <2>6. free' = free + One(txn[r]) - One(NextTxn(r, ok)) /\ free' >= 0
    BY <1>3, <2>1, <2>4, <2>5
  <2>7. Effect(r, ok, S)
    BY <2>1, <2>2 DEF Effect
  <2>8. NextGone(r, ok) /\ gone' \subseteq Requests
    BY <2>1, <2>4 DEF NextGone, IInv, TypeOK
  <2> QED
    BY <1>2, <1>4, <2>1, <2>2, <2>3, <2>4, <2>6, <2>7, <2>8, DoneStep
<1> QED
  BY <1>8, <1>9, <1>10

\* The line of the requests that wait, without its head.
LEMMA LineMoves ==
    ASSUME IInv, waiters # <<>>, waiters' = Tail(waiters)
    PROVE  InLine(Head(waiters)) /\ LineWithout(Head(waiters))
<1>1. waiters \in Seq(Requests) /\ Len(waiters) \in Nat \ {0}
  BY DEF IInv, TypeOK
<1>2. Head(waiters) = waiters[1] /\ 1 \in 1..Len(waiters)
  BY <1>1
<1>3. /\ waiters' \in Seq(Requests)
      /\ Len(waiters') = Len(waiters) - 1
      /\ \A i \in 1..Len(waiters') : waiters'[i] = waiters[i + 1]
  BY <1>1
<1>4. \A i \in 1..Len(waiters') : i + 1 \in 1..Len(waiters) /\ i + 1 # 1
  BY <1>1, <1>3
<1>5. \A i, j \in 1..Len(waiters') : i + 1 = j + 1 => i = j
  OBVIOUS
<1>6. \A i, j \in 1..Len(waiters) : waiters[i] = waiters[j] => i = j
  BY DEF IInv, WaitInv
<1>7. \A i, j \in 1..Len(waiters') : waiters'[i] = waiters'[j] => i = j
  BY <1>3, <1>4, <1>5, <1>6
<1>8. \A i \in 1..Len(waiters') :
         waiters'[i] # Head(waiters) /\ \E j \in 1..Len(waiters) : waiters'[i] = waiters[j]
  BY <1>2, <1>3, <1>4, <1>6
<1>9. InLine(Head(waiters))
  BY <1>2 DEF IInv, WaitInv
<1> QED
  BY <1>3, <1>7, <1>8, <1>9 DEF LineWithout

\* The calls that return with the connection they waited for, or without.
LEMMA GrantStep ==
    ASSUME IInv, NEW r \in Requests, GrantTxn(r) \/ ConnError(r)
    PROVE  IInv'
<1>1. waiters # <<>> /\ Head(waiters) = r /\ waiters' = Tail(waiters)
  BY DEF GrantTxn, ConnError
<1>2. InLine(r) /\ LineWithout(r)
  BY <1>1, LineMoves
<1>3. r \in live /\ todo[r] # <<>> /\ Head(todo[r]).call \in {"exec", "start"}
  BY <1>2 DEF InLine
<1>4. Last(r) \in Nat /\ free \in Nat
  <2>1. TRUE \in BOOLEAN
    OBVIOUS
  <2> QED
    BY <1>3, <2>1, NextTxnType
<1>5. applied = applied \cup ({r} \X {}) /\ {} \in SUBSET Nat
  OBVIOUS
<1>6. \A ok \in BOOLEAN : Effect(r, ok, {})
  BY <1>3 DEF Effect
<1>7. CASE GrantTxn(r)
  <2>1. /\ Head(todo[r]).call = "start" /\ free > 0
        /\ Done(r, TRUE)
        /\ txn' = [txn EXCEPT ![r] = Head(todo[r]).n]
        /\ gone' = gone \ {r}
        /\ free' = IF txn[r] = 0 THEN free - 1 ELSE free
        /\ UNCHANGED <<live, spawned, conn, applied>>
    BY <1>7 DEF GrantTxn
  <2>2. NextTxn(r, TRUE) = Head(todo[r]).n /\ NextTxn(r, TRUE) = Last(r) + 1
    BY <1>3, <2>1, HeadFacts DEF IInv, NextTxn
  <2>3. One(NextTxn(r, TRUE)) = 1 /\ One(txn[r]) = IF txn[r] = 0 THEN 0 ELSE 1
    <3>1. Last(r) + 1 # 0
      BY <1>4
    <3> QED
      BY <2>2, <3>1 DEF One
  <2>4. free' = free + One(txn[r]) - One(NextTxn(r, TRUE)) /\ free' >= 0
    <3>1. free' = IF txn[r] = 0 THEN free - 1 ELSE free
      BY <2>1
    <3>2. free > 0
      BY <2>1
    <3> DEFINE a == One(txn[r])
               b == One(NextTxn(r, TRUE))
    <3>3. b = 1 /\ a = IF txn[r] = 0 THEN 0 ELSE 1
      BY <2>3
    <3> HIDE DEF a, b
    <3>4. free' = free + a - b /\ free' >= 0
      BY <1>4, <3>1, <3>2, <3>3
    <3> QED
      BY <3>4 DEF a, b
  <2>5. txn' = [txn EXCEPT ![r] = NextTxn(r, TRUE)]
    BY <2>1, <2>2
  <2>6. NextGone(r, TRUE) /\ gone' \subseteq Requests
    <3>1. txn[r] \in Nat /\ txn[r] <= Last(r)
      BY DEF IInv, TypeOK, TxnInv
    <3>2. NextTxn(r, TRUE) # txn[r]
      <4>1. \A a, b \in Nat : a <= b => b + 1 # a
        OBVIOUS
      <4> QED
        BY <1>4, <2>2, <3>1, <4>1
    <3> QED
      BY <2>1, <3>2 DEF NextGone, IInv, TypeOK
  <2> QED
    BY <1>2, <1>3, <1>5, <1>6, <2>1, <2>4, <2>5, <2>6, DoneStep
<1>8. CASE ConnError(r)
  <2>1. Done(r, FALSE) /\ UNCHANGED <<live, spawned, conn, txn, gone, free, applied>>
    BY <1>8 DEF ConnError
  <2>2. NextTxn(r, FALSE) = txn[r]
    BY <1>3 DEF NextTxn
  <2>3. txn' = [txn EXCEPT ![r] = NextTxn(r, FALSE)]
    BY <2>1, <2>2 DEF IInv, TypeOK
  <2>4. One(txn[r]) \in {0, 1}
    BY DEF One
  <2>5. free' = free + One(txn[r]) - One(NextTxn(r, FALSE)) /\ free' >= 0
    <3>1. free' = free
      BY <2>1
    <3> DEFINE a == One(txn[r])
               b == One(NextTxn(r, FALSE))
    <3>2. a = b /\ a \in {0, 1}
      BY <2>2, <2>4
    <3> HIDE DEF a, b
    <3>3. free' = free + a - b /\ free' >= 0
      BY <1>4, <3>1, <3>2
    <3> QED
      BY <3>3 DEF a, b
  <2>6. NextGone(r, FALSE) /\ gone' \subseteq Requests
    BY <2>1, <2>2 DEF NextGone, IInv, GoneInv, TypeOK
  <2> QED
    BY <1>2, <1>3, <1>5, <1>6, <2>1, <2>3, <2>5, <2>6, DoneStep
<1> QED
  BY <1>7, <1>8

\* Issue, Poll, GetConn and GrantConn: no call returns.
LEMMA CallStep ==
    ASSUME IInv, NEW r \in Requests,
           (\E call \in Calls : Issue(r, call)) \/ Poll(r) \/ GetConn(r) \/ GrantConn(r)
    PROVE  IInv'
<1> USE DEF IInv
<1>0. UNCHANGED <<log, txn, gone, applied, live>>
  BY DEF Issue, Poll, GetConn, GrantConn
<1>1. OpenInv' /\ TxnInv' /\ RunsWhereIssued' /\ GoneInv' /\ EffectInv'
  BY <1>0, HistoryUnchanged
<1>2. \A q : Last(q)' = Last(q)
  BY <1>0 DEF Last
<1>3. /\ todo[r] \in Seq(Call) /\ spawned[r] \in Seq(Call)
      /\ Last(r) \in Nat /\ waiters \in Seq(Requests)
  BY FS_CardinalityType DEF TypeOK, Call, NumberInv, Last
<1>4. CASE \E call \in Calls : Issue(r, call)
  <2>1. PICK call \in Calls : Issue(r, call)
    BY <1>4
  <2> DEFINE c == [n |-> Issued(r) + 1, call |-> call]
  <2>2. c \in Call /\ c.n = Last(r) + Len(todo[r]) + (Len(spawned[r]) + 1)
    <3>1. Len(todo[r]) \in Nat /\ Len(spawned[r]) \in Nat
      BY <1>3
    <3>2. Issued(r) = Last(r) + (Len(todo[r]) + Len(spawned[r]))
      BY DEF Issued, Pending, Last
    <3> DEFINE l == Last(r)
               a == Len(todo[r])
               b == Len(spawned[r])
    <3>3. l \in Nat /\ a \in Nat /\ b \in Nat /\ Issued(r) = l + (a + b)
      BY <1>3, <3>1, <3>2
    <3> HIDE DEF l, a, b
    <3>4. Issued(r) + 1 \in Nat /\ Issued(r) + 1 = l + a + (b + 1)
      BY <3>3
    <3> QED
      BY <3>4 DEF Call, l, a, b
  <2>3. r \in live /\ spawned' = [spawned EXCEPT ![r] = Append(@, c)]
        /\ UNCHANGED <<todo, conn, free, waiters>>
    BY <2>1 DEF Issue
  <2> HIDE DEF c
  <2>4. /\ Append(spawned[r], c) \in Seq(Call)
        /\ Len(Append(spawned[r], c)) = Len(spawned[r]) + 1
        /\ \A i \in 1..Len(spawned[r]) : Append(spawned[r], c)[i] = spawned[r][i]
        /\ Append(spawned[r], c)[Len(spawned[r]) + 1] = c
    BY <1>3, <2>2
  <2>5. spawned'[r] = Append(spawned[r], c) /\ \A q \in Requests \ {r} : spawned'[q] = spawned[q]
    BY <2>3 DEF TypeOK
  <2>6. TypeOK'
    BY <1>0, <2>3, <2>4 DEF TypeOK, Call
  <2>7. NumberInv'
    <3>1. ASSUME NEW i \in 1..Len(spawned'[r])
          PROVE  spawned'[r][i].n = Last(r) + Len(todo[r]) + i
      <4>1. CASE i \in 1..Len(spawned[r])
        BY <2>4, <2>5, <4>1 DEF NumberInv
      <4>2. CASE i = Len(spawned[r]) + 1
        BY <2>2, <2>4, <2>5, <4>2
      <4> QED
        BY <1>3, <2>4, <2>5, <4>1, <4>2
    <3>2. \A q \in Requests : \A i \in 1..Len(spawned'[q]) :
             spawned'[q][i].n = Last(q) + Len(todo[q]) + i
      BY <2>5, <3>1 DEF NumberInv
    <3> QED
      BY <1>0, <1>2, <2>3, <3>2 DEF NumberInv
  <2>8. EndedInv'
    BY <1>0, <2>3, <2>5 DEF EndedInv
  <2>9. WaitInv'
    BY <1>0, <2>3 DEF WaitInv, InLine
  <2>10. PoolInv'
    BY <1>0, <2>3 DEF PoolInv, InTxn
  <2> QED
    BY <1>1, <2>6, <2>7, <2>8, <2>9, <2>10
<1>7. CASE Poll(r)
  <2> DEFINE c == Head(spawned[r])
  <2>1. /\ spawned[r] # <<>>
        /\ todo' = [todo EXCEPT ![r] = Append(@, c)]
        /\ spawned' = [spawned EXCEPT ![r] = Tail(@)]
        /\ UNCHANGED <<conn, free, waiters>>
    BY <1>7 DEF Poll
  <2>2. /\ c \in Call /\ c = spawned[r][1] /\ 1 \in 1..Len(spawned[r])
        /\ Tail(spawned[r]) \in Seq(Call)
        /\ Len(Tail(spawned[r])) = Len(spawned[r]) - 1
        /\ \A i \in 1..Len(Tail(spawned[r])) : Tail(spawned[r])[i] = spawned[r][i + 1]
    BY <1>3, <2>1
  <2>3. c.n = Last(r) + Len(todo[r]) + 1 /\ r \in live
    BY <2>1, <2>2 DEF NumberInv, EndedInv
  <2> HIDE DEF c
  <2>4. /\ Append(todo[r], c) \in Seq(Call)
        /\ Append(todo[r], c) # <<>>
        /\ Len(Append(todo[r], c)) = Len(todo[r]) + 1
        /\ \A i \in 1..Len(todo[r]) : Append(todo[r], c)[i] = todo[r][i]
        /\ Append(todo[r], c)[Len(todo[r]) + 1] = c
    <3>1. c \in Call /\ todo[r] \in Seq(Call)
      BY <1>3, <2>2
    <3> QED
      BY <3>1
  <2>5. /\ todo'[r] = Append(todo[r], c) /\ spawned'[r] = Tail(spawned[r])
        /\ \A q \in Requests \ {r} : todo'[q] = todo[q] /\ spawned'[q] = spawned[q]
    BY <2>1 DEF TypeOK
  <2>6. TypeOK'
    BY <1>0, <2>1, <2>2, <2>4 DEF TypeOK, Call
  <2>7. NumberInv'
    <3>1. ASSUME NEW i \in 1..Len(todo'[r]) PROVE todo'[r][i].n = Last(r) + i
      <4>1. CASE i \in 1..Len(todo[r])
        BY <2>4, <2>5, <4>1 DEF NumberInv
      <4>2. CASE i = Len(todo[r]) + 1
        <5>1. todo'[r][i] = c
          BY <2>4, <2>5, <4>2
        <5>2. Last(r) \in Nat /\ Len(todo[r]) \in Nat
          BY <1>3
        <5>3. Last(r) + Len(todo[r]) + 1 = Last(r) + (Len(todo[r]) + 1)
          BY <5>2
        <5> QED
          BY <2>3, <4>2, <5>1, <5>3
      <4> QED
        BY <1>3, <2>4, <2>5, <4>1, <4>2
    <3>2. ASSUME NEW i \in 1..Len(spawned'[r])
          PROVE  spawned'[r][i].n = Last(r) + Len(todo'[r]) + i
      <4>1. spawned'[r][i] = spawned[r][i + 1] /\ i + 1 \in 1..Len(spawned[r])
        BY <1>3, <2>2, <2>5
      <4>2. spawned[r][i + 1].n = Last(r) + Len(todo[r]) + (i + 1)
        BY <4>1 DEF NumberInv
      <4>3. /\ Last(r) \in Nat /\ Len(todo[r]) \in Nat /\ i \in Nat
            /\ Len(todo'[r]) = Len(todo[r]) + 1
        BY <1>3, <2>2, <2>4, <2>5
      <4>4. Last(r) + Len(todo[r]) + (i + 1) = Last(r) + Len(todo'[r]) + i
        BY <4>3
      <4> QED
        BY <4>1, <4>2, <4>4
    <3>3. ASSUME NEW q \in Requests
          PROVE  /\ \A i \in 1..Len(todo'[q]) : todo'[q][i].n = Last(q) + i
                 /\ \A i \in 1..Len(spawned'[q]) :
                       spawned'[q][i].n = Last(q) + Len(todo'[q]) + i
      <4>1. CASE q = r
        BY <3>1, <3>2, <4>1
      <4>2. CASE q # r
        <5>1. todo'[q] = todo[q] /\ spawned'[q] = spawned[q]
          BY <2>5, <4>2
        <5> QED
          BY <5>1 DEF NumberInv
      <4> QED
        BY <4>1, <4>2
    <3> QED
      BY <1>0, <1>2, <3>3 DEF NumberInv
  <2>8. EndedInv'
    BY <1>0, <2>1, <2>3, <2>5 DEF EndedInv
  <2>9. WaitInv'
    <3>1. ASSUME NEW q, InLine(q) PROVE InLine(q)'
      <4>1. q \in Requests /\ todo[q] # <<>>
        BY <3>1 DEF InLine, TypeOK
      <4>2. todo'[q] # <<>> /\ Head(todo'[q]) = Head(todo[q])
        <5>1. CASE q = r
          BY <1>3, <2>4, <2>5, <4>1, <5>1
        <5>2. CASE q # r
          BY <2>5, <4>1, <5>2
        <5> QED
          BY <5>1, <5>2
      <4> QED
        BY <1>0, <2>1, <3>1, <4>2 DEF InLine
    <3> QED
      BY <2>1, <3>1 DEF WaitInv
  <2>10. PoolInv'
    BY <1>0, <2>1 DEF PoolInv, InTxn
  <2> QED
    BY <1>1, <2>6, <2>7, <2>8, <2>9, <2>10
<1>5. CASE GetConn(r)
  <2>1. /\ waiters' = Append(waiters, r)
        /\ UNCHANGED <<spawned, todo, conn, free>>
    BY <1>5 DEF GetConn
  <2>2. InLine(r) /\ ~Waiting(r)
    BY <1>5 DEF GetConn, Running, InLine
  <2>3. /\ waiters' \in Seq(Requests)
        /\ Len(waiters') = Len(waiters) + 1
        /\ \A i \in 1..Len(waiters) : waiters'[i] = waiters[i]
        /\ waiters'[Len(waiters) + 1] = r
    BY <1>3, <2>1
  <2>4. \A q : InLine(q)' <=> InLine(q)
    BY <1>0, <2>1 DEF InLine
  <2>5. \A i \in 1..Len(waiters') : i \in 1..Len(waiters) \/ i = Len(waiters) + 1
    BY <1>3, <2>3
  <2>6. \A i \in 1..Len(waiters') : InLine(waiters'[i])
    BY <2>2, <2>3, <2>5 DEF WaitInv
  <2>7. \A i, j \in 1..Len(waiters') : waiters'[i] = waiters'[j] => i = j
    BY <2>2, <2>3, <2>5 DEF WaitInv, Waiting
  <2>8. WaitInv'
    BY <2>4, <2>6, <2>7 DEF WaitInv
  <2>9. TypeOK'
    BY <1>0, <2>1, <2>3 DEF TypeOK
  <2>10. PoolInv' /\ EndedInv'
    BY <1>0, <2>1 DEF PoolInv, InTxn, EndedInv
  <2>11. NumberInv'
    BY <1>0, <1>2, <2>1 DEF NumberInv
  <2> QED
    BY <1>1, <2>8, <2>9, <2>10, <2>11
<1>6. CASE GrantConn(r)
  <2>1. /\ waiters # <<>> /\ Head(waiters) = r /\ Head(todo[r]).call = "exec" /\ free > 0
        /\ waiters' = Tail(waiters)
        /\ free' = free - 1
        /\ conn' = conn \cup {r}
        /\ spawned' = spawned /\ todo' = todo
    BY <1>6 DEF GrantConn
  <2>2. InLine(r) /\ LineWithout(r)
    BY <2>1, LineMoves
  <2>3. r \in live /\ r \notin conn /\ txn[r] = 0
    BY <2>1, <2>2 DEF InLine
  <2>4. free \in Nat
    BY MaxAssumption DEF TypeOK
  <2>5. PoolInv' /\ free' \in 0..Max
    <3>1. conn' = IF TRUE THEN conn \cup {r} ELSE conn \ {r}
      BY <2>1
    <3>2. txn' = [txn EXCEPT ![r] = 0]
      BY <1>0, <2>3 DEF TypeOK
    <3>3. /\ free' = free + (IF r \in conn THEN 1 ELSE 0) - (IF TRUE THEN 1 ELSE 0)
                          + (IF txn[r] # 0 THEN 1 ELSE 0) - (IF 0 # 0 THEN 1 ELSE 0)
          /\ free' >= 0
      BY <2>1, <2>3, <2>4
    <3> QED
      BY <3>1, <3>2, <3>3, PoolStep
  <2>6. ASSUME NEW q, InLine(q), q # r PROVE InLine(q)'
    BY <1>0, <2>1, <2>6 DEF InLine
  <2>7. WaitInv'
    <3>1. \A i \in 1..Len(waiters') : InLine(waiters'[i]) /\ waiters'[i] # r
      BY <2>2 DEF LineWithout, WaitInv
    <3>2. \A i \in 1..Len(waiters') : InLine(waiters[i])'
      BY <2>6, <3>1
    <3> QED
      BY <2>2, <3>2 DEF LineWithout, WaitInv
  <2>8. TypeOK'
    BY <1>0, <2>1, <2>2, <2>5 DEF TypeOK, LineWithout
  <2>9. NumberInv' /\ EndedInv'
    BY <1>0, <1>2, <2>1, <2>3 DEF NumberInv, EndedInv
  <2> QED
    BY <1>1, <2>5, <2>7, <2>8, <2>9
<1> QED
  BY <1>4, <1>5, <1>6, <1>7

\* The end of a request, wherever its calls are.
LEMMA EndStep == ASSUME IInv, NEW r \in Requests, End(r) PROVE IInv'
<1> USE DEF IInv
<1>1. /\ r \in live
      /\ live' = live \ {r}
      /\ \E s \in CutOff(r) : applied' = applied \cup s
      /\ Release(r)
      /\ conn' = conn \ {r}
      /\ txn' = [txn EXCEPT ![r] = 0]
      /\ gone' = gone \ {r}
      /\ spawned' = [spawned EXCEPT ![r] = <<>>]
      /\ todo' = [todo EXCEPT ![r] = <<>>]
      /\ waiters' = Without(waiters, r)
      /\ log' = log
  BY DEF End
<1>2. /\ todo'[r] = <<>> /\ spawned'[r] = <<>> /\ txn'[r] = 0
      /\ \A q \in Requests \ {r} :
            todo'[q] = todo[q] /\ spawned'[q] = spawned[q] /\ txn'[q] = txn[q]
  BY <1>1 DEF TypeOK
<1>3. /\ \A q : Last(q)' = Last(q) /\ TxnStmts(q)' = TxnStmts(q)
      /\ \A q, n : OpenAt(q, n)' = OpenAt(q, n)
  BY <1>1 DEF Last, TxnStmts, OpenAt
<1>4. LineWithout(r)
  <2>1. waiters \in Seq(Requests) /\ \A i, j \in 1..Len(waiters) : waiters[i] = waiters[j] => i = j
    BY DEF TypeOK, WaitInv
  <2>2. /\ Without(waiters, r) \in Seq(Requests)
        /\ \A i \in 1..Len(Without(waiters, r)) :
              /\ Without(waiters, r)[i] # r
              /\ \E j \in 1..Len(waiters) : Without(waiters, r)[i] = waiters[j]
        /\ \A i, j \in 1..Len(Without(waiters, r)) :
              Without(waiters, r)[i] = Without(waiters, r)[j] => i = j
    BY <2>1, WithoutFacts
  <2> QED
    BY <1>1, <2>2 DEF LineWithout
<1>5. Last(r) \in Nat /\ \A x \in log[r] : x.n \in 1..Last(r)
  BY FS_CardinalityType DEF NumberInv, Last
<1>6. PICK S \in SUBSET Nat :
         /\ applied' = applied \cup ({r} \X S)
         /\ S \in {{}, {Last(r) + 1}} \/ (txn[r] # 0 /\ r \notin gone /\ S = Statements(r, txn[r]))
  <2>1. Statements(r, txn[r]) \in SUBSET Nat /\ {Last(r) + 1} \in SUBSET Nat
    BY <1>5 DEF Statements, TypeOK
  <2>2. Running(r, "exec") => {<<r, Head(todo[r]).n>>} = {r} \X {Last(r) + 1}
    BY HeadFacts DEF Running
  <2>3. {} = {r} \X {}
    OBVIOUS
  <2>4. PICK s \in CutOff(r) : applied' = applied \cup s
    BY <1>1
  <2>5. \/ s = {r} \X {}
        \/ s = {r} \X {Last(r) + 1}
        \/ txn[r] # 0 /\ r \notin gone /\ s = {r} \X Statements(r, txn[r])
    BY <2>2, <2>3 DEF CutOff
  <2> QED
    BY <2>1, <2>4, <2>5
<1>7. applied' \subseteq Requests \X Nat
  BY <1>6 DEF TypeOK
<1>8. PoolInv' /\ free' \in 0..Max
  <2>1. free \in Nat
    BY MaxAssumption DEF TypeOK
  <2>2. Cardinality(conn \cap {r}) = IF r \in conn THEN 1 ELSE 0
    BY PoolFacts
  <2>3. /\ free' = free + (IF r \in conn THEN 1 ELSE 0) - (IF FALSE THEN 1 ELSE 0)
                        + (IF txn[r] # 0 THEN 1 ELSE 0) - (IF 0 # 0 THEN 1 ELSE 0)
        /\ free' >= 0
    BY <1>1, <2>1, <2>2 DEF Release
  <2>4. conn' = IF FALSE THEN conn \cup {r} ELSE conn \ {r}
    BY <1>1
  <2> QED
    BY <1>1, <2>3, <2>4, PoolStep
<1>9. TypeOK'
  <2>1. live' \subseteq Requests /\ conn' \subseteq Requests /\ log' = log
    BY <1>1 DEF TypeOK
  <2>2. todo' \in [Requests -> Seq(Call)]
    <3>1. <<>> \in Seq(Call)
      OBVIOUS
    <3>2. todo \in [Requests -> Seq(Call)]
      BY DEF TypeOK, Call
    <3> QED
      BY <1>1, <3>1, <3>2
  <2>3. txn' \in [Requests -> Nat] /\ gone' \subseteq Requests
    BY <1>1 DEF TypeOK
  <2>4. spawned' \in [Requests -> Seq(Call)]
    <3>1. <<>> \in Seq(Call)
      OBVIOUS
    <3>2. spawned \in [Requests -> Seq(Call)]
      BY DEF TypeOK, Call
    <3> QED
      BY <1>1, <3>1, <3>2
  <2> QED
    BY <1>4, <1>7, <1>8, <2>1, <2>2, <2>3, <2>4 DEF TypeOK, LineWithout, Call
<1>10. NumberInv' /\ EndedInv'
  <2>1. Len(todo'[r]) = 0 /\ Len(spawned'[r]) = 0
    BY <1>2
  <2>2. NumberInv'
    BY <1>1, <1>2, <1>3, <2>1 DEF NumberInv
  <2>3. EndedInv'
    BY <1>1, <1>2 DEF EndedInv
  <2> QED
    BY <2>2, <2>3
<1>11. WaitInv'
  <2>1. ASSUME NEW q, InLine(q), q # r PROVE InLine(q)'
    <3>1. q \in Requests \ {r}
      BY <2>1 DEF InLine, TypeOK
    <3> QED
      BY <1>1, <1>2, <2>1, <3>1 DEF InLine
  <2>2. \A i \in 1..Len(waiters') : InLine(waiters'[i]) /\ waiters'[i] # r
    BY <1>4 DEF LineWithout, WaitInv
  <2>3. \A i \in 1..Len(waiters') : InLine(waiters[i])'
    BY <2>1, <2>2
  <2> QED
    BY <1>4, <2>3 DEF LineWithout, WaitInv
<1>12. OpenInv' /\ RunsWhereIssued' /\ GoneInv'
  <2>1. OpenInv'
    BY <1>1, <1>2, <1>3 DEF OpenInv
  <2>2. RunsWhereIssued'
    BY <1>1, <1>3 DEF RunsWhereIssued
  <2>3. GoneInv'
    BY <1>1, <1>2 DEF GoneInv
  <2> QED
    BY <2>1, <2>2, <2>3
<1>13. TxnInv'
  <2>1. \A q \in Requests : txn'[q] = txn[q] \/ txn'[q] = 0
    BY <1>2
  <2>2. \A q \in Requests : 0 <= Last(q)
    BY FS_CardinalityType DEF NumberInv, Last
  <2> QED
    BY <1>1, <1>3, <2>1, <2>2 DEF TxnInv
<1>14. EffectInv'
  <2>1. ASSUME NEW q \in Requests, q # r, NEW n
        PROVE  <<q, n>> \in applied' <=> <<q, n>> \in applied
    BY <1>6, <2>1
  <2>2. \A q \in live' : \A n \in Nat : <<q, n>> \in applied' => n <= Last(q)'
    BY <1>1, <1>3, <2>1 DEF EffectInv, TypeOK
  <2>3. \A n : <<r, n>> \in applied' <=> <<r, n>> \in applied \/ n \in S
    BY <1>6
  <2>4. \A x \in TxnStmts(r) :
           x.n \in S <=> /\ S \notin {{}, {Last(r) + 1}} /\ txn[r] # 0 /\ r \notin gone
                         /\ x.txn = txn[r]
    <3>1. \A x \in TxnStmts(r) : x.n # Last(r) + 1
      BY <1>5 DEF TxnStmts
    <3>2. CASE S \in {{}, {Last(r) + 1}}
      BY <3>1, <3>2
    <3>3. CASE /\ S \notin {{}, {Last(r) + 1}} /\ txn[r] # 0 /\ r \notin gone
               /\ S = Statements(r, txn[r])
      <4>1. \A x \in TxnStmts(r) : x.txn = txn[r] => x.n \in S
        BY <3>3 DEF TxnStmts, Statements
      <4>2. \A x \in TxnStmts(r) : x.n \in S => x.txn = txn[r]
        BY <3>3, StatementNumbers
      <4> QED
        BY <3>3, <4>1, <4>2
    <3> QED
      BY <1>6, <3>2, <3>3
  <2>5. \A c \in log[r] : c.call \in {"commit", "rollback"} /\ c.txn # 0 => txn[r] # c.txn
    BY DEF TxnInv
  <2>6. /\ \A x, y \in TxnStmts(r) :
              x.txn = y.txn /\ <<r, x.n>> \in applied' => <<r, y.n>> \in applied'
        /\ \A x \in TxnStmts(r), c \in log[r] :
              c.txn = x.txn =>
                 /\ c.call = "commit" /\ c.ok /\ ~c.alone => <<r, x.n>> \in applied'
                 /\ c.call = "rollback" \/ c.alone => <<r, x.n>> \notin applied'
    <3>1. /\ \A x, y \in TxnStmts(r) :
                x.txn = y.txn /\ <<r, x.n>> \in applied => <<r, y.n>> \in applied
          /\ \A x \in TxnStmts(r), c \in log[r] :
                c.txn = x.txn =>
                   /\ c.call = "commit" /\ c.ok /\ ~c.alone => <<r, x.n>> \in applied
                   /\ c.call = "rollback" \/ c.alone => <<r, x.n>> \notin applied
      BY DEF EffectInv
    <3>2. ASSUME NEW x \in TxnStmts(r), NEW c \in log[r], c.txn = x.txn,
                 c.call = "rollback" \/ c.alone
          PROVE  x.n \notin S
      <4>1. c.alone /\ c.txn = txn[r] => r \in gone
        BY DEF GoneInv
      <4> QED
        BY <2>4, <2>5, <3>2, <4>1
    <3>3. \A x, y \in TxnStmts(r) : x.txn = y.txn => (x.n \in S <=> y.n \in S)
      BY <2>4
    <3> QED
      BY <2>3, <3>1, <3>2, <3>3
  <2>7. \A q \in Requests \ {r} : q \in live' => q \in live
    BY <1>1
  <2> QED
    BY <1>1, <1>3, <2>1, <2>2, <2>6, <2>7 DEF EffectInv
<1> QED
  BY <1>8, <1>9, <1>10, <1>11, <1>12, <1>13, <1>14

LEMMA NextIInv == IInv /\ [Next]_vars => IInv'
<1> SUFFICES ASSUME IInv, [Next]_vars PROVE IInv'
  OBVIOUS
<1>1. CASE UNCHANGED vars
  <2>1. OpenInv' /\ TxnInv' /\ RunsWhereIssued' /\ GoneInv' /\ EffectInv'
    BY <1>1, HistoryUnchanged DEF vars
  <2>2. \A q : Last(q)' = Last(q) /\ InLine(q)' = InLine(q)
    BY <1>1 DEF vars, Last, InLine
  <2> QED
    BY <1>1, <2>1, <2>2
    DEF vars, IInv, TypeOK, NumberInv, EndedInv, WaitInv, PoolInv, InTxn
<1>2. CASE Next
  <2>1. PICK r \in Requests :
           \/ \E call \in Calls : Issue(r, call)
           \/ Poll(r) \/ Run(r) \/ Grant(r) \/ ConnError(r) \/ End(r)
    BY <1>2 DEF Next
  <2> QED
    BY <2>1, CallStep, RunStep, GrantStep, EndStep DEF Run, Grant
<1> QED
  BY <1>1, <1>2

LEMMA Invariance == Spec => []IInv
BY InitIInv, NextIInv, PTL DEF Spec

-----------------------------------------------------------------------------
(* The results.                                                            *)

\* The sessions, the pool and the database are well-typed.
THEOREM TypeCorrect == Spec => []TypeOK
<1>1. IInv => TypeOK
  BY DEF IInv
<1> QED
  BY <1>1, Invariance, PTL

\* No connection of the pool is lost or counted twice, whatever fails and
\* wherever requests are cut off.
THEOREM ConnectionsConserved ==
    Spec => [](free + Cardinality(conn) + Cardinality(InTxn) = Max)
<1>1. IInv => free + Cardinality(conn) + Cardinality(InTxn) = Max
  BY DEF IInv, PoolInv
<1> QED
  BY <1>1, Invariance, PTL

\* A statement runs in the transaction that was open when JS issued it.
THEOREM StatementsRunWhereIssued == Spec => []RunsWhereIssued
<1>1. IInv => RunsWhereIssued
  BY DEF IInv
<1> QED
  BY <1>1, Invariance, PTL

\* Transactions are all or nothing, and a commit that answers Ok has committed
\* all of one none of whose statements has failed, although the database may
\* roll a transaction back on its own and the session does not notice.
THEOREM TransactionsAreAtomic == Spec => []AllOrNothing
<1>1. IInv => AllOrNothing
  <2> SUFFICES ASSUME IInv, NEW r \in Requests, NEW s \in log[r], s.call = "start", s.ok
               PROVE  LET during == {e \in log[r] : e.txn = s.n /\ e.call # "start"}
                          execs  == {e \in during : e.call = "exec"}
                          within == {r} \X Statements(r, s.n)
                          Ended(call) == \E e \in during : e.call = call
                      IN  /\ within \subseteq applied \/ within \cap applied = {}
                          /\ \/ r \in live /\ ~Ended("commit") /\ ~Ended("rollback")
                             \/ Ended("rollback")
                             \/ \E e \in during : e.alone
                             => within \cap applied = {}
                          /\ (\A e \in execs : e.ok) /\ (\E e \in during : e.call = "commit" /\ e.ok)
                             => \A e \in execs : <<r, e.n>> \in applied
    BY DEF AllOrNothing
  <2> DEFINE during == {e \in log[r] : e.txn = s.n /\ e.call # "start"}
             execs  == {e \in during : e.call = "exec"}
             within == {r} \X Statements(r, s.n)
             Ended(call) == \E e \in during : e.call = call
  <2>1. s.n # 0
    BY DEF IInv, NumberInv
  <2>2. \A p \in within : \E x \in TxnStmts(r) : x.txn = s.n /\ p = <<r, x.n>>
    BY <2>1 DEF Statements, TxnStmts
  <2>3. \A x \in TxnStmts(r), c \in log[r] :
           c.txn = x.txn =>
              /\ c.call = "commit" /\ c.ok /\ ~c.alone => <<r, x.n>> \in applied
              /\ c.call = "rollback" \/ c.alone => <<r, x.n>> \notin applied
    BY DEF IInv, EffectInv
  <2>4. within \subseteq applied \/ within \cap applied = {}
    <3> HIDE DEF within
    <3> QED  BY <2>2 DEF IInv, EffectInv
  <2>5. r \in live /\ ~Ended("commit") /\ ~Ended("rollback") => within \cap applied = {}
    <3>1. r \in live =>
             \A x \in TxnStmts(r) :
                <<r, x.n>> \in applied =>
                   \E c \in log[r] : c.call \in {"commit", "rollback"} /\ c.txn = x.txn
      BY DEF IInv, EffectInv
    <3> HIDE DEF within
    <3> QED  BY <2>2, <3>1
  <2>6. Ended("rollback") \/ (\E e \in during : e.alone) => within \cap applied = {}
    <3> HIDE DEF within
    <3> QED  BY <2>2, <2>3
  <2>7. ASSUME \A e \in execs : e.ok, NEW c \in during, c.call = "commit", c.ok, NEW x \in execs
        PROVE  <<r, x.n>> \in applied
    <3>1. \A e \in during : ~e.alone
      <4> SUFFICES ASSUME NEW e \in during, e.alone PROVE FALSE
        OBVIOUS
      <4>1. PICK f \in log[r] : f.call = "exec" /\ f.txn = e.txn /\ ~f.ok
        BY DEF IInv, GoneInv
      <4>2. f \in execs
        BY <4>1
      <4> QED
        BY <2>7, <4>1, <4>2
    <3>2. x \in TxnStmts(r)
      BY <2>1, <2>7, <3>1 DEF TxnStmts
    <3> QED
      BY <2>3, <2>7, <3>1, <3>2
  <2> HIDE DEF within
  <2>8. (\A e \in execs : e.ok) /\ (\E e \in during : e.call = "commit" /\ e.ok)
           => \A e \in execs : <<r, e.n>> \in applied
    BY <2>7
  <2> QED
    BY <2>4, <2>5, <2>6, <2>8 DEF within
<1> QED
  BY <1>1, Invariance, PTL

=============================================================================

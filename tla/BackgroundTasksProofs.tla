----------------------- MODULE BackgroundTasksProofs -----------------------
(***************************************************************************)
(* Proofs about BackgroundTasks, for every set of entries and of versions  *)
(* and every number of permits.                                            *)
(***************************************************************************)
EXTENDS BackgroundTasks, FiniteSetTheorems, TLAPS

LEMMA InitIInv == Init => TypeOK /\ IInv
<1> SUFFICES ASSUME Init PROVE TypeOK /\ IInv  OBVIOUS
<1> USE DEF Init
<1>1. TypeOK  BY PermitsAssumption, MaxOpenAssumption DEF TypeOK
<1>2. Reading = {} /\ Holding = {}  BY DEF Reading, Holding
<1>3. IsFiniteSet(Holding) /\ PermitsConserved
  BY <1>2, FS_EmptySet, PermitsAssumption DEF PermitsConserved
<1>4. QueuedOnce /\ \A e \in Entries : RanOnce(e)  BY DEF QueuedOnce, RanOnce
<1> QED  BY <1>1, <1>2, <1>3, <1>4 DEF IInv, QuietAfterLock

\* The entry at the head of the channel, and what is left behind it.
LEMMA ChannelHead ==
    ASSUME TypeOK, lp # <<>>
    PROVE  /\ Head(lp) \in Entries /\ Head(lp) = lp[1]
           /\ Len(Tail(lp)) = Len(lp) - 1
           /\ \A i \in 1..Len(Tail(lp)) : Tail(lp)[i] = lp[i + 1] /\ i + 1 \in 1..Len(lp)
           /\ 1 \in 1..Len(lp)
           /\ Tail(lp) \in Seq(Entries)
  BY DEF TypeOK

\* The type of the state under each step.
LEMMA TypeStep == TypeOK /\ IInv /\ [Next]_vars => TypeOK'
<1> SUFFICES ASSUME TypeOK, IInv, [Next]_vars PROVE TypeOK'  OBVIOUS
<1> USE PermitsAssumption, MaxOpenAssumption
<1>1. ASSUME NEW e \in Entries, NEW v \in Versions, Submit(e, v) PROVE TypeOK'
  BY <1>1 DEF Submit, TypeOK
<1>2. CASE IssueLp
  <2>1. Head(lp) \in Entries /\ lp' \in Seq(Entries)
    BY <1>2, ChannelHead DEF IssueLp
  <2>2. \E s \in {"spawned", "dropped"} : task' = [task EXCEPT ![Head(lp)] = s]
    BY <1>2 DEF IssueLp
  <2>3. permits' \in 0..Permits /\ failCount' \in Nat
    BY <1>2 DEF IssueLp, TypeOK
  <2> QED  BY <1>2, <2>1, <2>2, <2>3 DEF IssueLp, TypeOK
<1>3. ASSUME NEW e \in Entries, RunTask(e) PROVE TypeOK'
  <2>1. CASE ReadLock(e)  BY <2>1 DEF ReadLock, TypeOK
  <2>2. CASE LoadMd(e)  BY <2>2 DEF LoadMd, TypeOK
  <2>3. CASE CheckVersion(e)  BY <2>3 DEF CheckVersion, TypeOK
  <2>4. CASE Invoke(e)
    <3>1. md[e] \in Versions
      BY <2>4 DEF Invoke, IInv, RanOnce
    <3>2. Append(ran[e], md[e]) \in Seq(Versions)  BY <3>1 DEF TypeOK
    <3> QED  BY <2>4, <3>2 DEF Invoke, TypeOK
  <2>5. CASE LoadMdError(e) \/ VersionChanged(e) \/ InvokeDone(e) \/ Timeout(e)
    <3>1. e \in Holding
      BY <2>5 DEF LoadMdError, VersionChanged, InvokeDone, Timeout, Holding, Reading
    <3>2. Cardinality(Holding) \in Nat /\ Cardinality(Holding) # 0
      BY <3>1, FS_CardinalityType, FS_EmptySet DEF IInv
    <3>3. permits + 1 \in 0..Permits
      BY <3>2 DEF IInv, PermitsConserved, TypeOK
    <3> QED
      BY <2>5, <3>3 DEF LoadMdError, VersionChanged, InvokeDone, Timeout, EndTask, TypeOK
  <2> QED  BY <1>3, <2>1, <2>2, <2>3, <2>4, <2>5 DEF RunTask
<1>4. CASE Shutdown \/ Serve \/ Served
  BY <1>4 DEF Shutdown, Signal, AwaitLock, WriteLock, Exit, Serve, Served, TypeOK
<1>5. CASE UNCHANGED vars
  BY <1>5 DEF vars, TypeOK
<1> QED  BY <1>1, <1>2, <1>3, <1>4, <1>5 DEF Next

\* The channel under each step.
LEMMA ChannelStep == TypeOK /\ IInv /\ [Next]_vars => QueuedOnce'
<1> SUFFICES ASSUME TypeOK, IInv, [Next]_vars PROVE QueuedOnce'  OBVIOUS
<1> USE DEF IInv
<1>0. \A i \in 1..Len(lp) : lp[i] \in Entries  BY DEF TypeOK
<1>1. ASSUME NEW e \in Entries, NEW v \in Versions, Submit(e, v) PROVE QueuedOnce'
  <2>1. \A i \in 1..Len(lp) : lp[i] # e  BY <1>1 DEF Submit, QueuedOnce
  <2>2. /\ Len(lp') = Len(lp) + 1 /\ lp'[Len(lp) + 1] = e
        /\ \A i \in 1..Len(lp) : lp'[i] = lp[i]
        /\ \A i \in 1..Len(lp') : i \in 1..Len(lp) \/ i = Len(lp) + 1
    BY <1>1 DEF Submit, TypeOK
  <2> QED  BY <1>0, <1>1, <2>1, <2>2 DEF Submit, QueuedOnce, TypeOK
<1>2. CASE IssueLp
  <2>1. /\ \A i \in 1..Len(lp') : lp'[i] = lp[i + 1] /\ i + 1 \in 1..Len(lp) /\ i + 1 # 1
        /\ Head(lp) = lp[1] /\ 1 \in 1..Len(lp) /\ Head(lp) \in Entries
    BY <1>2, ChannelHead DEF IssueLp
  <2>2. \A i \in 1..Len(lp') : lp'[i] # Head(lp) /\ lp'[i] \in Entries
    BY <1>0, <2>1 DEF QueuedOnce
  <2>3. \A x \in Entries : x # Head(lp) => task'[x] = task[x]
    BY <1>2 DEF IssueLp, TypeOK
  <2>4. \A i \in 1..Len(lp') : task'[lp'[i]] = "queued"
    BY <2>1, <2>2, <2>3 DEF QueuedOnce
  <2>5. \A i, j \in 1..Len(lp') : i # j => lp'[i] # lp'[j]
    <3> SUFFICES ASSUME NEW i \in 1..Len(lp'), NEW j \in 1..Len(lp'), i # j
                 PROVE  lp'[i] # lp'[j]
      OBVIOUS
    <3>1. i + 1 # j + 1  OBVIOUS
    <3> QED  BY <2>1, <3>1 DEF QueuedOnce
  <2> QED  BY <2>4, <2>5 DEF QueuedOnce
<1>3. ASSUME NEW e \in Entries, RunTask(e) PROVE QueuedOnce'
  <2>1. lp' = lp /\ task[e] # "queued" /\ \A x \in Entries : x # e => task'[x] = task[x]
    BY <1>3 DEF RunTask, ReadLock, LoadMd, LoadMdError, CheckVersion, VersionChanged,
                Invoke, InvokeDone, Timeout, EndTask, TypeOK
  <2> QED  BY <1>0, <2>1 DEF QueuedOnce
<1>4. CASE Shutdown \/ Serve \/ Served
  BY <1>4 DEF Shutdown, Signal, AwaitLock, WriteLock, Exit, Serve, Served, QueuedOnce
<1>5. CASE UNCHANGED vars
  BY <1>5 DEF vars, QueuedOnce
<1> QED  BY <1>1, <1>2, <1>3, <1>4, <1>5 DEF Next

\* What an entry has run, under each step.
LEMMA EntryStep ==
    ASSUME TypeOK, IInv, [Next]_vars, NEW x \in Entries
    PROVE  RanOnce(x)'
<1>0. RanOnce(x)  BY DEF IInv
<1>1. ASSUME task'[x] = task[x], md'[x] = md[x], ran'[x] = ran[x], pinned'[x] = pinned[x]
      PROVE  RanOnce(x)'
  BY <1>0, <1>1 DEF RanOnce
<1>2. ASSUME NEW e \in Entries, NEW v \in Versions, Submit(e, v) PROVE RanOnce(x)'
  <2>1. CASE x = e  BY <1>0, <1>2, <2>1 DEF Submit, RanOnce, TypeOK
  <2>2. CASE x # e  BY <1>1, <1>2, <2>2 DEF Submit, TypeOK
  <2> QED  BY <2>1, <2>2
<1>3. CASE IssueLp
  <2>1. Head(lp) \in Entries /\ task[Head(lp)] = "queued"
    BY <1>3, ChannelHead DEF IssueLp, IInv, QueuedOnce
  <2>2. CASE x = Head(lp)
    <3>1. task'[x] \in {"spawned", "dropped"} /\ UNCHANGED <<md, ran, pinned>>
      BY <1>3, <2>1, <2>2 DEF IssueLp, TypeOK
    <3> QED  BY <1>0, <2>1, <2>2, <3>1 DEF RanOnce
  <2>3. CASE x # Head(lp)  BY <1>1, <1>3, <2>1, <2>3 DEF IssueLp, TypeOK
  <2> QED  BY <2>2, <2>3
<1>4. ASSUME NEW e \in Entries, RunTask(e) PROVE RanOnce(x)'
  <2>1. CASE x # e
    BY <1>1, <1>4, <2>1 DEF RunTask, ReadLock, LoadMd, LoadMdError, CheckVersion,
                VersionChanged, Invoke, InvokeDone, Timeout, EndTask, TypeOK
  <2>2. CASE x = e /\ (ReadLock(e) \/ LoadMd(e) \/ CheckVersion(e))
    <3>1. /\ task[x] \in {"spawned", "loading", "checking"}
          /\ task'[x] \in {"loading", "checking", "starting"}
          /\ task'[x] = "starting" => md'[x] = pinned[x]
          /\ ran' = ran /\ pinned' = pinned
      BY <2>2 DEF ReadLock, LoadMd, CheckVersion, TypeOK
    <3> QED  BY <1>0, <3>1 DEF RanOnce
  <2>3. CASE x = e /\ Invoke(e)
    <3>1. ran[x] = <<>> /\ md[x] = pinned[x] /\ pinned[x] \in Versions
      BY <1>0, <2>3 DEF Invoke, RanOnce
    <3>2. ran'[x] = <<pinned[x]>> /\ task'[x] = "invoked" /\ pinned' = pinned
      BY <2>3, <3>1 DEF Invoke, TypeOK
    <3> QED  BY <3>1, <3>2 DEF RanOnce
  <2>4. CASE x = e /\ (LoadMdError(e) \/ VersionChanged(e) \/ InvokeDone(e) \/ Timeout(e))
    <3>1. task'[x] = "ended" /\ task[x] # "new" /\ UNCHANGED <<md, ran, pinned>>
      BY <2>4 DEF LoadMdError, VersionChanged, InvokeDone, Timeout, EndTask, TypeOK
    <3> QED  BY <1>0, <3>1 DEF RanOnce
  <2> QED  BY <1>4, <2>1, <2>2, <2>3, <2>4 DEF RunTask
<1>5. CASE Shutdown \/ Serve \/ Served
  BY <1>1, <1>5 DEF Shutdown, Signal, AwaitLock, WriteLock, Exit, Serve, Served
<1>6. CASE UNCHANGED vars
  BY <1>1, <1>6 DEF vars
<1> QED  BY <1>2, <1>3, <1>4, <1>5, <1>6 DEF Next

\* Permits, and the lock of the shutdown, under each step.
LEMMA PermitStep ==
    TypeOK /\ IInv /\ [Next]_vars =>
        IsFiniteSet(Holding') /\ PermitsConserved' /\ QuietAfterLock'
<1> DEFINE Goal == IsFiniteSet(Holding') /\ PermitsConserved' /\ QuietAfterLock'
<1> SUFFICES ASSUME TypeOK, IInv, [Next]_vars PROVE Goal  OBVIOUS
<1> USE DEF IInv
<1>0. Cardinality(Holding) \in Nat  BY FS_CardinalityType
<1>1. ASSUME Holding' = Holding, permits' = permits,
             Reading' = Reading, main' = main \/ main' \notin {"locked", "exited"}
      PROVE  Goal
  BY <1>1 DEF PermitsConserved, QuietAfterLock
<1>2. ASSUME NEW e \in Entries, NEW v \in Versions, Submit(e, v) PROVE Goal
  <2>1. Holding' = Holding /\ Reading' = Reading
    BY <1>2 DEF Submit, Holding, Reading, TypeOK
  <2> QED  BY <1>1, <1>2, <2>1 DEF Submit
<1>3. CASE IssueLp
  <2>1. Head(lp) \in Entries /\ task[Head(lp)] = "queued"
    BY <1>3, ChannelHead DEF IssueLp, QueuedOnce
  <2>2. Head(lp) \notin Holding /\ main' = main
    BY <1>3, <2>1 DEF IssueLp, Holding, Reading
  <2>3. CASE permits > 0
    <3>1. task' = [task EXCEPT ![Head(lp)] = "spawned"] /\ permits' = permits - 1
      BY <1>3, <2>3 DEF IssueLp
    <3>2. Holding' = Holding \cup {Head(lp)} /\ Reading' = Reading
      BY <2>1, <3>1 DEF Holding, Reading, TypeOK
    <3>3. IsFiniteSet(Holding') /\ Cardinality(Holding') = Cardinality(Holding) + 1
      BY <2>2, <3>2, FS_AddElement
    <3> QED
      BY <1>0, <2>2, <3>1, <3>2, <3>3 DEF PermitsConserved, QuietAfterLock, TypeOK
  <2>4. CASE ~(permits > 0)
    <3>1. task' = [task EXCEPT ![Head(lp)] = "dropped"] /\ permits' = permits
      BY <1>3, <2>4 DEF IssueLp
    <3>2. Holding' = Holding /\ Reading' = Reading
      BY <2>1, <3>1 DEF Holding, Reading, TypeOK
    <3> QED  BY <1>1, <2>2, <3>1, <3>2
  <2> QED  BY <2>3, <2>4
<1>4. ASSUME NEW e \in Entries, RunTask(e) PROVE Goal
  <2>1. CASE ReadLock(e)
    <3>1. Holding' = Holding
      BY <2>1 DEF ReadLock, Holding, Reading, TypeOK
    <3> QED  BY <2>1, <3>1 DEF ReadLock, PermitsConserved, QuietAfterLock
  <2>2. CASE LoadMd(e) \/ CheckVersion(e) \/ Invoke(e)
    <3>1. Holding' = Holding /\ Reading' = Reading
      BY <2>2 DEF LoadMd, CheckVersion, Invoke, Holding, Reading, TypeOK
    <3> QED  BY <1>1, <2>2, <3>1 DEF LoadMd, CheckVersion, Invoke
  <2>3. CASE LoadMdError(e) \/ VersionChanged(e) \/ InvokeDone(e) \/ Timeout(e)
    <3>1. /\ e \in Holding /\ main' = main /\ permits' = permits + 1
          /\ task' = [task EXCEPT ![e] = "ended"]
      BY <2>3 DEF LoadMdError, VersionChanged, InvokeDone, Timeout, EndTask, Holding, Reading
    <3>2. Holding' = Holding \ {e} /\ Reading' = Reading \ {e}
      BY <3>1 DEF Holding, Reading, TypeOK
    <3>3. IsFiniteSet(Holding') /\ Cardinality(Holding') = Cardinality(Holding) - 1
      BY <3>1, <3>2, FS_RemoveElement
    <3>4. permits' + Cardinality(Holding') = Permits
      BY <1>0, <3>1, <3>3, PermitsAssumption DEF PermitsConserved, TypeOK
    <3> QED  BY <3>1, <3>2, <3>3, <3>4 DEF PermitsConserved, QuietAfterLock
  <2> QED  BY <1>4, <2>1, <2>2, <2>3 DEF RunTask
<1>5. CASE Shutdown \/ Serve \/ Served
  <2>1. Holding' = Holding /\ Reading' = Reading /\ permits' = permits
    BY <1>5 DEF Shutdown, Signal, AwaitLock, WriteLock, Exit, Serve, Served, Holding, Reading
  <2> QED
    BY <1>5, <2>1 DEF Shutdown, Signal, AwaitLock, WriteLock, Exit, Serve, Served, PermitsConserved,
                      QuietAfterLock
<1>6. CASE UNCHANGED vars
  <2>1. Holding' = Holding /\ Reading' = Reading
    BY <1>6 DEF vars, Holding, Reading
  <2> QED  BY <1>1, <1>6, <2>1 DEF vars
<1> QED  BY <1>2, <1>3, <1>4, <1>5, <1>6 DEF Next

\* The invariant of the background tasks.
LEMMA Invariance == Spec => [](TypeOK /\ IInv)
<1>1. TypeOK /\ IInv /\ [Next]_vars => (TypeOK /\ IInv)'
  BY TypeStep, ChannelStep, EntryStep, PermitStep DEF IInv
<1> QED  BY InitIInv, <1>1, PTL DEF Spec

\* Every reachable state of the background tasks is well-typed.
THEOREM TypeCorrect == Spec => []TypeOK
BY Invariance, PTL

\* Every path of a task gives its permit back: free permits and tasks add up,
\* for every number of entries and permits.
THEOREM NoPermitLeak == Spec => []PermitsConserved
<1>1. IInv => PermitsConserved  BY DEF IInv
<1> QED  BY <1>1, Invariance, PTL

\* Once the host holds the write lock no task is under way, however many
\* entries the workers go on submitting.
THEOREM Quiet == Spec => []QuietAfterLock
<1>1. IInv => QuietAfterLock  BY DEF IInv
<1> QED  BY <1>1, Invariance, PTL

\* An entry runs at most once and only in the version that submitted it.
THEOREM AtMostOnce == Spec => []AtMostOnceSameVersion
<1>1. TypeOK /\ IInv => AtMostOnceSameVersion
  <2> SUFFICES ASSUME TypeOK, IInv, NEW e \in Entries
               PROVE  /\ Len(ran[e]) <= 1
                      /\ \A i \in 1..Len(ran[e]) : ran[e][i] = pinned[e]
                      /\ task[e] = "dropped" => ran[e] = <<>>
    BY DEF AtMostOnceSameVersion
  <2>1. RanOnce(e)  BY DEF IInv
  <2>2. CASE ran[e] = <<>>  BY <2>2
  <2>3. CASE ran[e] = <<pinned[e]>> /\ task[e] \in {"invoked", "ended"}
    <3>1. Len(ran[e]) = 1 /\ ran[e][1] = pinned[e]  BY <2>3
    <3> QED  BY <2>3, <3>1
  <2> QED  BY <2>1, <2>2, <2>3 DEF RanOnce
<1> QED  BY <1>1, Invariance, PTL

=============================================================================

------------------------------ MODULE KvStore ------------------------------
(***************************************************************************)
(* The key-value API on the host (api/kv/mod.rs) over FoundationDB, whose  *)
(* transactions are modelled by their read version, read conflicts and     *)
(* own writes.  A compare-and-set walks its keys, one awaited read at a    *)
(* time, sets as it goes and commits; a commit that fails is run again     *)
(* from the start if the database calls the error retryable, even when it  *)
(* was applied.  One more client lists a prefix page by page.              *)
(***************************************************************************)
EXTENDS KvRequests, SequencesExt, FiniteSetsExt

CONSTANTS
    InitStores,   \* what the store may hold before
    Scans,        \* listings a client may make: [prefix, reverse, limit]
    MaxKeysPerOp, \* MAX_KEYS_PER_OP
    LargeKeys,    \* the keys beyond MAX_KEY_SIZE
    LargeValues,  \* the values beyond MAX_VALUE_SIZE
    MaxFaults,    \* failures of the database, in number
    VersionstampCode, \* the type code 0x32, behind every segment of a path
    Empty         \* the empty segment of a path such as "a//b" or "/a"

ASSUME StoreAssumption == InitStores \subseteq Stores /\ MaxFaults \in Nat

\* Segments are numbers in their order; a key is of bounded size.
ASSUME KeysAssumption ==
    /\ VersionstampCode \in Nat
    /\ Keys \subseteq Seq(0 .. VersionstampCode - 1) /\ IsFiniteSet(Keys)
    /\ None \notin Seq(Nat)

\* A listing with a limit; 0 would mean none.
ASSUME ScansAssumption ==
    \A s \in Scans : s.prefix \in Seq(Nat) /\ s.reverse \in BOOLEAN /\ s.limit \in Nat \ {0}

VARIABLES
    store, records, version,  \* see AtomicKv
    changed,   \* key -> version that last wrote it: the resolvers' memory
    req,       \* client -> its request
    state,     \* client -> where its handler is
    pos,       \* client -> index of the next key
    txn,       \* client -> transaction
    answer,    \* client -> response, or None
    applied,   \* client -> how often its request was applied (history)
    unknown,   \* client -> commits with an unknown result (history)
    lost,      \* client -> its versionstamp future failed (history)
    faults,    \* failures so far
    scan,      \* the listing in progress
    hist       \* the listing's history: keys present throughout it, keys present
               \* at some time of it, whether a row in its range was filtered out

client == <<req, state, pos, txn, answer, applied, unknown, lost>>
vars == <<store, records, version, changed, client, faults, scan, hist>>

NoTxn == [snap |-> None, cur |-> None, rv |-> 0, read |-> {}, wrote |-> {}, got |-> <<>>]

Present(st) == {k \in Keys : st[k] # None}

Txn == [snap : Stores \cup {None}, cur : Stores \cup {None}, rv : Nat,
        read : SUBSET Keys, wrote : SUBSET Keys, got : Seq(Values \cup {None})]

TypeOK ==
    /\ store \in Stores /\ version \in Nat /\ req \in [Clients -> Requests]
    /\ \A r \in records : r.key \in Keys /\ r.stamp \in 1 .. version /\ r.value \in Values
    /\ changed \in [Keys -> 0 .. version]
    /\ state \in [Clients -> {"called", "begin", "keys", "commit", "stamp", "done"}]
    /\ pos \in [Clients -> Nat \ {0}] /\ \A c \in Clients : pos[c] <= Len(req[c].parts) + 1
    /\ txn \in [Clients -> Txn] /\ \A c \in Clients : txn[c].rv <= version
    /\ answer \in [Clients -> {None, Ok, Refused, Failed}
                                \cup [is : {"got"}, values : Seq(Values \cup {None})]]
    /\ applied \in [Clients -> Nat] /\ unknown \in [Clients -> Nat]
    /\ lost \in [Clients -> BOOLEAN] /\ faults \in 0 .. MaxFaults

ScanOf(s) ==
    [prefix |-> s.prefix, reverse |-> s.reverse, limit |-> s.limit, cursor |-> None,
     got |-> <<>>, open |-> TRUE]

Init ==
    /\ store \in InitStores
    /\ records = {} /\ version = 0
    /\ changed = [k \in Keys |-> 0]
    /\ req \in [Clients -> Requests]
    /\ state = [c \in Clients |-> "called"]
    /\ pos = [c \in Clients |-> 1]
    /\ txn = [c \in Clients |-> NoTxn]
    /\ answer = [c \in Clients |-> None]
    /\ applied = [c \in Clients |-> 0]
    /\ unknown = [c \in Clients |-> 0]
    /\ lost = [c \in Clients |-> FALSE]
    /\ faults = 0
    /\ \E s \in Scans : scan = ScanOf(s)
    /\ hist = [stay |-> Present(store), ever |-> Present(store), hidden |-> FALSE]

Fault == faults < MaxFaults /\ faults' = faults + 1

-----------------------------------------------------------------------------
(* Keys.  A path is packed as the tuple of its non-empty segments; packed  *)
(* keys order as their tuples do.  The key of a versionstamped record is   *)
(* that of its path, the code 0x32 and the stamp: behind all paths below   *)
(* it, and not a tuple of strings.                                         *)

\* The elements of a finite set from the first to the last in an order on it.
Ranked(S, order) ==
    [n \in 1 .. Cardinality(S) |->
        CHOOSE x \in S : Cardinality({y \in S : <<y, x>> \in order}) = n - 1]

Norm(path) ==
    LET kept == {i \in DOMAIN path : path[i] # Empty}
        at == Ranked(kept, {pair \in kept \X kept : pair[1] < pair[2]})
    IN  [n \in DOMAIN at |-> path[at[n]]]

Before(a, b) ==
    \/ IsStrictPrefix(a, b)
    \/ \E i \in DOMAIN a \cap DOMAIN b :
          a[i] < b[i] /\ \A j \in 1 .. i - 1 : a[j] = b[j]

\* The order of a listing.
Precedes(s, a, b) == IF s.reverse THEN Before(b, a) ELSE Before(a, b)

Rows == Present(store) \cup {Append(r.key, VersionstampCode + r.stamp) : r \in records}

-----------------------------------------------------------------------------
(* Faulty variants.                                                        *)

\* The reads are snapshot reads, which conflict with nobody.
SetPart_Snapshot(c) ==
    LET p == req[c].parts[pos[c]]
    IN  txn' = [txn EXCEPT ![c].cur[p.key] = Assign(p.set, @),
                           ![c].wrote = @ \cup (IF p.set.is \in {"delete", "value"}
                                                THEN {p.key} ELSE {})]

\* on_error keeps the transaction and its old read version.
Retry_OldVersion(c) == state' = [state EXCEPT ![c] = "commit"]

\* What was set before a failing check is committed with the refusal.
Drop_Commits(c) ==
    /\ store' = txn[c].cur
    /\ applied' = [applied EXCEPT ![c] = @ + 1]
    /\ UNCHANGED <<records, version, changed>>

\* The forward cursor is not excluded from the next page.
AfterCursor_Inclusive(s, row) ==
    LET at == Norm(s.prefix) \o s.cursor
    IN  (~s.reverse /\ row = at) \/ Precedes(s, at, row)

-----------------------------------------------------------------------------
(* Transactions                                                            *)

\* The value a get of the transaction returns: of its read version, with the
\* transaction's own writes over it.
ReadFrom(c) == txn[c].cur

\* A read of a key that the transaction has written does not reach the
\* database and conflicts with nobody.
Conflicts(c) == \E k \in txn[c].read : changed[k] > txn[c].rv

Respond(c, a) ==
    /\ answer' = [answer EXCEPT ![c] = a]
    /\ state' = [state EXCEPT ![c] = "done"]

\* The arguments are checked in the worker before anything is sent. The value
\* of a versionstamped record is not looked at.
Valid(r) ==
    /\ Len(r.parts) <= MaxKeysPerOp
    /\ \A n \in DOMAIN r.parts :
          LET p == r.parts[n]
          IN  /\ p.key \notin LargeKeys
              /\ p.check.is = "value" => p.check.value \notin LargeValues
              /\ p.set.is = "value" => p.set.value \notin LargeValues

Call(c) ==
    /\ state[c] = "called"
    /\ IF Valid(req[c])
       THEN state' = [state EXCEPT ![c] = "begin"] /\ UNCHANGED answer
       ELSE Respond(c, Failed)
    /\ UNCHANGED <<store, records, version, changed, req, pos, txn, applied, unknown,
                   lost, faults, scan>>

\* create_trx, or the transaction that on_error has reset, gets its read version.
Begin(c) ==
    /\ state[c] = "begin"
    /\ txn' = [txn EXCEPT ![c] = [snap |-> store, cur |-> store, rv |-> version,
                                  read |-> {}, wrote |-> {}, got |-> <<>>]]
    /\ pos' = [pos EXCEPT ![c] = 1]
    /\ state' = [state EXCEPT ![c] = "keys"]
    /\ UNCHANGED <<store, records, version, changed, req, answer, applied, unknown, lost,
                   faults, scan>>

-----------------------------------------------------------------------------
(* The loop over the keys                                                  *)

CurrentPart(c) == req[c].parts[pos[c]]

InKeys(c, kind) ==
    state[c] = "keys" /\ req[c].is = kind /\ pos[c] <= Len(req[c].parts)

\* The set of a part whose check passed; a read of one's own write is local.
SetPart(c) ==
    LET p == CurrentPart(c)
        t == txn[c]
    IN  txn' = [txn EXCEPT ![c] =
                    [t EXCEPT !.cur[p.key] = Assign(p.set, @),
                              !.read = @ \cup (IF p.check.is = "any" THEN {}
                                               ELSE {p.key} \ t.wrote),
                              !.wrote = @ \cup (IF p.set.is \in {"delete", "value"}
                                                THEN {p.key} ELSE {})]]

\* One key of a compare-and-set: read, check, set.
CasKey(c) ==
    /\ InKeys(c, "cas")
    /\ Passes(CurrentPart(c).check, ReadFrom(c)[CurrentPart(c).key])
    /\ SetPart(c)
    /\ pos' = [pos EXCEPT ![c] = @ + 1]
    /\ state' = [state EXCEPT ![c] = IF pos[c] = Len(req[c].parts) THEN "commit" ELSE @]
    /\ UNCHANGED <<store, records, version, changed, req, answer, applied, unknown, lost,
                   faults, scan>>

\* The transaction is dropped with what it has set.
Drop(c) == UNCHANGED <<store, records, version, changed, applied>>

\* A check that fails ends the request; nothing is committed.
CasRefused(c) ==
    /\ InKeys(c, "cas")
    /\ ~Passes(CurrentPart(c).check, ReadFrom(c)[CurrentPart(c).key])
    /\ Respond(c, Refused) /\ Drop(c)
    /\ UNCHANGED <<req, pos, txn, unknown, lost, faults, scan>>

\* One key of a get: all gets of a request belong to one transaction.
GetKey(c) ==
    LET got == Append(txn[c].got, ReadFrom(c)[req[c].parts[pos[c]].key])
    IN  /\ InKeys(c, "get")
        /\ txn' = [txn EXCEPT ![c].got = got]
        /\ pos' = [pos EXCEPT ![c] = @ + 1]
        /\ IF pos[c] = Len(req[c].parts) THEN Respond(c, Got(got)) ELSE UNCHANGED <<state, answer>>
        /\ UNCHANGED <<store, records, version, changed, req, applied, unknown, lost, faults,
                       scan>>

\* A read that fails is returned as an error, whatever the error: it is not retried.
GetFails(c) ==
    /\ state[c] = "keys" /\ Fault
    /\ req[c].is = "get" \/ CurrentPart(c).check.is # "any"
    /\ Respond(c, Failed)
    /\ UNCHANGED <<store, records, version, changed, req, pos, txn, applied, unknown, lost,
                   scan>>

-----------------------------------------------------------------------------
(* The commit                                                              *)

\* The database applies the transaction at a new version. A transaction that
\* only reads commits without one.
ApplyTxn(c) ==
    IF Mutates(req[c].parts)
    THEN /\ store' = [k \in Keys |-> IF k \in txn[c].wrote THEN txn[c].cur[k] ELSE store[k]]
         /\ version' = version + 1
         /\ records' = records \cup Records(req[c].parts, version')
         /\ changed' = [k \in Keys |-> IF k \in txn[c].wrote THEN version' ELSE changed[k]]
         /\ applied' = [applied EXCEPT ![c] = @ + 1]
    ELSE UNCHANGED <<store, records, version, changed, applied>>

MayApply(c) == Mutates(req[c].parts) => ~Conflicts(c)

HasVersionstamp(c) ==
    \E i \in DOMAIN req[c].parts : req[c].parts[i].set.is = "stamped"

CommitOk(c) ==
    /\ state[c] = "commit" /\ MayApply(c)
    /\ ApplyTxn(c)
    /\ IF HasVersionstamp(c)
       THEN state' = [state EXCEPT ![c] = "stamp"] /\ UNCHANGED answer
       ELSE Respond(c, Ok)
    /\ UNCHANGED <<req, pos, txn, unknown, lost, faults, scan>>

\* The future of the versionstamp, taken before the commit.
StampOk(c) ==
    /\ state[c] = "stamp"
    /\ Respond(c, Ok)
    /\ UNCHANGED <<store, records, version, changed, req, pos, txn, applied, unknown, lost,
                   faults, scan>>

StampFails(c) ==
    /\ state[c] = "stamp" /\ Fault
    /\ Respond(c, Failed)
    /\ lost' = [lost EXCEPT ![c] = TRUE]
    /\ UNCHANGED <<store, records, version, changed, req, pos, txn, applied, unknown, scan>>

\* on_error of a retryable error resets the transaction, and the loop runs again.
Retry(c) == state' = [state EXCEPT ![c] = "begin"]

\* not_committed.
CommitConflict(c) ==
    /\ state[c] = "commit" /\ ~MayApply(c)
    /\ Retry(c)
    /\ UNCHANGED <<store, records, version, changed, req, pos, txn, answer, applied, unknown,
                   lost, faults, scan>>

\* commit_unknown_result: applied or not, it is retried.
CommitUnknown(c) ==
    /\ state[c] = "commit" /\ Mutates(req[c].parts) /\ Fault
    /\ Retry(c)
    /\ unknown' = [unknown EXCEPT ![c] = @ + 1]
    /\ \/ MayApply(c) /\ ApplyTxn(c)
       \/ UNCHANGED <<store, records, version, changed, applied>>
    /\ UNCHANGED <<req, pos, txn, answer, lost, scan>>

\* An error that on_error hands back, such as a transaction that is too large.
CommitFatal(c) ==
    /\ state[c] = "commit" /\ Mutates(req[c].parts) /\ Fault
    /\ Respond(c, Failed)
    /\ UNCHANGED <<store, records, version, changed, req, pos, txn, applied, unknown, lost,
                   scan>>

-----------------------------------------------------------------------------
(* Listing a prefix                                                        *)

\* `key.strip_prefix(&self.prefix)` on the path as text: a prefix with a
\* leading or a doubled slash is in no key.
Strips(prefix, row) ==
    \/ prefix = <<Empty>>
    \/ /\ Len(prefix) <= Len(row)
       /\ \A i \in DOMAIN prefix :
             prefix[i] = row[i] \/ (i = Len(prefix) /\ prefix[i] = Empty)

\* The cursor is relative to the prefix, and excluded in both directions.
AfterCursor(s, row) == Precedes(s, Norm(s.prefix) \o s.cursor, row)

InRange(s, row) ==
    IsPrefix(Norm(s.prefix), row) /\ (s.cursor = None \/ AfterCursor(s, row))

\* What get_range returns: the first rows of the range, of every kind.
Fetched(s, n) ==
    LET range == {row \in Rows : InRange(s, row)}
    IN  {row \in range : Cardinality({r \in range : Precedes(s, r, row)}) < n}

\* Rows whose key is not a path, or that do not strip, are filtered out.
Hidden(s, row) ==
    IsPrefix(Norm(s.prefix), row) /\ ~(row \in Keys /\ Strips(s.prefix, row))

Listed(s, n) ==
    LET rows == {row \in Fetched(s, n) : ~Hidden(s, row)}
    IN  Ranked(rows, {pair \in rows \X rows : Precedes(s, pair[1], pair[2])})

\* The page up to the last row returned.
TakePage(listed) ==
    LET start == Len(Norm(scan.prefix)) + 1
    IN  scan' = IF listed = <<>>
                THEN [scan EXCEPT !.open = FALSE]
                ELSE [scan EXCEPT !.got = @ \o listed,
                                  !.cursor = SubSeq(Last(listed), start, Len(Last(listed)))]

\* A client asks for one page after the other, each from the last key it got,
\* until a page is empty. The database may return fewer rows than the limit, as
\* it bounds the bytes of an answer.
Page ==
    /\ scan.open
    /\ \E n \in 1 .. scan.limit : TakePage(Listed(scan, n))
    /\ UNCHANGED <<store, records, version, changed, client, faults>>

-----------------------------------------------------------------------------
Progress(c) ==
    \/ Call(c) \/ Begin(c)
    \/ CasKey(c) \/ CasRefused(c) \/ GetKey(c)
    \/ CommitOk(c) \/ CommitConflict(c) \/ StampOk(c)

Failure(c) == GetFails(c) \/ StampFails(c) \/ CommitUnknown(c) \/ CommitFatal(c)

Remember ==
    hist' = IF scan.open
            THEN [stay |-> hist.stay \cap Present(store'),
                  ever |-> hist.ever \cup Present(store'),
                  hidden |-> hist.hidden \/ \E row \in Rows : Hidden(scan, row)]
            ELSE hist

Next == (Page \/ \E c \in Clients : Progress(c) \/ Failure(c)) /\ Remember

Fairness == \A c \in Clients : WF_client(Progress(c))

Spec == Init /\ [][Next]_vars

FairSpec == Spec /\ Fairness

-----------------------------------------------------------------------------
(* Properties                                                              *)

\* Every compare-and-set is one instant of the store, taken under all of its
\* checks, and every get sees one instant, whatever the awaits between the
\* reads of a request let happen: the handlers implement AtomicKv.
Atomic == INSTANCE AtomicKv WITH seen <- [c \in Clients |-> txn[c].snap]

ImplementsAtomicKv == Atomic!Spec

\* The answer tells what happened. Ok: the request was applied, or had
\* nothing to apply. Refused or Failed although it was applied: only if a commit
\* had an unknown result or the versionstamp was lost. It is applied more than
\* once only by a retry after an unknown result.
AnswerTruthful ==
    \A c \in Clients :
        /\ req[c].is = "cas" /\ answer[c] = Ok /\ Mutates(req[c].parts) => applied[c] > 0
        /\ answer[c] \in {Refused, Failed} /\ applied[c] > 0 => unknown[c] > 0 \/ lost[c]
        /\ applied[c] <= 1 + unknown[c]

\* A listing made page by page under concurrent writes returns each key at most
\* once and in order, and no key that never was there; and every key that was
\* there all the time, unless some row in its range is filtered out. The limit
\* counts such rows too, and a page of nothing else looks like the end: records
\* with a versionstamp, or the key "a" in a listing of "a/".
PagesComplete ==
    LET under(k) == IsPrefix(Norm(scan.prefix), k) /\ Strips(scan.prefix, k)
    IN  /\ \A i, j \in DOMAIN scan.got :
              i < j => Precedes(scan, scan.got[i], scan.got[j])
        /\ ToSet(scan.got) \subseteq {k \in hist.ever : under(k)}
        /\ ~scan.open /\ ~hist.hidden =>
              {k \in hist.stay : under(k)} \subseteq ToSet(scan.got)

\* Every request is answered: a conflict is another request's commit, so the
\* retry loop ends although nothing bounds it.
EveryRequestAnswered == \A c \in Clients : <>(answer[c] # None)
=============================================================================

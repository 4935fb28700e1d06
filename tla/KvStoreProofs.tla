---------------------------- MODULE KvStoreProofs ----------------------------
(***************************************************************************)
(* Proofs about KvStore, for any keys, values, requests and clients: it    *)
(* implements AtomicKv, its answers are truthful, and its listings are     *)
(* complete.                                                               *)
(***************************************************************************)
EXTENDS KvStore, FiniteSetTheorems, SequenceTheorems, WellFoundedInduction, TLAPS

-----------------------------------------------------------------------------
(* The reference meaning of a request.                                     *)

\* There are fewer positions above a later one.
LEMMA AboveShrinks ==
    ASSUME NEW n \in Nat, NEW at \in SUBSET (1 .. n), NEW k \in at, NEW l \in at, l > k
    PROVE  /\ {j \in at : j > l} \subseteq {j \in at : j > k}
           /\ l \in {j \in at : j > k}
           /\ l \notin {j \in at : j > l}
<1>1. \A j \in at : j \in Nat
  OBVIOUS
<1>2. \A j \in at : j > l => j > k
  BY <1>1
<1>3. ~(l > l)
  BY <1>1
<1> QED  BY <1>2, <1>3

\* The latest of some positions exists.
LEMMA LatestOf ==
    ASSUME NEW n \in Nat, NEW at \in SUBSET (1 .. n), at # {}
    PROVE  Latest(at) \in at /\ \A j \in at : j <= Latest(at)
<1> DEFINE above(i) == {j \in at : j > i}
           R == StrictSubsetOrdering(1 .. n)
           T == {above(i) : i \in at}
<1>1. IsFiniteSet(1 .. n)
  BY FS_Interval
<1>2. IsWellFoundedOn(R, SUBSET (1 .. n))
  BY <1>1, FS_StrictSubsetOrderingWellFounded, FS_FiniteSubsetsOfFinite
<1>3. T \subseteq SUBSET (1 .. n) /\ T # {}
  OBVIOUS
<1>4. PICK x \in T : \A y \in T : ~(<<y, x>> \in R)
  <2> HIDE DEF R, T
  <2> QED  BY <1>2, <1>3, WFMin
<1>5. PICK i \in at : x = above(i)
  BY <1>4
<1>6. ASSUME NEW j \in at, j > i PROVE FALSE
  <2>1. above(j) \subseteq above(i) /\ j \in above(i) /\ j \notin above(j)
    BY <1>6, AboveShrinks
  <2>2. above(j) \in SUBSET (1 .. n) /\ above(i) \in SUBSET (1 .. n)
    OBVIOUS
  <2>3. <<above(j), above(i)>> \in R
    BY <2>1, <2>2 DEF StrictSubsetOrdering
  <2> QED  BY <1>4, <1>5, <2>3
<1>7. \A j \in at : j \in Nat
  OBVIOUS
<1>8. \A j \in at : j <= i
  BY <1>6, <1>7
<1>9. \E k \in at : \A j \in at : j <= k
  BY <1>8
<1> QED  BY <1>9 DEF Latest

LEMMA PartTypes ==
    ASSUME NEW parts \in Seq(Parts)
    PROVE  /\ Len(parts) \in Nat /\ DOMAIN parts = 1 .. Len(parts)
           /\ \A i \in 1 .. Len(parts) :
                 /\ parts[i] \in Parts /\ parts[i].key \in Keys
                 /\ parts[i].check \in Check /\ parts[i].set \in Set
<1>1. \A p \in Parts : p.key \in Keys /\ p.check \in Check /\ p.set \in Set
  BY DEF Parts
<1> QED  BY <1>1

\* What is written to a key does not depend on what was there.
LEMMA AfterAgree ==
    ASSUME NEW parts \in Seq(Parts), NEW n \in 0 .. Len(parts), NEW st, NEW sn, NEW k \in Keys,
           Writes(parts, n, k) # {} \/ st[k] = sn[k]
    PROVE  After(parts, st, n)[k] = After(parts, sn, n)[k]
<1>1. CASE Writes(parts, n, k) = {}
  BY <1>1 DEF After
<1>2. CASE Writes(parts, n, k) # {}
  <2>1. Writes(parts, n, k) \in SUBSET (1 .. n) /\ n \in Nat
    BY PartTypes DEF Writes
  <2>2. Latest(Writes(parts, n, k)) \in Writes(parts, n, k)
    BY <1>2, <2>1, LatestOf
  <2>3. parts[Latest(Writes(parts, n, k))].set.is \in {"delete", "value"}
    BY <2>2 DEF Writes
  <2> QED  BY <1>2, <2>3 DEF After, Assign
<1> QED  BY <1>1, <1>2

LEMMA AfterNone ==
    ASSUME NEW parts \in Seq(Parts), NEW st \in Stores
    PROVE  After(parts, st, 0) = st
<1>1. \A k \in Keys : Writes(parts, 0, k) = {}
  BY DEF Writes
<1> QED  BY <1>1 DEF After, Stores

\* One part more.
LEMMA AfterOne ==
    ASSUME NEW parts \in Seq(Parts), NEW st, NEW n \in 0 .. Len(parts) - 1
    PROVE  /\ After(parts, st, n + 1) =
                [After(parts, st, n) EXCEPT ![parts[n + 1].key] = Assign(parts[n + 1].set, @)]
           /\ \A k \in Keys : Writes(parts, n + 1, k) # {} <=>
                 \/ Writes(parts, n, k) # {}
                 \/ k = parts[n + 1].key /\ parts[n + 1].set.is \in {"delete", "value"}
<1> DEFINE p == parts[n + 1]
           writes == p.set.is \in {"delete", "value"}
<1>1. n \in Nat /\ n + 1 \in 1 .. Len(parts) /\ p \in Parts /\ p.key \in Keys
  BY PartTypes
<1>2. \A i \in 1 .. n + 1 : i \in 1 .. n \/ i = n + 1
  BY <1>1
<1>3. ASSUME NEW k \in Keys
      PROVE  Writes(parts, n + 1, k) = Writes(parts, n, k) \cup
                (IF k = p.key /\ writes THEN {n + 1} ELSE {})
  BY <1>1, <1>2 DEF Writes
<1>4. ASSUME writes
      PROVE  Latest(Writes(parts, n + 1, p.key)) = n + 1
  <2>1. n + 1 \in Writes(parts, n + 1, p.key)
    BY <1>1, <1>3, <1>4
  <2>2. Writes(parts, n + 1, p.key) \in SUBSET (1 .. n + 1) /\ n + 1 \in Nat
    BY <1>1 DEF Writes
  <2>3. /\ Latest(Writes(parts, n + 1, p.key)) \in Writes(parts, n + 1, p.key)
        /\ n + 1 <= Latest(Writes(parts, n + 1, p.key))
    BY <2>1, <2>2, LatestOf
  <2> QED  BY <1>1, <2>2, <2>3
<1>5. ASSUME NEW k \in Keys
      PROVE  After(parts, st, n + 1)[k] =
                IF k = p.key THEN Assign(p.set, After(parts, st, n)[k]) ELSE After(parts, st, n)[k]
  <2>1. CASE k = p.key /\ writes
    <3>1. Writes(parts, n + 1, k) # {}
      BY <1>3, <2>1
    <3>2. After(parts, st, n + 1)[k] = Assign(p.set, st[k])
      BY <1>4, <2>1, <3>1 DEF After
    <3> QED  BY <2>1, <3>2 DEF Assign
  <2>2. CASE ~(k = p.key /\ writes)
    <3>1. Writes(parts, n + 1, k) = Writes(parts, n, k)
      BY <1>3, <2>2
    <3>2. After(parts, st, n + 1)[k] = After(parts, st, n)[k]
      BY <3>1 DEF After
    <3> QED  BY <2>2, <3>2 DEF Assign
  <2> QED  BY <2>1, <2>2
<1>6. /\ After(parts, st, n) = [k \in Keys |-> After(parts, st, n)[k]]
      /\ After(parts, st, n + 1) = [k \in Keys |-> After(parts, st, n + 1)[k]]
  BY DEF After
<1>7. After(parts, st, n + 1) = [After(parts, st, n) EXCEPT ![p.key] = Assign(p.set, @)]
  <2> DEFINE f == After(parts, st, n)
             g == After(parts, st, n + 1)
  <2>1. DOMAIN f = Keys /\ DOMAIN g = Keys
    BY DEF After
  <2>2. \A k \in Keys : g[k] = IF k = p.key THEN Assign(p.set, f[k]) ELSE f[k]
    BY <1>5
  <2>3. f = [k \in Keys |-> f[k]] /\ g = [k \in Keys |-> g[k]]
    BY <1>6
  <2>4. [f EXCEPT ![p.key] = Assign(p.set, @)] =
            [k \in Keys |-> IF k = p.key THEN Assign(p.set, f[k]) ELSE f[k]]
    <3> HIDE DEF f, p
    <3> QED  BY <1>1, <2>1, <2>3
  <2>5. g = [k \in Keys |-> IF k = p.key THEN Assign(p.set, f[k]) ELSE f[k]]
    <3> HIDE DEF f, g, p
    <3> QED  BY <2>2, <2>3
  <2> QED  BY <2>4, <2>5
<1> QED  BY <1>3, <1>7

\* Assigning keeps a store a store.
LEMMA AssignType ==
    ASSUME NEW p \in Parts, NEW v \in Values \cup {None}
    PROVE  Assign(p.set, v) \in Values \cup {None}
<1>1. p.set \in Set
  BY DEF Parts
<1> QED  BY <1>1 DEF Assign, Set

-----------------------------------------------------------------------------
(* The inductive invariant.                                                *)

\* The transaction's view: what its reads return is what the store held at its
\* read version, and still holds in every key that nobody wrote since.
Snapshot(c) ==
    /\ txn[c].snap \in Stores /\ txn[c].cur \in Stores
    /\ \A k \in Keys : changed[k] <= txn[c].rv => store[k] = txn[c].snap[k]

\* A compare-and-set on its way: the checks behind it passed where the reference
\* meaning puts them, and those that read the store are in the conflict range.
Walked(c) ==
    LET parts == req[c].parts
        snap == txn[c].snap
    IN  /\ txn[c].cur = After(parts, snap, pos[c] - 1)
        /\ txn[c].wrote = {k \in Keys : Writes(parts, pos[c] - 1, k) # {}}
        /\ \A i \in 1 .. pos[c] - 1 :
              /\ Passes(parts[i].check, After(parts, snap, i - 1)[parts[i].key])
              /\ \/ parts[i].check.is = "any"
                 \/ parts[i].key \in txn[c].read
                 \/ Writes(parts, i - 1, parts[i].key) # {}

\* A get on its way.
Gathered(c) ==
    /\ txn[c].cur = txn[c].snap
    /\ Len(txn[c].got) = pos[c] - 1
    /\ \A i \in 1 .. pos[c] - 1 : txn[c].got[i] = txn[c].snap[req[c].parts[i].key]

TxnInv(c) ==
    state[c] \in {"keys", "commit"} =>
        /\ Snapshot(c)
        /\ req[c].is = "cas" => Walked(c)
        /\ req[c].is = "get" => Gathered(c)
        /\ state[c] = "commit" => req[c].is = "cas" /\ pos[c] = Len(req[c].parts) + 1

\* The books: what was applied without an answer had an unknown result.
BookInv(c) ==
    /\ state[c] # "done" => answer[c] = None
    /\ state[c] \in {"called", "begin", "keys", "commit"} => applied[c] <= unknown[c]
    /\ state[c] = "stamp" => applied[c] > 0 /\ req[c].is = "cas"
    /\ req[c].is = "cas" /\ answer[c] = Ok /\ Mutates(req[c].parts) => applied[c] > 0
    /\ answer[c] \in {Refused, Failed} /\ applied[c] > 0 => unknown[c] > 0 \/ lost[c]
    /\ applied[c] <= 1 + unknown[c]

KvInv == TypeOK /\ \A c \in Clients : TxnInv(c) /\ BookInv(c)

Step(c) == Progress(c) \/ Failure(c)

\* A request's parts, whatever its kind.
LEMMA RequestParts ==
    ASSUME TypeOK, NEW c \in Clients
    PROVE  /\ req[c].is \in {"cas", "get"}
           /\ req[c].parts \in Seq(Parts) /\ Len(req[c].parts) \in Nat \ {0}
           /\ DOMAIN req[c].parts = 1 .. Len(req[c].parts)
           /\ pos[c] \in Nat \ {0} /\ pos[c] <= Len(req[c].parts) + 1
           /\ txn[c] \in Txn
<1>1. req[c] \in Requests /\ pos[c] \in Nat \ {0} /\ pos[c] <= Len(req[c].parts) + 1
  BY DEF TypeOK
<1>2. req[c].is \in {"cas", "get"} /\ req[c].parts \in Seq(Parts) \ {<<>>}
  BY <1>1, RequestsAssumption
<1>3. \A q \in Seq(Parts) : Len(q) \in Nat /\ DOMAIN q = 1 .. Len(q) /\ (Len(q) = 0 => q = <<>>)
  OBVIOUS
<1>4. txn[c] \in Txn
  BY DEF TypeOK
<1> QED  BY <1>1, <1>2, <1>3, <1>4

-----------------------------------------------------------------------------
(* The transactions.                                                       *)

\* One key of a compare-and-set keeps to the reference meaning.
LEMMA CasKeyWalks ==
    ASSUME KvInv, NEW c \in Clients, CasKey(c)
    PROVE  TxnInv(c)' /\ txn'[c].snap = txn[c].snap
<1> DEFINE parts == req[c].parts
           n == pos[c] - 1
           p == parts[n + 1]
           t == txn[c]
           writes == p.set.is \in {"delete", "value"}
<1>1. /\ parts \in Seq(Parts) /\ n \in 0 .. Len(parts) - 1 /\ pos[c] = n + 1
      /\ Len(parts) \in Nat /\ p \in Parts /\ p.key \in Keys /\ t \in Txn
  BY RequestParts, PartTypes DEF KvInv, CasKey, InKeys
<1>2. Snapshot(c) /\ Walked(c)
  BY DEF KvInv, TxnInv, CasKey, InKeys
<1>3. /\ pos'[c] = n + 2 /\ req' = req /\ changed' = changed /\ store' = store
      /\ state'[c] = IF pos[c] = Len(parts) THEN "commit" ELSE "keys"
      /\ req[c].is = "cas"
  BY <1>1 DEF CasKey, InKeys, KvInv, TypeOK
<1>4. /\ txn'[c].snap = t.snap /\ txn'[c].rv = t.rv
      /\ txn'[c].cur = [t.cur EXCEPT ![p.key] = Assign(p.set, @)]
      /\ txn'[c].read = t.read \cup (IF p.check.is = "any" THEN {} ELSE {p.key} \ t.wrote)
      /\ txn'[c].wrote = t.wrote \cup (IF writes THEN {p.key} ELSE {})
  <2> DEFINE next == [t EXCEPT !.cur[p.key] = Assign(p.set, @),
                               !.read = @ \cup (IF p.check.is = "any" THEN {}
                                                ELSE {p.key} \ t.wrote),
                               !.wrote = @ \cup (IF writes THEN {p.key} ELSE {})]
  <2>1. txn' = [txn EXCEPT ![c] = next] /\ txn \in [Clients -> Txn]
    BY <1>1 DEF KvInv, TypeOK, CasKey, SetPart, CurrentPart
  <2>2. txn'[c] = next
    BY <2>1
  <2> QED  BY <1>1, <2>2 DEF Txn
<1>5. /\ After(parts, t.snap, n + 1) =
            [After(parts, t.snap, n) EXCEPT ![p.key] = Assign(p.set, @)]
      /\ \A k \in Keys : Writes(parts, n + 1, k) # {} <=>
            \/ Writes(parts, n, k) # {}
            \/ k = p.key /\ writes
  <2> HIDE DEF n, parts, t
  <2>1. parts \in Seq(Parts) /\ n \in 0 .. Len(parts) - 1
    BY <1>1
  <2> QED  BY <2>1, AfterOne
<1>6. Snapshot(c)'
  <2>1. Assign(p.set, t.cur[p.key]) \in Values \cup {None}
    BY <1>1, <1>2, AssignType DEF Snapshot, Stores
  <2>2. txn'[c].cur \in Stores
    BY <1>2, <1>4, <2>1 DEF Snapshot, Stores
  <2> QED  BY <1>2, <1>3, <1>4, <2>2 DEF Snapshot
<1>7. txn'[c].cur = After(parts, t.snap, n + 1)
  BY <1>1, <1>2, <1>4, <1>5 DEF Walked
<1>8. txn'[c].wrote = {k \in Keys : Writes(parts, n + 1, k) # {}}
  <2>1. t.wrote = {k \in Keys : Writes(parts, n, k) # {}}
    BY <1>1, <1>2 DEF Walked
  <2> QED  BY <2>1, <1>1, <1>4, <1>5
<1>9. ASSUME NEW i \in 1 .. n + 1
      PROVE  /\ Passes(parts[i].check, After(parts, t.snap, i - 1)[parts[i].key])
             /\ \/ parts[i].check.is = "any"
                \/ parts[i].key \in txn'[c].read
                \/ Writes(parts, i - 1, parts[i].key) # {}
  <2>1. CASE i \in 1 .. n
    BY <1>2, <1>4, <2>1 DEF Walked
  <2>2. CASE i = n + 1
    <3>1. i - 1 = n /\ parts[i] = p
      BY <1>1, <2>2
    <3>2. Passes(p.check, t.cur[p.key]) /\ t.cur = After(parts, t.snap, n)
      BY <1>1, <1>2 DEF CasKey, CurrentPart, ReadFrom, Walked
    <3>3. p.key \in t.wrote <=> Writes(parts, n, p.key) # {}
      BY <1>1, <1>2 DEF Walked
    <3> QED  BY <1>4, <3>1, <3>2, <3>3
  <2> QED  BY <1>1, <1>9, <2>1, <2>2
<1>10. Walked(c)'
  <2>1. pos'[c] - 1 = n + 1
    BY <1>1, <1>3
  <2> HIDE DEF n, p
  <2> QED  BY <1>3, <1>4, <1>7, <1>8, <1>9, <2>1 DEF Walked
<1>11. TxnInv(c)'
  BY <1>1, <1>3, <1>6, <1>10 DEF TxnInv
<1> QED  BY <1>4, <1>11

LEMMA AppendFacts ==
    ASSUME NEW S, NEW q \in Seq(S), NEW v \in S
    PROVE  /\ Append(q, v) \in Seq(S) /\ Len(Append(q, v)) = Len(q) + 1
           /\ \A i \in 1 .. Len(q) + 1 :
                 Append(q, v)[i] = IF i = Len(q) + 1 THEN v ELSE q[i]
OBVIOUS

\* One key of a get.
LEMMA GetKeyGathers ==
    ASSUME KvInv, NEW c \in Clients, GetKey(c)
    PROVE  TxnInv(c)' /\ txn'[c].snap = txn[c].snap
<1> DEFINE parts == req[c].parts
           t == txn[c]
           v == t.cur[parts[pos[c]].key]
<1>1. /\ parts \in Seq(Parts) /\ pos[c] \in 1 .. Len(parts) /\ Len(parts) \in Nat
      /\ parts[pos[c]].key \in Keys /\ t \in Txn /\ txn \in [Clients -> Txn]
  BY RequestParts, PartTypes DEF KvInv, GetKey, InKeys, TypeOK
<1>2. Snapshot(c) /\ Gathered(c) /\ req[c].is = "get"
  BY DEF KvInv, TxnInv, GetKey, InKeys
<1>3. /\ pos'[c] = pos[c] + 1 /\ req' = req /\ changed' = changed /\ store' = store
      /\ state'[c] \in {"keys", "done"}
      /\ txn'[c] = [t EXCEPT !.got = Append(t.got, v)]
  BY <1>1 DEF GetKey, InKeys, KvInv, TypeOK, ReadFrom, Respond
<1>4. /\ txn'[c].snap = t.snap /\ txn'[c].cur = t.cur /\ txn'[c].rv = t.rv
      /\ txn'[c].got = Append(t.got, v) /\ t.got \in Seq(Values \cup {None})
  BY <1>1, <1>3 DEF Txn
<1>5. v = t.snap[parts[pos[c]].key] /\ v \in Values \cup {None}
  BY <1>1, <1>2 DEF Gathered, Snapshot, Stores
<1>6. Snapshot(c)'
  BY <1>2, <1>3, <1>4 DEF Snapshot
<1>7. Gathered(c)'
  <2>1. ASSUME NEW i \in 1 .. pos[c]
        PROVE  Append(t.got, v)[i] = t.snap[parts[i].key]
    <3>1. Len(t.got) = pos[c] - 1 /\ pos[c] \in Nat \ {0}
      BY <1>1, <1>2 DEF Gathered
    <3>2. Append(t.got, v)[i] = IF i = Len(t.got) + 1 THEN v ELSE t.got[i]
      <4> HIDE DEF v, t
      <4>1. i \in 1 .. Len(t.got) + 1
        BY <3>1
      <4> QED  BY <1>4, <1>5, <4>1, AppendFacts
    <3>3. i = pos[c] <=> i = Len(t.got) + 1
      BY <3>1
    <3>4. i # pos[c] => t.got[i] = t.snap[parts[i].key]
      BY <1>2, <3>1 DEF Gathered
    <3> QED  BY <1>5, <3>2, <3>3, <3>4
  <2>2. Len(Append(t.got, v)) = pos[c]
    <3>1. Len(t.got) = pos[c] - 1 /\ pos[c] \in Nat \ {0}
      BY <1>1, <1>2 DEF Gathered
    <3>2. Len(Append(t.got, v)) = Len(t.got) + 1
      <4> HIDE DEF v, t
      <4> QED  BY <1>4, <1>5, AppendFacts
    <3> QED  BY <3>1, <3>2
  <2>3. pos'[c] - 1 = pos[c]
    BY <1>1, <1>3
  <2>4. txn'[c].cur = txn'[c].snap
    BY <1>2, <1>4 DEF Gathered
  <2> HIDE DEF v
  <2> QED  BY <1>3, <1>4, <2>1, <2>2, <2>3, <2>4 DEF Gathered
<1> QED  BY <1>2, <1>3, <1>4, <1>6, <1>7 DEF TxnInv

\* A commit without a conflict applies the request to the store as it is now,
\* not as it was read.
LEMMA CommitMeaning ==
    ASSUME KvInv, NEW c \in Clients, state[c] = "commit"
    PROVE  LET parts == req[c].parts
               wrote == txn[c].wrote
           IN  /\ Holds(parts, txn[c].snap)
               /\ ~Conflicts(c) => Holds(parts, store)
               /\ [k \in Keys |-> IF k \in wrote THEN txn[c].cur[k] ELSE store[k]] =
                    Effect(parts, store)
<1> DEFINE parts == req[c].parts
           n == Len(parts)
           snap == txn[c].snap
<1>1. parts \in Seq(Parts) /\ n \in Nat /\ DOMAIN parts = 1 .. n /\ pos[c] - 1 = n
  BY RequestParts DEF KvInv, TxnInv
<1>2. Snapshot(c) /\ Walked(c)
  BY DEF KvInv, TxnInv
<1>3. ASSUME NEW i \in 1 .. n
      PROVE  Passes(parts[i].check, After(parts, snap, i - 1)[parts[i].key])
  BY <1>1, <1>2 DEF Walked
<1>4. ASSUME ~Conflicts(c), NEW i \in 1 .. n
      PROVE  Passes(parts[i].check, After(parts, store, i - 1)[parts[i].key])
  <2> DEFINE k == parts[i].key
  <2>1. k \in Keys /\ i - 1 \in 0 .. n
    BY <1>1, PartTypes
  <2>2. \/ parts[i].check.is = "any"
        \/ k \in txn[c].read
        \/ Writes(parts, i - 1, k) # {}
    BY <1>1, <1>2 DEF Walked
  <2>3. CASE parts[i].check.is = "any"
    BY <2>3 DEF Passes
  <2>4. ASSUME Writes(parts, i - 1, k) # {} \/ store[k] = snap[k]
        PROVE  After(parts, store, i - 1)[k] = After(parts, snap, i - 1)[k]
    <3> DEFINE m == i - 1
    <3>1. m \in 0 .. Len(parts) /\ (Writes(parts, m, k) # {} \/ store[k] = snap[k])
      BY <2>1, <2>4
    <3>2. After(parts, store, m)[k] = After(parts, snap, m)[k]
      <4> HIDE DEF m, k, parts, snap
      <4> QED  BY <1>1, <2>1, <3>1, AfterAgree
    <3> QED  BY <3>2
  <2>5. CASE k \in txn[c].read
    <3>1. ~(changed[k] > txn[c].rv)
      BY <1>4, <2>5 DEF Conflicts
    <3>2. changed[k] \in Nat /\ txn[c].rv \in Nat
      BY <2>1, RequestParts DEF KvInv, TypeOK, Txn
    <3>3. changed[k] <= txn[c].rv
      BY <3>1, <3>2
    <3>4. store[k] = snap[k]
      <4> HIDE DEF k
      <4> QED  BY <1>2, <2>1, <3>3 DEF Snapshot
    <3> QED  BY <1>3, <2>4, <3>4
  <2>6. CASE Writes(parts, i - 1, k) # {}
    BY <1>3, <2>4, <2>6
  <2> QED  BY <2>2, <2>3, <2>5, <2>6
<1>5. ASSUME NEW k \in Keys
      PROVE  (IF k \in txn[c].wrote THEN txn[c].cur[k] ELSE store[k]) =
                After(parts, store, n)[k]
  <2>1. n \in 0 .. n /\ txn[c].cur = After(parts, snap, n)
    BY <1>1, <1>2 DEF Walked
  <2>2. k \in txn[c].wrote <=> Writes(parts, n, k) # {}
    BY <1>1, <1>2 DEF Walked
  <2>3. CASE Writes(parts, n, k) # {}
    <3>1. After(parts, store, n)[k] = After(parts, snap, n)[k]
      BY <1>1, <2>1, <2>3, AfterAgree
    <3> QED  BY <2>1, <2>2, <2>3, <3>1
  <2>4. CASE Writes(parts, n, k) = {}
    BY <2>2, <2>4 DEF After
  <2> QED  BY <2>3, <2>4
<1>6. Holds(parts, snap) /\ (~Conflicts(c) => Holds(parts, store))
  BY <1>1, <1>3, <1>4 DEF Holds
<1>7. Effect(parts, store) = [k \in Keys |-> After(parts, store, n)[k]]
  BY DEF Effect, After
<1>8. [k \in Keys |-> IF k \in txn[c].wrote THEN txn[c].cur[k] ELSE store[k]] =
            [k \in Keys |-> After(parts, store, n)[k]]
  BY <1>5
<1> QED  BY <1>6, <1>7, <1>8

\* The records of a request are well formed.
LEMMA RecordTypes ==
    ASSUME NEW parts \in Seq(Parts), NEW stamp, NEW r \in Records(parts, stamp)
    PROVE  r.key \in Keys /\ r.stamp = stamp /\ r.value \in Values
<1>1. PICK k \in Keys : /\ StampedBy(parts, k) # None
                        /\ r = [key |-> k, stamp |-> stamp, value |-> StampedBy(parts, k)]
  BY DEF Records
<1> DEFINE at == {i \in DOMAIN parts : parts[i].key = k /\ parts[i].set.is = "stamped"}
<1>2. at # {} /\ StampedBy(parts, k) = parts[Latest(at)].set.value
  BY <1>1 DEF StampedBy
<1>3. at \in SUBSET (1 .. Len(parts)) /\ Len(parts) \in Nat
  BY PartTypes
<1>4. Latest(at) \in at
  BY <1>2, <1>3, LatestOf
<1>5. parts[Latest(at)].set \in Set /\ parts[Latest(at)].set.is = "stamped"
  BY <1>3, <1>4, PartTypes
<1>6. parts[Latest(at)].set.value \in Values
  BY <1>5 DEF Set
<1> QED  BY <1>1, <1>2, <1>6

\* What a commit may do to the state that others rely on.
LEMMA ApplyTypes ==
    ASSUME KvInv, NEW c \in Clients, state[c] = "commit", ApplyTxn(c)
    PROVE  /\ store' \in Stores
           /\ version' \in Nat /\ version <= version'
           /\ \A r \in records' : r.key \in Keys /\ r.stamp \in 1 .. version' /\ r.value \in Values
           /\ changed' \in [Keys -> 0 .. version']
           /\ \A k \in Keys : \/ changed'[k] = changed[k] /\ store'[k] = store[k]
                              \/ changed'[k] = version + 1
           /\ applied' \in [Clients -> Nat]
           /\ \A d \in Clients : d # c => applied'[d] = applied[d]
           /\ applied'[c] = IF Mutates(req[c].parts) THEN applied[c] + 1 ELSE applied[c]
<1>1. /\ store \in Stores /\ version \in Nat /\ changed \in [Keys -> 0 .. version]
      /\ applied \in [Clients -> Nat]
      /\ \A r \in records : r.key \in Keys /\ r.stamp \in 1 .. version /\ r.value \in Values
  BY DEF KvInv, TypeOK
<1>2. CASE ~Mutates(req[c].parts)
  <2>1. UNCHANGED <<store, records, version, changed, applied>>
    BY <1>2 DEF ApplyTxn
  <2> QED  BY <1>1, <1>2, <2>1
<1>3. CASE Mutates(req[c].parts)
  <2>1. /\ store' = [k \in Keys |-> IF k \in txn[c].wrote THEN txn[c].cur[k] ELSE store[k]]
        /\ version' = version + 1
        /\ records' = records \cup Records(req[c].parts, version')
        /\ changed' = [k \in Keys |-> IF k \in txn[c].wrote THEN version' ELSE changed[k]]
        /\ applied' = [applied EXCEPT ![c] = @ + 1]
    BY <1>3 DEF ApplyTxn
  <2>2. txn[c].cur \in Stores
    BY DEF KvInv, TxnInv, Snapshot
  <2>3. store' \in Stores
    BY <1>1, <2>1, <2>2 DEF Stores
  <2>4. \A r \in records' : r.key \in Keys /\ r.stamp \in 1 .. version' /\ r.value \in Values
    <3>1. \A r \in Records(req[c].parts, version') :
             r.key \in Keys /\ r.stamp = version' /\ r.value \in Values
      BY RequestParts, RecordTypes DEF KvInv
    <3> QED  BY <1>1, <2>1, <3>1
  <2>5. changed' \in [Keys -> 0 .. version']
    BY <1>1, <2>1
  <2>6. \A k \in Keys : \/ changed'[k] = changed[k] /\ store'[k] = store[k]
                        \/ changed'[k] = version + 1
    BY <2>1
  <2>7. /\ applied' \in [Clients -> Nat] /\ applied'[c] = applied[c] + 1
        /\ \A d \in Clients : d # c => applied'[d] = applied[d]
    BY <1>1, <2>1
  <2> QED  BY <1>1, <1>3, <2>1, <2>3, <2>4, <2>5, <2>6, <2>7
<1> QED  BY <1>2, <1>3

-----------------------------------------------------------------------------
(* Every step keeps the invariant.                                         *)

\* A step of one client leaves the others' requests alone, and a key that it
\* changes gets a version later than any that was read.
LEMMA StepFrame ==
    ASSUME KvInv, NEW c \in Clients, Step(c)
    PROVE  /\ req' = req
           /\ \A d \in Clients : d # c =>
                 /\ state'[d] = state[d] /\ pos'[d] = pos[d] /\ txn'[d] = txn[d]
                 /\ answer'[d] = answer[d] /\ applied'[d] = applied[d]
                 /\ unknown'[d] = unknown[d] /\ lost'[d] = lost[d]
           /\ \A k \in Keys : \/ changed'[k] = changed[k] /\ store'[k] = store[k]
                              \/ changed'[k] = version + 1
<1> USE DEF Respond, Retry
<1>1. \A d \in Clients : d \in DOMAIN state /\ d \in DOMAIN pos /\ d \in DOMAIN txn
         /\ d \in DOMAIN answer /\ d \in DOMAIN unknown /\ d \in DOMAIN lost
  BY DEF KvInv, TypeOK
<1>2. CASE Call(c)
  <2>1. /\ state' \in {[state EXCEPT ![c] = "begin"], [state EXCEPT ![c] = "done"]}
        /\ answer' \in {answer, [answer EXCEPT ![c] = Failed]}
        /\ UNCHANGED <<store, changed, req, pos, txn, applied, unknown, lost>>
    BY <1>2 DEF Call
  <2> QED  BY <1>1, <2>1
<1>3. CASE Begin(c)
  BY <1>3 DEF Begin
<1>4. CASE CasKey(c)
  BY <1>4 DEF CasKey, SetPart
<1>5. CASE CasRefused(c)
  BY <1>5 DEF CasRefused, Drop
<1>6. CASE GetKey(c)
  <2> DEFINE got == Append(txn[c].got, ReadFrom(c)[req[c].parts[pos[c]].key])
  <2>1. /\ state' \in {state, [state EXCEPT ![c] = "done"]}
        /\ answer' \in {answer, [answer EXCEPT ![c] = Got(got)]}
        /\ txn' = [txn EXCEPT ![c].got = got] /\ pos' = [pos EXCEPT ![c] = @ + 1]
        /\ UNCHANGED <<store, changed, req, applied, unknown, lost>>
    BY <1>6 DEF GetKey
  <2> HIDE DEF got
  <2> QED  BY <1>1, <2>1
<1>7. CASE CommitOk(c)
  <2>1. /\ state' \in {[state EXCEPT ![c] = "stamp"], [state EXCEPT ![c] = "done"]}
        /\ answer' \in {answer, [answer EXCEPT ![c] = Ok]}
        /\ UNCHANGED <<req, pos, txn, unknown, lost>>
    BY <1>7 DEF CommitOk
  <2>2. /\ \A d \in Clients : d # c => applied'[d] = applied[d]
        /\ \A k \in Keys : \/ changed'[k] = changed[k] /\ store'[k] = store[k]
                           \/ changed'[k] = version + 1
    BY <1>7, ApplyTypes DEF CommitOk
  <2> QED  BY <1>1, <2>1, <2>2
<1>8. CASE CommitConflict(c)
  BY <1>8 DEF CommitConflict
<1>9. CASE StampOk(c)
  BY <1>9 DEF StampOk
<1>10. CASE GetFails(c)
  BY <1>10 DEF GetFails
<1>11. CASE StampFails(c)
  BY <1>11 DEF StampFails
<1>12. CASE CommitUnknown(c)
  BY <1>12, ApplyTypes DEF CommitUnknown
<1>13. CASE CommitFatal(c)
  BY <1>13 DEF CommitFatal
<1> QED  BY <1>2, <1>3, <1>4, <1>5, <1>6, <1>7, <1>8, <1>9, <1>10, <1>11, <1>12, <1>13
         DEF Step, Progress, Failure

LEMMA OthersKeep ==
    ASSUME KvInv, NEW c \in Clients, Step(c), NEW d \in Clients, d # c
    PROVE  TxnInv(d)' /\ BookInv(d)'
<1>1. TxnInv(d) /\ BookInv(d)
  BY DEF KvInv
<1>2. /\ req' = req /\ state'[d] = state[d] /\ pos'[d] = pos[d] /\ txn'[d] = txn[d]
      /\ answer'[d] = answer[d] /\ applied'[d] = applied[d]
      /\ unknown'[d] = unknown[d] /\ lost'[d] = lost[d]
  BY StepFrame
<1>3. BookInv(d)'
  BY <1>1, <1>2 DEF BookInv
<1>4. Walked(d) => Walked(d)'
  BY <1>2 DEF Walked
<1>5. Gathered(d) => Gathered(d)'
  BY <1>2 DEF Gathered
<1>6. Snapshot(d) => Snapshot(d)'
  <2>1. txn[d].rv <= version /\ txn[d].rv \in Nat /\ version \in Nat
    BY DEF KvInv, TypeOK, Txn
  <2>2. ASSUME NEW k \in Keys, changed'[k] <= txn[d].rv
        PROVE  changed'[k] = changed[k] /\ store'[k] = store[k]
    <3>1. changed'[k] # version + 1
      BY <2>1, <2>2
    <3> QED  BY <3>1, StepFrame
  <2> QED  BY <1>2, <2>2 DEF Snapshot
<1> QED  BY <1>1, <1>2, <1>3, <1>4, <1>5, <1>6 DEF TxnInv

\* The transaction of the client that steps.
LEMMA OwnTxn ==
    ASSUME KvInv, NEW c \in Clients, Step(c)
    PROVE  TxnInv(c)'
<1> USE DEF Respond, Retry
<1>1. c \in DOMAIN state /\ c \in DOMAIN pos /\ c \in DOMAIN txn
  BY DEF KvInv, TypeOK
<1>2. CASE Call(c)
  BY <1>1, <1>2 DEF Call, TxnInv
<1>3. CASE Begin(c)
  <2>1. /\ txn'[c] = [snap |-> store, cur |-> store, rv |-> version,
                      read |-> {}, wrote |-> {}, got |-> <<>>]
        /\ pos'[c] = 1 /\ state'[c] = "keys" /\ req' = req /\ store' = store
    BY <1>1, <1>3 DEF Begin
  <2>2. store \in Stores
    BY DEF KvInv, TypeOK
  <2>3. Snapshot(c)'
    BY <2>1, <2>2 DEF Snapshot
  <2>4. Gathered(c)'
    BY <2>1 DEF Gathered
  <2>5. Walked(c)'
    <3>1. req[c].parts \in Seq(Parts)
      BY RequestParts DEF KvInv
    <3>2. After(req[c].parts, store, 0) = store
      BY <2>2, <3>1, AfterNone
    <3>3. {k \in Keys : Writes(req[c].parts, 0, k) # {}} = {}
      BY DEF Writes
    <3>4. pos'[c] - 1 = 0 /\ 1 .. 0 = {}
      BY <2>1
    <3> QED  BY <2>1, <3>2, <3>3, <3>4 DEF Walked
  <2> QED  BY <2>1, <2>3, <2>4, <2>5 DEF TxnInv
<1>4. CASE CasKey(c)
  BY <1>4, CasKeyWalks
<1>5. CASE GetKey(c)
  BY <1>5, GetKeyGathers
<1>6. CASE CasRefused(c)
  BY <1>1, <1>6 DEF CasRefused, TxnInv
<1>7. CASE CommitOk(c)
  BY <1>1, <1>7 DEF CommitOk, TxnInv
<1>8. CASE CommitConflict(c)
  BY <1>1, <1>8 DEF CommitConflict, TxnInv
<1>9. CASE StampOk(c)
  BY <1>1, <1>9 DEF StampOk, TxnInv
<1>10. CASE GetFails(c)
  BY <1>1, <1>10 DEF GetFails, TxnInv
<1>11. CASE StampFails(c)
  BY <1>1, <1>11 DEF StampFails, TxnInv
<1>12. CASE CommitUnknown(c)
  BY <1>1, <1>12 DEF CommitUnknown, TxnInv
<1>13. CASE CommitFatal(c)
  BY <1>1, <1>13 DEF CommitFatal, TxnInv
<1> QED  BY <1>2, <1>3, <1>4, <1>5, <1>6, <1>7, <1>8, <1>9, <1>10, <1>11, <1>12, <1>13
         DEF Step, Progress, Failure

\* The books of the client that steps.
LEMMA OwnBook ==
    ASSUME KvInv, NEW c \in Clients, Step(c)
    PROVE  BookInv(c)'
<1> USE DEF Respond, Retry
<1>1. /\ c \in DOMAIN state /\ c \in DOMAIN answer /\ c \in DOMAIN unknown
      /\ c \in DOMAIN lost /\ applied[c] \in Nat /\ unknown[c] \in Nat
  BY DEF KvInv, TypeOK
<1>2. BookInv(c) /\ TxnInv(c)
  BY DEF KvInv
<1>3. None # Ok /\ None # Refused /\ None # Failed /\ Ok # Refused /\ Ok # Failed
  BY NoneAssumption DEF Ok, Refused, Failed
<1>4. CASE Call(c)
  BY <1>1, <1>2, <1>3, <1>4 DEF Call, BookInv
<1>5. CASE Begin(c)
  BY <1>1, <1>2, <1>5 DEF Begin, BookInv
<1>6. CASE CasKey(c)
  BY <1>1, <1>2, <1>6 DEF CasKey, InKeys, BookInv
<1>7. CASE CasRefused(c)
  BY <1>1, <1>2, <1>3, <1>7 DEF CasRefused, InKeys, Drop, BookInv
<1>8. CASE GetKey(c)
  <2>1. \A v : Got(v) # Ok /\ Got(v) # Refused /\ Got(v) # Failed
    BY DEF Got, Ok, Refused, Failed
  <2> QED  BY <1>1, <1>2, <1>8, <2>1 DEF GetKey, InKeys, BookInv
<1>9. CASE CommitOk(c)
  <2>1. /\ applied'[c] = IF Mutates(req[c].parts) THEN applied[c] + 1 ELSE applied[c]
        /\ req' = req /\ unknown' = unknown /\ lost' = lost /\ req[c].is = "cas"
    BY <1>2, <1>9, ApplyTypes DEF CommitOk, TxnInv
  <2>2. HasVersionstamp(c) => Mutates(req[c].parts)
    BY DEF HasVersionstamp, Mutates
  <2>3. \/ state'[c] = "stamp" /\ answer'[c] = answer[c] /\ Mutates(req[c].parts)
        \/ state'[c] = "done" /\ answer'[c] = Ok
    BY <1>1, <1>9, <2>2 DEF CommitOk
  <2>4. applied[c] <= unknown[c] /\ answer[c] = None
    BY <1>2, <1>9 DEF CommitOk, BookInv
  <2> QED  BY <1>1, <1>3, <2>1, <2>3, <2>4 DEF BookInv
<1>10. CASE CommitConflict(c)
  BY <1>1, <1>2, <1>10 DEF CommitConflict, BookInv
<1>11. CASE StampOk(c)
  BY <1>1, <1>2, <1>3, <1>11 DEF StampOk, BookInv
<1>12. CASE GetFails(c)
  BY <1>1, <1>2, <1>3, <1>12 DEF GetFails, BookInv
<1>13. CASE StampFails(c)
  BY <1>1, <1>2, <1>3, <1>13 DEF StampFails, BookInv
<1>14. CASE CommitUnknown(c)
  <2>1. /\ applied'[c] \in {applied[c], applied[c] + 1}
        /\ unknown'[c] = unknown[c] + 1 /\ state'[c] = "begin"
        /\ req' = req /\ lost' = lost /\ answer' = answer
    BY <1>1, <1>14, ApplyTypes DEF CommitUnknown
  <2>2. applied[c] <= unknown[c] /\ answer[c] = None
    BY <1>2, <1>14 DEF CommitUnknown, BookInv
  <2> QED  BY <1>1, <1>3, <2>1, <2>2 DEF BookInv
<1>15. CASE CommitFatal(c)
  BY <1>1, <1>2, <1>3, <1>15 DEF CommitFatal, BookInv
<1> QED  BY <1>4, <1>5, <1>6, <1>7, <1>8, <1>9, <1>10, <1>11, <1>12, <1>13, <1>14, <1>15
         DEF Step, Progress, Failure

\* What a step may assign to one client's fields.
States == {"called", "begin", "keys", "commit", "stamp", "done"}
Answers == {None, Ok, Refused, Failed} \cup [is : {"got"}, values : Seq(Values \cup {None})]

LEMMA StepTypes ==
    ASSUME KvInv, NEW c \in Clients, Step(c)
    PROVE  TypeOK'
<1> USE DEF Respond, Retry, Fault
<1>1. /\ store \in Stores /\ version \in Nat /\ req \in [Clients -> Requests]
      /\ \A r \in records : r.key \in Keys /\ r.stamp \in 1 .. version /\ r.value \in Values
      /\ changed \in [Keys -> 0 .. version]
  BY DEF KvInv, TypeOK
<1>2. /\ state \in [Clients -> States] /\ pos \in [Clients -> Nat \ {0}]
      /\ \A d \in Clients : pos[d] <= Len(req[d].parts) + 1
      /\ txn \in [Clients -> Txn] /\ \A d \in Clients : txn[d].rv <= version
      /\ answer \in [Clients -> Answers]
  BY DEF KvInv, TypeOK, States, Answers
<1>3. /\ applied \in [Clients -> Nat] /\ unknown \in [Clients -> Nat]
      /\ lost \in [Clients -> BOOLEAN]
  BY DEF KvInv, TypeOK
<1>4. faults \in 0 .. MaxFaults /\ MaxFaults \in Nat
  BY StoreAssumption DEF KvInv, TypeOK
<1>5. Ok \in Answers /\ Refused \in Answers /\ Failed \in Answers
  BY DEF Answers
<1>6. /\ "begin" \in States /\ "keys" \in States /\ "commit" \in States
      /\ "stamp" \in States /\ "done" \in States
  BY DEF States
<1>7. /\ req[c].parts \in Seq(Parts) /\ Len(req[c].parts) \in Nat \ {0}
      /\ pos[c] \in Nat \ {0} /\ txn[c] \in Txn
  BY RequestParts DEF KvInv
<1> DEFINE Store == /\ store \in Stores /\ version \in Nat
                    /\ \A r \in records : r.key \in Keys /\ r.stamp \in 1 .. version
                                          /\ r.value \in Values
                    /\ changed \in [Keys -> 0 .. version]
<1>8. UNCHANGED <<store, records, version, changed>> => Store'
  BY <1>1
<1>9. ASSUME Store', version <= version', req' = req, applied' \in [Clients -> Nat],
             unknown' \in [Clients -> Nat], lost' \in [Clients -> BOOLEAN],
             state' \in [Clients -> States], answer' \in [Clients -> Answers],
             pos' \in [Clients -> Nat \ {0}],
             \A d \in Clients : pos'[d] <= Len(req[d].parts) + 1,
             txn' \in [Clients -> Txn], \A d \in Clients : txn'[d].rv <= version',
             faults' \in 0 .. MaxFaults
      PROVE  TypeOK'
  BY <1>1, <1>9 DEF TypeOK, States, Answers
<1>10. ASSUME faults' \in {faults, faults + 1}, faults' # faults => faults < MaxFaults
       PROVE  faults' \in 0 .. MaxFaults
  BY <1>4, <1>10
<1>11. ASSUME UNCHANGED <<req, pos, txn>>, Store', version <= version', version' \in Nat
       PROVE  /\ pos' \in [Clients -> Nat \ {0}] /\ txn' \in [Clients -> Txn]
              /\ \A d \in Clients : pos'[d] <= Len(req[d].parts) + 1
              /\ \A d \in Clients : txn'[d].rv <= version'
  <2>1. \A d \in Clients : txn[d].rv \in Nat /\ txn[d].rv <= version
    BY <1>2 DEF Txn
  <2> QED  BY <1>1, <1>2, <1>11, <2>1
<1>12. version <= version
  BY <1>1
<1> HIDE DEF Store
<1>13. CASE Call(c)
  <2>1. /\ state' \in [Clients -> States] /\ answer' \in [Clients -> Answers]
        /\ UNCHANGED <<store, records, version, changed, req, pos, txn, applied, unknown,
                       lost, faults>>
    BY <1>2, <1>5, <1>6, <1>13 DEF Call
  <2> QED  BY <1>1, <1>3, <1>4, <1>8, <1>9, <1>11, <1>12, <2>1
<1>14. CASE Begin(c)
  <2> DEFINE fresh == [snap |-> store, cur |-> store, rv |-> version,
                       read |-> {}, wrote |-> {}, got |-> <<>>]
  <2>1. fresh \in Txn /\ fresh.rv = version
    BY <1>1 DEF Txn
  <2>2. /\ txn' = [txn EXCEPT ![c] = fresh] /\ pos' = [pos EXCEPT ![c] = 1]
        /\ state' = [state EXCEPT ![c] = "keys"]
        /\ UNCHANGED <<store, records, version, changed, req, answer, applied, unknown, lost,
                       faults>>
    BY <1>14 DEF Begin
  <2> HIDE DEF fresh
  <2>3. txn' \in [Clients -> Txn] /\ \A d \in Clients : txn'[d].rv <= version'
    BY <1>2, <1>12, <2>1, <2>2
  <2>4. /\ pos' \in [Clients -> Nat \ {0}] /\ state' \in [Clients -> States]
        /\ \A d \in Clients : pos'[d] <= Len(req[d].parts) + 1
    BY <1>2, <1>6, <1>7, <2>2
  <2> QED  BY <1>2, <1>3, <1>4, <1>8, <1>9, <1>12, <2>2, <2>3, <2>4
<1>15. CASE CasKey(c)
  <2> DEFINE p == req[c].parts[pos[c]]
             t == txn[c]
             next == [t EXCEPT !.cur[p.key] = Assign(p.set, @),
                               !.read = @ \cup (IF p.check.is = "any" THEN {}
                                                ELSE {p.key} \ t.wrote),
                               !.wrote = @ \cup (IF p.set.is \in {"delete", "value"}
                                                 THEN {p.key} ELSE {})]
  <2>1. pos[c] \in 1 .. Len(req[c].parts) /\ p \in Parts /\ p.key \in Keys
    BY <1>7, <1>15, PartTypes DEF CasKey, InKeys
  <2>2. t.cur \in Stores
    BY <1>15 DEF CasKey, InKeys, KvInv, TxnInv, Snapshot
  <2>3. [t.cur EXCEPT ![p.key] = Assign(p.set, @)] \in Stores
    BY <2>1, <2>2, AssignType DEF Stores
  <2>4. next \in Txn /\ next.rv = t.rv
    <3> HIDE DEF p
    <3> QED  BY <1>7, <2>1, <2>3 DEF Txn
  <2>5. /\ txn' = [txn EXCEPT ![c] = next] /\ pos' = [pos EXCEPT ![c] = @ + 1]
        /\ state' = [state EXCEPT ![c] = IF pos[c] = Len(req[c].parts) THEN "commit" ELSE @]
        /\ UNCHANGED <<store, records, version, changed, req, answer, applied, unknown, lost,
                       faults>>
    BY <1>15 DEF CasKey, SetPart, CurrentPart
  <2> HIDE DEF next
  <2>6. txn' \in [Clients -> Txn] /\ \A d \in Clients : txn'[d].rv <= version'
    BY <1>2, <2>4, <2>5
  <2>7. /\ pos' \in [Clients -> Nat \ {0}] /\ state' \in [Clients -> States]
        /\ \A d \in Clients : pos'[d] <= Len(req[d].parts) + 1
    <3>1. pos' \in [Clients -> Nat \ {0}] /\ state' \in [Clients -> States]
      BY <1>2, <1>6, <1>7, <2>1, <2>5
    <3>2. ASSUME NEW d \in Clients PROVE pos'[d] <= Len(req[d].parts) + 1
      <4>1. pos'[d] = IF d = c THEN pos[c] + 1 ELSE pos[d]
        BY <1>2, <1>6, <1>7, <2>1, <2>5
      <4> QED  BY <1>2, <1>6, <1>7, <2>1, <4>1
    <3> QED  BY <3>1, <3>2
  <2> QED  BY <1>2, <1>3, <1>4, <1>8, <1>9, <1>12, <2>5, <2>6, <2>7
<1>16. CASE CasRefused(c)
  <2>1. /\ state' \in [Clients -> States] /\ answer' \in [Clients -> Answers]
        /\ UNCHANGED <<store, records, version, changed, req, pos, txn, applied, unknown,
                       lost, faults>>
    BY <1>2, <1>5, <1>6, <1>16 DEF CasRefused, Drop
  <2> QED  BY <1>1, <1>3, <1>4, <1>8, <1>9, <1>11, <1>12, <2>1
<1>17. CASE GetKey(c)
  <2> DEFINE v == ReadFrom(c)[req[c].parts[pos[c]].key]
             got == Append(txn[c].got, v)
             next == [txn[c] EXCEPT !.got = got]
  <2>1. pos[c] \in 1 .. Len(req[c].parts) /\ req[c].parts[pos[c]].key \in Keys
    BY <1>7, <1>17, PartTypes DEF GetKey, InKeys
  <2>2. v \in Values \cup {None}
    BY <1>17, <2>1 DEF GetKey, InKeys, KvInv, TxnInv, Snapshot, ReadFrom, Stores
  <2>3. got \in Seq(Values \cup {None})
    <3>1. txn[c].got \in Seq(Values \cup {None})
      BY <1>7 DEF Txn
    <3> HIDE DEF v
    <3> QED  BY <2>2, <3>1, AppendFacts
  <2> HIDE DEF got
  <2>4. next \in Txn /\ next.rv = txn[c].rv /\ Got(got) \in Answers
    BY <1>7, <2>3 DEF Txn, Got, Answers
  <2>5. /\ txn' = [txn EXCEPT ![c] = next] /\ pos' = [pos EXCEPT ![c] = @ + 1]
        /\ state' \in {state, [state EXCEPT ![c] = "done"]}
        /\ answer' \in {answer, [answer EXCEPT ![c] = Got(got)]}
        /\ UNCHANGED <<store, records, version, changed, req, applied, unknown, lost, faults>>
    BY <1>17 DEF GetKey, got
  <2> HIDE DEF next
  <2>6. txn' \in [Clients -> Txn] /\ \A d \in Clients : txn'[d].rv <= version'
    BY <1>2, <2>4, <2>5
  <2>7. /\ pos' \in [Clients -> Nat \ {0}] /\ state' \in [Clients -> States]
        /\ \A d \in Clients : pos'[d] <= Len(req[d].parts) + 1
    <3>0. pos' \in [Clients -> Nat \ {0}]
      <4>1. pos' = [pos EXCEPT ![c] = @ + 1] /\ pos \in [Clients -> Nat \ {0}]
        BY <1>2, <2>5
      <4>2. \A n \in Nat \ {0} : n + 1 \in Nat \ {0}
        OBVIOUS
      <4> QED  BY <4>1, <4>2
    <3>1. pos' \in [Clients -> Nat \ {0}] /\ state' \in [Clients -> States]
      <4>1. "done" \in States /\ state \in [Clients -> States]
        BY <1>2, <1>6
      <4>2. state' \in {state, [state EXCEPT ![c] = "done"]}
        BY <2>5
      <4> QED  BY <3>0, <4>1, <4>2
    <3>2. ASSUME NEW d \in Clients PROVE pos'[d] <= Len(req[d].parts) + 1
      <4>1. pos'[d] = IF d = c THEN pos[c] + 1 ELSE pos[d]
        BY <1>2, <1>6, <1>7, <2>1, <2>5
      <4> QED  BY <1>2, <1>6, <1>7, <2>1, <4>1
    <3> QED  BY <3>1, <3>2
  <2>8. answer' \in [Clients -> Answers]
    BY <1>2, <2>4, <2>5
  <2> QED  BY <1>3, <1>4, <1>8, <1>9, <1>12, <2>5, <2>6, <2>7, <2>8
<1>18. CASE CommitOk(c)
  <2>1. /\ state' \in [Clients -> States] /\ answer' \in [Clients -> Answers]
        /\ UNCHANGED <<req, pos, txn, unknown, lost, faults>>
    BY <1>2, <1>5, <1>6, <1>18 DEF CommitOk
  <2>2. Store' /\ version' \in Nat /\ version <= version' /\ applied' \in [Clients -> Nat]
    BY <1>18, ApplyTypes DEF CommitOk, Store
  <2> QED  BY <1>3, <1>4, <1>9, <1>11, <2>1, <2>2
<1>19. CASE CommitConflict(c)
  <2>1. /\ state' \in [Clients -> States] /\ answer' \in [Clients -> Answers]
        /\ UNCHANGED <<store, records, version, changed, req, pos, txn, applied, unknown,
                       lost, faults>>
    BY <1>2, <1>6, <1>19 DEF CommitConflict
  <2> QED  BY <1>1, <1>3, <1>4, <1>8, <1>9, <1>11, <1>12, <2>1
<1>20. CASE StampOk(c)
  <2>1. /\ state' \in [Clients -> States] /\ answer' \in [Clients -> Answers]
        /\ UNCHANGED <<store, records, version, changed, req, pos, txn, applied, unknown,
                       lost, faults>>
    BY <1>2, <1>5, <1>6, <1>20 DEF StampOk
  <2> QED  BY <1>1, <1>3, <1>4, <1>8, <1>9, <1>11, <1>12, <2>1
<1>21. CASE GetFails(c)
  <2>1. /\ state' \in [Clients -> States] /\ answer' \in [Clients -> Answers]
        /\ UNCHANGED <<store, records, version, changed, req, pos, txn, applied, unknown, lost>>
    BY <1>2, <1>5, <1>6, <1>21 DEF GetFails
  <2>2. faults' \in 0 .. MaxFaults
    BY <1>10, <1>21 DEF GetFails
  <2> QED  BY <1>1, <1>3, <1>8, <1>9, <1>11, <1>12, <2>1, <2>2
<1>22. CASE StampFails(c)
  <2>1. /\ state' \in [Clients -> States] /\ answer' \in [Clients -> Answers]
        /\ UNCHANGED <<store, records, version, changed, req, pos, txn, applied, unknown>>
    BY <1>2, <1>5, <1>6, <1>22 DEF StampFails
  <2>2. faults' \in 0 .. MaxFaults
    BY <1>10, <1>22 DEF StampFails
  <2>3. lost' \in [Clients -> BOOLEAN]
    BY <1>3, <1>22 DEF StampFails
  <2> QED  BY <1>1, <1>3, <1>8, <1>9, <1>11, <1>12, <2>1, <2>2, <2>3
<1>23. CASE CommitUnknown(c)
  <2>1. /\ state' \in [Clients -> States] /\ answer' \in [Clients -> Answers]
        /\ unknown' \in [Clients -> Nat]
        /\ UNCHANGED <<req, pos, txn, lost>>
    BY <1>2, <1>3, <1>6, <1>23 DEF CommitUnknown
  <2>2. faults' \in 0 .. MaxFaults
    BY <1>10, <1>23 DEF CommitUnknown
  <2>3. Store' /\ version' \in Nat /\ version <= version' /\ applied' \in [Clients -> Nat]
    <3>1. CASE ApplyTxn(c)
      BY <1>23, <3>1, ApplyTypes DEF CommitUnknown, Store
    <3>2. CASE UNCHANGED <<store, records, version, changed, applied>>
      BY <1>1, <1>3, <1>8, <3>2
    <3> QED  BY <1>23, <3>1, <3>2 DEF CommitUnknown
  <2> QED  BY <1>3, <1>9, <1>11, <2>1, <2>2, <2>3
<1>24. CASE CommitFatal(c)
  <2>1. /\ state' \in [Clients -> States] /\ answer' \in [Clients -> Answers]
        /\ UNCHANGED <<store, records, version, changed, req, pos, txn, applied, unknown, lost>>
    BY <1>2, <1>5, <1>6, <1>24 DEF CommitFatal
  <2>2. faults' \in 0 .. MaxFaults
    BY <1>10, <1>24 DEF CommitFatal
  <2> QED  BY <1>1, <1>3, <1>8, <1>9, <1>11, <1>12, <2>1, <2>2
<1> QED  BY <1>13, <1>14, <1>15, <1>16, <1>17, <1>18, <1>19, <1>20, <1>21, <1>22, <1>23, <1>24
         DEF Step, Progress, Failure

LEMMA Inductive ==
    /\ Init => KvInv
    /\ KvInv /\ [Next]_vars => KvInv'
<1>1. Init => KvInv
  <2> SUFFICES ASSUME Init PROVE KvInv
    OBVIOUS
  <2>1. ASSUME NEW c \in Clients
        PROVE  req[c].parts \in Seq(Parts) /\ Len(req[c].parts) \in Nat
    BY RequestsAssumption DEF Init
  <2>2. NoTxn \in Txn /\ NoTxn.rv = 0
    BY DEF NoTxn, Txn
  <2>3. TypeOK
    BY StoreAssumption, <2>1, <2>2 DEF Init, TypeOK
  <2>4. ASSUME NEW c \in Clients PROVE TxnInv(c) /\ BookInv(c)
    BY NoneAssumption DEF Init, TxnInv, BookInv
  <2> QED  BY <2>3, <2>4 DEF KvInv
<1>2. ASSUME KvInv, [Next]_vars PROVE KvInv'
  <2>1. CASE UNCHANGED <<store, records, version, changed, client, faults>>
    <3>1. TypeOK'
      BY <1>2, <2>1 DEF KvInv, TypeOK, client
    <3>2. ASSUME NEW c \in Clients PROVE Snapshot(c)' = Snapshot(c)
      BY <2>1 DEF Snapshot, client
    <3>3. ASSUME NEW c \in Clients
          PROVE  (Walked(c) => Walked(c)') /\ (Gathered(c) => Gathered(c)')
      BY <2>1 DEF Walked, Gathered, client
    <3>4. ASSUME NEW c \in Clients PROVE TxnInv(c)' /\ BookInv(c)'
      BY <1>2, <2>1, <3>2, <3>3 DEF KvInv, TxnInv, BookInv, client
    <3> QED  BY <3>1, <3>4 DEF KvInv
  <2>2. ASSUME NEW c \in Clients, Step(c) PROVE KvInv'
    BY <1>2, <2>2, StepTypes, OwnTxn, OwnBook, OthersKeep DEF KvInv
  <2> QED  BY <1>2, <2>1, <2>2 DEF Next, Page, vars, Step
<1> QED  BY <1>1, <1>2

\* Every variable keeps its type: cursors stay within the request, versions of
\* transactions and records within those given out.
THEOREM TypeCorrect == Spec => []TypeOK
<1>1. KvInv => TypeOK
  BY DEF KvInv
<1> QED  BY Inductive, <1>1, PTL DEF Spec

\* The answer tells what happened to the request, for any number of clients,
\* keys and database failures.
THEOREM Truthful == Spec => []AnswerTruthful
<1>1. KvInv => AnswerTruthful
  BY DEF KvInv, BookInv, AnswerTruthful
<1> QED  BY Inductive, <1>1, PTL DEF Spec

-----------------------------------------------------------------------------
(* The refinement.                                                         *)

LEMMA SameMeaning ==
    ASSUME NEW parts, NEW st, NEW stamp
    PROVE  /\ Atomic!Holds(parts, st) <=> Holds(parts, st)
           /\ Atomic!Effect(parts, st) = Effect(parts, st)
           /\ Atomic!Records(parts, stamp) = Records(parts, stamp)
           /\ Atomic!Mutates(parts) <=> Mutates(parts)
<1>1. \A n : Atomic!After(parts, st, n) = After(parts, st, n)
  BY DEF Atomic!After, Atomic!Writes, Atomic!Latest, Atomic!Assign, After, Writes, Latest, Assign
<1>2. Atomic!Holds(parts, st) <=> Holds(parts, st)
  BY <1>1 DEF Atomic!Holds, Atomic!Passes, Holds, Passes
<1>3. Atomic!Records(parts, stamp) = Records(parts, stamp)
  BY DEF Atomic!Records, Atomic!StampedBy, Atomic!Latest, Records, StampedBy, Latest
<1> QED  BY <1>1, <1>2, <1>3 DEF Atomic!Effect, Effect, Atomic!Mutates, Mutates

\* A response is an answer of the abstract store.
LEMMA Answering ==
    ASSUME KvInv, NEW c \in Clients, NEW a, answer[c] = None,
           a \in Atomic!Truth(c) \cup {Failed},
           answer' = [answer EXCEPT ![c] = a],
           UNCHANGED <<store, records, version, req, applied>>,
           \A d \in Clients : txn'[d].snap = txn[d].snap
    PROVE  Atomic!Next
BY DEF Atomic!Next, Atomic!Answer, Atomic!Failed, Failed

\* A commit that was applied is an instant of the abstract store.
LEMMA Applying ==
    ASSUME KvInv, NEW c \in Clients, state[c] = "commit", MayApply(c), ApplyTxn(c),
           Mutates(req[c].parts),
           answer' \in {answer, [answer EXCEPT ![c] = Ok]},
           UNCHANGED <<req, txn>>
    PROVE  Atomic!Next
<1>1. answer[c] = None /\ req[c].is = "cas"
  BY DEF KvInv, BookInv, TxnInv
<1>2. Holds(req[c].parts, store)
  BY CommitMeaning DEF MayApply
<1>3. /\ store' = Effect(req[c].parts, store)
      /\ version' = version + 1
      /\ records' = records \cup Records(req[c].parts, version')
      /\ applied' = [applied EXCEPT ![c] = @ + 1]
  BY CommitMeaning DEF ApplyTxn
<1>4. Atomic!Apply(c)
  BY <1>1, <1>2, <1>3, SameMeaning DEF Atomic!Apply, Atomic!Ok, Ok
<1> QED  BY <1>4 DEF Atomic!Next

LEMMA AtomicInit == Init => Atomic!Init
<1>1. Init => store \in Stores /\ [c \in Clients |-> txn[c].snap] = [c \in Clients |-> None]
  BY StoreAssumption DEF Init, NoTxn
<1> QED  BY <1>1 DEF Init, Atomic!Init, Atomic!Stores, Stores

\* A step of the handlers is a look, an instant, an answer or nothing.
LEMMA AtomicStep ==
    ASSUME KvInv, KvInv', [Next]_vars
    PROVE  [Atomic!Next]_(Atomic!vars)
<1> DEFINE seen == [c \in Clients |-> txn[c].snap]
           Nothing == UNCHANGED <<store, records, version, req, seen, applied, answer>>
<1>1. Nothing => UNCHANGED Atomic!vars
  BY DEF Atomic!vars
<1>2. CASE UNCHANGED <<store, records, version, changed, client, faults>>
  BY <1>1, <1>2 DEF client
<1>3. ASSUME NEW c \in Clients, Step(c)
      PROVE  Atomic!Next \/ Nothing
  <2> USE DEF Respond, Retry
  <2>1. /\ req[c].is \in {"cas", "get"} /\ req[c].parts \in Seq(Parts)
        /\ DOMAIN req[c].parts = 1 .. Len(req[c].parts) /\ Len(req[c].parts) \in Nat \ {0}
        /\ txn \in [Clients -> Txn] /\ TxnInv(c) /\ BookInv(c)
    BY RequestParts DEF KvInv, TypeOK
  <2>2. state[c] # "done" => answer[c] = None
    BY <2>1 DEF BookInv
  <2>3. ASSUME txn' = txn PROVE \A d \in Clients : txn'[d].snap = txn[d].snap
    BY <2>3
  <2>4. state[c] \in {"keys", "commit"} => txn[c].snap # None
    BY <2>1, NoneAssumption DEF TxnInv, Snapshot
  <2>5. CASE Call(c)
    <3>1. CASE Valid(req[c])
      BY <2>5, <3>1 DEF Call
    <3>2. CASE ~Valid(req[c])
      <4>1. /\ answer[c] = None /\ answer' = [answer EXCEPT ![c] = Failed]
            /\ UNCHANGED <<store, records, version, req, applied, txn>>
        BY <2>2, <2>5, <3>2 DEF Call
      <4> QED  BY <2>3, <4>1, Answering
    <3> QED  BY <3>1, <3>2
  <2>6. CASE Begin(c)
    <3>1. seen' = [seen EXCEPT ![c] = store]
      BY <2>1, <2>6 DEF Begin
    <3>2. answer[c] = None /\ UNCHANGED <<store, records, version, req, applied, answer>>
      BY <2>2, <2>6 DEF Begin
    <3>3. Atomic!Look(c)
      BY <3>1, <3>2 DEF Atomic!Look
    <3> QED  BY <3>3 DEF Atomic!Next
  <2>7. CASE CasKey(c)
    <3>1. UNCHANGED <<store, records, version, req, applied, answer>>
      BY <2>7 DEF CasKey
    <3>2. \A d \in Clients : txn'[d].snap = txn[d].snap
      BY <1>3, <2>7, StepFrame, CasKeyWalks
    <3> QED  BY <3>1, <3>2
  <2>8. CASE CasRefused(c)
    <3> DEFINE i == pos[c]
               part == req[c].parts[i]
    <3>1. /\ i \in 1 .. Len(req[c].parts) /\ txn[c].cur = After(req[c].parts, txn[c].snap, i - 1)
          /\ req[c].is = "cas" /\ state[c] = "keys"
      BY <2>1, <2>8, RequestParts DEF CasRefused, InKeys, KvInv, TxnInv, Walked
    <3>2. ~Passes(part.check, After(req[c].parts, txn[c].snap, i - 1)[part.key])
      BY <2>8, <3>1 DEF CasRefused, CurrentPart, ReadFrom
    <3>3. ~Holds(req[c].parts, txn[c].snap)
      BY <2>1, <3>1, <3>2 DEF Holds
    <3>4. /\ answer[c] = None /\ answer' = [answer EXCEPT ![c] = Refused]
          /\ UNCHANGED <<store, records, version, req, applied, txn>>
      BY <2>2, <2>8, <3>1 DEF CasRefused, Drop
    <3>5. Refused \in Atomic!Truth(c)
      BY <2>4, <3>1, <3>3, SameMeaning
         DEF Atomic!Truth, Atomic!Ok, Atomic!Refused, Refused
    <3> QED  BY <2>3, <3>4, <3>5, Answering
  <2>9. CASE GetKey(c)
    <3> DEFINE parts == req[c].parts
               got == Append(txn[c].got, ReadFrom(c)[parts[pos[c]].key])
    <3>1. /\ UNCHANGED <<store, records, version, req, applied>>
          /\ txn' = [txn EXCEPT ![c].got = got]
          /\ req[c].is = "get" /\ state[c] = "keys"
          /\ IF pos[c] = Len(parts) THEN answer' = [answer EXCEPT ![c] = Got(got)]
                                    ELSE answer' = answer
      BY <2>9 DEF GetKey, InKeys
    <3>2. \A d \in Clients : txn'[d].snap = txn[d].snap
      BY <1>3, <2>9, StepFrame, GetKeyGathers
    <3>3. CASE pos[c] # Len(parts)
      BY <3>1, <3>2, <3>3
    <3>4. CASE pos[c] = Len(parts)
      <4>1. got = [i \in DOMAIN parts |-> txn[c].snap[parts[i].key]]
        <5>1. /\ txn[c].got \in Seq(Values \cup {None}) /\ Len(txn[c].got) = pos[c] - 1
              /\ txn[c].cur = txn[c].snap /\ txn[c].snap \in Stores
              /\ \A i \in 1 .. pos[c] - 1 : txn[c].got[i] = txn[c].snap[parts[i].key]
          BY <2>1, <3>1 DEF TxnInv, Gathered, Snapshot, Txn
        <5>2. parts[pos[c]].key \in Keys
          BY <2>1, <3>4, PartTypes
        <5>3. ReadFrom(c)[parts[pos[c]].key] \in Values \cup {None}
          BY <5>1, <5>2 DEF ReadFrom, Stores
        <5>4. /\ got \in Seq(Values \cup {None}) /\ Len(got) = Len(txn[c].got) + 1
              /\ \A i \in 1 .. Len(txn[c].got) + 1 :
                    got[i] = IF i = Len(txn[c].got) + 1 THEN ReadFrom(c)[parts[pos[c]].key]
                             ELSE txn[c].got[i]
          BY <5>1, <5>3, AppendFacts
        <5> HIDE DEF got
        <5>5. Len(got) = Len(parts) /\ DOMAIN got = 1 .. Len(parts)
          BY <2>1, <3>4, <5>1, <5>4
        <5>6. \A i \in 1 .. Len(parts) : got[i] = txn[c].snap[parts[i].key]
          BY <2>1, <3>4, <5>1, <5>4 DEF ReadFrom
        <5> QED  BY <2>1, <5>4, <5>5, <5>6
      <4>2. Got(got) \in Atomic!Truth(c)
        <5> HIDE DEF got
        <5> QED  BY <2>4, <3>1, <4>1 DEF Atomic!Truth, Atomic!Got, Got
      <4> HIDE DEF got
      <4>3. answer[c] = None /\ answer' = [answer EXCEPT ![c] = Got(got)]
        BY <2>2, <3>1, <3>4
      <4> QED  BY <3>1, <3>2, <4>2, <4>3, Answering
    <3> QED  BY <3>3, <3>4
  <2>10. CASE GetFails(c)
    <3>1. /\ answer[c] = None /\ answer' = [answer EXCEPT ![c] = Failed]
          /\ UNCHANGED <<store, records, version, req, applied, txn>>
      BY <2>2, <2>10 DEF GetFails
    <3> QED  BY <2>3, <3>1, Answering
  <2>11. CASE CommitOk(c)
    <3>1. answer' \in {answer, [answer EXCEPT ![c] = Ok]} /\ UNCHANGED <<req, txn>>
      BY <2>11 DEF CommitOk
    <3>2. CASE Mutates(req[c].parts)
      BY <2>11, <3>1, <3>2, Applying DEF CommitOk
    <3>3. CASE ~Mutates(req[c].parts)
      <4>1. ~HasVersionstamp(c)
        BY <3>3 DEF HasVersionstamp, Mutates
      <4>2. /\ answer[c] = None /\ answer' = [answer EXCEPT ![c] = Ok]
            /\ UNCHANGED <<store, records, version, req, applied, txn>>
            /\ state[c] = "commit"
        BY <2>2, <2>11, <3>3, <4>1 DEF CommitOk, ApplyTxn
      <4>3. req[c].is = "cas" /\ Holds(req[c].parts, txn[c].snap)
        BY <2>1, <4>2, CommitMeaning DEF TxnInv
      <4>4. Ok \in Atomic!Truth(c)
        BY <2>4, <3>3, <4>2, <4>3, SameMeaning DEF Atomic!Truth, Atomic!Ok, Atomic!Refused, Ok
      <4> QED  BY <2>3, <4>2, <4>4, Answering
    <3> QED  BY <3>2, <3>3
  <2>12. CASE CommitConflict(c)
    BY <2>12 DEF CommitConflict
  <2>13. CASE StampOk(c)
    <3>1. /\ answer[c] = None /\ answer' = [answer EXCEPT ![c] = Ok]
          /\ UNCHANGED <<store, records, version, req, applied, txn>>
          /\ req[c].is = "cas" /\ applied[c] > 0
      BY <2>1, <2>2, <2>13 DEF StampOk, BookInv
    <3>2. Ok \in Atomic!Truth(c)
      BY <3>1 DEF Atomic!Truth, Atomic!Ok, Atomic!Refused, Ok
    <3> QED  BY <2>3, <3>1, <3>2, Answering
  <2>14. CASE StampFails(c)
    <3>1. /\ answer[c] = None /\ answer' = [answer EXCEPT ![c] = Failed]
          /\ UNCHANGED <<store, records, version, req, applied, txn>>
      BY <2>2, <2>14 DEF StampFails
    <3> QED  BY <2>3, <3>1, Answering
  <2>15. CASE CommitUnknown(c)
    <3>1. UNCHANGED <<req, txn, answer>> /\ Mutates(req[c].parts) /\ state[c] = "commit"
      BY <2>15 DEF CommitUnknown
    <3>2. CASE MayApply(c) /\ ApplyTxn(c)
      BY <3>1, <3>2, Applying
    <3>3. CASE UNCHANGED <<store, records, version, changed, applied>>
      BY <3>1, <3>3
    <3> QED  BY <2>15, <3>2, <3>3 DEF CommitUnknown
  <2>16. CASE CommitFatal(c)
    <3>1. /\ answer[c] = None /\ answer' = [answer EXCEPT ![c] = Failed]
          /\ UNCHANGED <<store, records, version, req, applied, txn>>
      BY <2>2, <2>16 DEF CommitFatal
    <3> QED  BY <2>3, <3>1, Answering
  <2> QED  BY <1>3, <2>5, <2>6, <2>7, <2>8, <2>9, <2>10, <2>11, <2>12, <2>13, <2>14, <2>15,
              <2>16 DEF Step, Progress, Failure
<1> HIDE DEF Nothing
<1> QED  BY <1>1, <1>2, <1>3 DEF Next, Page, vars, Step

\* Whatever the awaits between the reads let happen, conflicts, commits of unknown
\* result and retries included: every compare-and-set is one instant of the store
\* under all of its checks, and every get is one look at it.
THEOREM KvImplementsAtomic == Spec => ImplementsAtomicKv
<1>1. KvInv /\ KvInv' /\ [Next]_vars => [Atomic!Next]_(Atomic!vars)
  BY AtomicStep
<1> QED  BY Inductive, AtomicInit, <1>1, PTL DEF Spec, ImplementsAtomicKv, Atomic!Spec

-----------------------------------------------------------------------------
(* Orders.                                                                 *)

\* A strict and total order, as the set of its pairs.
StrictOrder(order, S) ==
    /\ \A x \in S : <<x, x>> \notin order
    /\ \A x, y, z \in S : <<x, y>> \in order /\ <<y, z>> \in order => <<x, z>> \in order
    /\ \A x, y \in S : x = y \/ <<x, y>> \in order \/ <<y, x>> \in order

\* How many come before an element says which one it is.
LEMMA RankedFacts ==
    ASSUME NEW S, IsFiniteSet(S), NEW order, StrictOrder(order, S)
    PROVE  /\ Cardinality(S) \in Nat
           /\ Ranked(S, order) \in [1 .. Cardinality(S) -> S]
           /\ \A x \in S : \E n \in 1 .. Cardinality(S) : Ranked(S, order)[n] = x
           /\ \A m, n \in 1 .. Cardinality(S) :
                 m < n => <<Ranked(S, order)[m], Ranked(S, order)[n]>> \in order
           /\ S # {} => \E x \in S : \A y \in S : <<y, x>> \notin order
<1> DEFINE below(x) == {y \in S : <<y, x>> \in order}
           rank == [x \in S |-> Cardinality(below(x)) + 1]
           count == Cardinality(S)
           q == Ranked(S, order)
<1>1. count \in Nat
  BY FS_CardinalityType
<1>2. ASSUME NEW x \in S
      PROVE  IsFiniteSet(below(x)) /\ Cardinality(below(x)) \in Nat /\ Cardinality(below(x)) < count
  <2>1. below(x) \in SUBSET S /\ below(x) # S
    BY DEF StrictOrder
  <2> HIDE DEF below
  <2>2. IsFiniteSet(below(x)) /\ Cardinality(below(x)) <= count /\ count # Cardinality(below(x))
    BY <2>1, FS_Subset
  <2> QED  BY <1>1, <2>2, FS_CardinalityType
<1>3. ASSUME NEW x \in S, NEW y \in S, <<x, y>> \in order
      PROVE  rank[x] < rank[y]
  <2>1. below(x) \in SUBSET below(y) /\ below(x) # below(y)
    BY <1>3 DEF StrictOrder
  <2> HIDE DEF below
  <2>2. /\ Cardinality(below(x)) <= Cardinality(below(y))
        /\ Cardinality(below(x)) # Cardinality(below(y))
    BY <1>2, <2>1, FS_Subset
  <2> QED  BY <1>2, <2>2
<1>4. \A x \in S : rank[x] \in 1 .. count
  <2> HIDE DEF below
  <2> QED  BY <1>1, <1>2
<1>5. \A x, y \in S : rank[x] = rank[y] => x = y
  <2> SUFFICES ASSUME NEW x \in S, NEW y \in S, rank[x] = rank[y] PROVE x = y
    OBVIOUS
  <2>1. ~(rank[x] < rank[y]) /\ ~(rank[y] < rank[x])
    <3> HIDE DEF rank
    <3> QED  BY <1>1, <1>4
  <2> QED  BY <1>3, <2>1 DEF StrictOrder
<1>6. \A n \in 1 .. count : \E x \in S : rank[x] = n
  <2>1. rank \in Injection(S, 1 .. count)
    <3>1. rank \in [S -> 1 .. count]
      BY <1>4
    <3> HIDE DEF rank
    <3> QED  BY <1>5, <3>1 DEF Injection, IsInjective
  <2>2. IsFiniteSet(1 .. count) /\ Cardinality(1 .. count) = count
    BY <1>1, FS_Interval
  <2>3. rank \in Surjection(S, 1 .. count)
    <3> HIDE DEF rank
    <3> QED  BY <2>1, <2>2, FS_Injection
  <2> QED  BY <2>3 DEF Surjection
<1>7. ASSUME NEW n \in 1 .. count
      PROVE  q[n] \in S /\ rank[q[n]] = n
  <2>1. PICK x \in S : rank[x] = n
    BY <1>6
  <2>2. Cardinality(below(x)) = n - 1
    <3>1. Cardinality(below(x)) + 1 = n /\ Cardinality(below(x)) \in Nat
      BY <1>2, <2>1
    <3> QED  BY <3>1
  <2>3. q[n] = CHOOSE y \in S : Cardinality(below(y)) = n - 1
    BY DEF Ranked
  <2>4. q[n] \in S /\ Cardinality(below(q[n])) = n - 1
    <3> HIDE DEF below, q
    <3> QED  BY <2>2, <2>3
  <2> HIDE DEF q, below
  <2> QED  BY <1>1, <2>4
<1>8. q \in [1 .. count -> S]
  <2> DEFINE E(n) == CHOOSE x \in S : Cardinality({y \in S : <<y, x>> \in order}) = n - 1
  <2>0. q = [n \in 1 .. count |-> E(n)]
    BY DEF Ranked
  <2> HIDE DEF q, rank, E, count
  <2>1. q = [n \in 1 .. count |-> q[n]]
    BY <2>0
  <2> QED  BY <1>7, <2>1
<1>9. ASSUME NEW x \in S PROVE \E n \in 1 .. count : q[n] = x
  <2> HIDE DEF q, rank
  <2> QED  BY <1>4, <1>5, <1>7
<1>10. ASSUME NEW m \in 1 .. count, NEW n \in 1 .. count, m < n
       PROVE  <<q[m], q[n]>> \in order
  <2> HIDE DEF q, rank
  <2>1. q[m] \in S /\ q[n] \in S /\ rank[q[m]] = m /\ rank[q[n]] = n
    BY <1>7
  <2>2. q[m] # q[n] /\ ~(rank[q[n]] < rank[q[m]])
    BY <1>1, <1>10, <2>1
  <2> QED  BY <1>3, <2>1, <2>2 DEF StrictOrder
<1>11. ASSUME S # {} PROVE \E x \in S : \A y \in S : <<y, x>> \notin order
  <2> HIDE DEF rank, q
  <2>1. 1 \in 1 .. count
    BY <1>1, <1>4, <1>11
  <2>2. PICK x \in S : rank[x] = 1
    BY <1>6, <2>1
  <2>3. \A y \in S : ~(rank[y] < rank[x])
    BY <1>1, <1>4, <2>2
  <2> QED  BY <1>3, <2>3
<1> HIDE DEF q, count
<1> QED  BY <1>1, <1>8, <1>9, <1>10, <1>11 DEF q, count

\* The first position where something holds.
LEMMA FirstOf ==
    ASSUME NEW at \in SUBSET Nat, at # {}
    PROVE  \E i \in at : \A j \in at : i <= j
<1>1. PICK i \in at : \A j \in at : ~(<<j, i>> \in OpToRel(<, Nat))
  BY NatLessThanWellFounded, WFMin
<1>2. \A j \in at : i <= j
  <2>1. ASSUME NEW j \in at PROVE ~(j < i)
    BY <1>1 DEF OpToRel
  <2> QED  BY <2>1
<1> QED  BY <1>2

\* A sequence is a strict prefix of another if it is shorter and agrees with it.
LEMMA PrefixMeans ==
    ASSUME NEW a \in Seq(Nat), NEW b \in Seq(Nat)
    PROVE  /\ Len(a) \in Nat /\ Len(b) \in Nat /\ DOMAIN a = 1 .. Len(a) /\ DOMAIN b = 1 .. Len(b)
           /\ \A i \in 1 .. Len(a) : a[i] \in Nat
           /\ \A i \in 1 .. Len(b) : b[i] \in Nat
           /\ IsPrefix(a, b) <=> Len(a) <= Len(b) /\ \A i \in 1 .. Len(a) : a[i] = b[i]
           /\ IsStrictPrefix(a, b) <=> Len(a) < Len(b) /\ \A i \in 1 .. Len(a) : a[i] = b[i]
<1>1. Len(a) \in Nat /\ Len(b) \in Nat /\ DOMAIN a = 1 .. Len(a) /\ DOMAIN b = 1 .. Len(b)
  OBVIOUS
<1>2. IsPrefix(a, b) <=> Len(a) <= Len(b) /\ \A i \in 1 .. Len(a) : a[i] = b[i]
  <2>1. CASE Len(a) <= Len(b)
    <3>1. /\ SubSeq(a, 1, Len(a)) \in Seq(Nat) /\ Len(SubSeq(a, 1, Len(a))) = Len(a)
          /\ SubSeq(b, 1, Len(a)) \in Seq(Nat) /\ Len(SubSeq(b, 1, Len(a))) = Len(a)
          /\ \A i \in 1 .. Len(a) : SubSeq(a, 1, Len(a))[i] = a[i] /\ SubSeq(b, 1, Len(a))[i] = b[i]
      BY <1>1, <2>1
    <3>2. SubSeq(a, 1, Len(a)) = SubSeq(b, 1, Len(a)) <=>
             \A i \in 1 .. Len(a) : SubSeq(a, 1, Len(a))[i] = SubSeq(b, 1, Len(a))[i]
      BY <3>1, SeqEqual
    <3> QED  BY <2>1, <3>1, <3>2 DEF IsPrefix
  <2>2. CASE ~(Len(a) <= Len(b))
    BY <2>2 DEF IsPrefix
  <2> QED  BY <2>1, <2>2
<1>3. (\A i \in 1 .. Len(a) : a[i] = b[i]) /\ Len(a) = Len(b) => a = b
  OBVIOUS
<1>4. (\A i \in 1 .. Len(a) : a[i] \in Nat) /\ (\A i \in 1 .. Len(b) : b[i] \in Nat)
  OBVIOUS
<1>5. IsStrictPrefix(a, b) <=> Len(a) < Len(b) /\ \A i \in 1 .. Len(a) : a[i] = b[i]
  <2>1. IsStrictPrefix(a, b) <=> IsPrefix(a, b) /\ a # b
    BY DEF IsStrictPrefix
  <2>2. Len(a) < Len(b) => a # b
    BY <1>1
  <2>3. ASSUME IsStrictPrefix(a, b)
        PROVE  Len(a) < Len(b) /\ \A i \in 1 .. Len(a) : a[i] = b[i]
    <3>1. Len(a) <= Len(b) /\ (\A i \in 1 .. Len(a) : a[i] = b[i]) /\ a # b
      BY <1>2, <2>1, <2>3
    <3>2. Len(a) # Len(b)
      BY <1>3, <3>1
    <3>3. \A m, n \in Nat : m <= n /\ m # n => m < n
      OBVIOUS
    <3> QED  BY <1>1, <3>1, <3>2, <3>3
  <2>4. ASSUME Len(a) < Len(b), \A i \in 1 .. Len(a) : a[i] = b[i]
        PROVE  IsStrictPrefix(a, b)
    <3>1. Len(a) <= Len(b)
      BY <1>1, <2>4
    <3> QED  BY <1>2, <2>1, <2>2, <2>4, <3>1
  <2> QED  BY <2>3, <2>4
<1> QED  BY <1>1, <1>2, <1>4, <1>5

\* One comes before another if it ends, or is less, where they first differ.
LEMMA BeforeMeans ==
    ASSUME NEW a \in Seq(Nat), NEW b \in Seq(Nat)
    PROVE  Before(a, b) <=>
              \E i \in 1 .. Len(b) :
                 /\ i <= Len(a) + 1
                 /\ \A j \in 1 .. i - 1 : a[j] = b[j]
                 /\ i <= Len(a) => a[i] < b[i]
<1>1. /\ Len(a) \in Nat /\ Len(b) \in Nat /\ DOMAIN a = 1 .. Len(a) /\ DOMAIN b = 1 .. Len(b)
      /\ IsStrictPrefix(a, b) <=> Len(a) < Len(b) /\ \A i \in 1 .. Len(a) : a[i] = b[i]
  BY PrefixMeans
<1>2. ASSUME IsStrictPrefix(a, b)
      PROVE  \E i \in 1 .. Len(b) :
                 /\ i <= Len(a) + 1
                 /\ \A j \in 1 .. i - 1 : a[j] = b[j]
                 /\ i <= Len(a) => a[i] < b[i]
  <2>1. Len(a) + 1 \in 1 .. Len(b) /\ (Len(a) + 1) - 1 = Len(a) /\ ~(Len(a) + 1 <= Len(a))
    BY <1>1, <1>2
  <2>2. \A j \in 1 .. (Len(a) + 1) - 1 : a[j] = b[j]
    BY <1>1, <1>2, <2>1
  <2> QED  BY <1>1, <2>1, <2>2
<1>3. ASSUME NEW i \in 1 .. Len(b), i <= Len(a) + 1, \A j \in 1 .. i - 1 : a[j] = b[j],
             i <= Len(a) => a[i] < b[i]
      PROVE  Before(a, b)
  <2>1. CASE i <= Len(a)
    BY <1>1, <1>3, <2>1 DEF Before
  <2>2. CASE i = Len(a) + 1
    BY <1>1, <1>3, <2>2 DEF Before
  <2> QED  BY <1>1, <1>3, <2>1, <2>2
<1>4. ASSUME NEW i \in DOMAIN a \cap DOMAIN b, a[i] < b[i], \A j \in 1 .. i - 1 : a[j] = b[j]
      PROVE  \E k \in 1 .. Len(b) :
                 /\ k <= Len(a) + 1
                 /\ \A j \in 1 .. k - 1 : a[j] = b[j]
                 /\ k <= Len(a) => a[k] < b[k]
  <2>1. i \in 1 .. Len(b) /\ i <= Len(a) + 1
    BY <1>1
  <2> QED  BY <1>4, <2>1
<1>5. Before(a, b) =>
        \/ IsStrictPrefix(a, b)
        \/ \E i \in DOMAIN a \cap DOMAIN b : a[i] < b[i] /\ \A j \in 1 .. i - 1 : a[j] = b[j]
  BY DEF Before
<1> QED  BY <1>2, <1>3, <1>4, <1>5

\* Packed keys are strictly and totally ordered.
LEMMA BeforeOrders ==
    /\ \A a \in Seq(Nat) : ~Before(a, a)
    /\ \A a, b, c \in Seq(Nat) : Before(a, b) /\ Before(b, c) => Before(a, c)
    /\ \A a, b \in Seq(Nat) : a = b \/ Before(a, b) \/ Before(b, a)
<1>1. ASSUME NEW a \in Seq(Nat), Before(a, a) PROVE FALSE
  <2>1. PICK i \in 1 .. Len(a) : i <= Len(a) => a[i] < a[i]
    BY <1>1, BeforeMeans
  <2> QED  BY <2>1, PrefixMeans
<1>2. ASSUME NEW a \in Seq(Nat), NEW b \in Seq(Nat), NEW c \in Seq(Nat),
             Before(a, b), Before(b, c)
      PROVE  Before(a, c)
  <2>1. PICK i \in 1 .. Len(b) :
            i <= Len(a) + 1 /\ (\A j \in 1 .. i - 1 : a[j] = b[j]) /\ (i <= Len(a) => a[i] < b[i])
    BY <1>2, BeforeMeans
  <2>2. PICK k \in 1 .. Len(c) :
            k <= Len(b) + 1 /\ (\A j \in 1 .. k - 1 : b[j] = c[j]) /\ (k <= Len(b) => b[k] < c[k])
    BY <1>2, BeforeMeans
  <2>3. /\ Len(a) \in Nat /\ Len(b) \in Nat /\ Len(c) \in Nat
        /\ \A j \in 1 .. Len(a) : a[j] \in Nat
        /\ \A j \in 1 .. Len(b) : b[j] \in Nat
        /\ \A j \in 1 .. Len(c) : c[j] \in Nat
    BY PrefixMeans
  <2>4. CASE i < k
    <3>0. i \in Nat /\ i < k /\ k <= Len(c) /\ i >= 1 /\ i <= Len(a) + 1
      BY <2>1, <2>2, <2>3, <2>4
    <3>1. i \in 1 .. Len(c) /\ i <= Len(a) + 1 /\ (\A j \in 1 .. i - 1 : a[j] = c[j])
      <4>1. i \in 1 .. Len(c)
        BY <2>3, <3>0
      <4>2. ASSUME NEW j \in 1 .. i - 1 PROVE a[j] = c[j]
        <5>0. k \in Nat
          BY <2>2, <2>3
        <5>1. j \in 1 .. k - 1
          BY <3>0, <5>0
        <5> QED  BY <2>1, <2>2, <5>1
      <4> QED  BY <3>0, <4>1, <4>2
    <3>2. b[i] = c[i]
      BY <2>1, <2>2, <2>3, <2>4
    <3> QED  BY <2>1, <3>1, <3>2, BeforeMeans
  <2>5. CASE k <= i
    <3>0. i \in Nat /\ k \in Nat /\ k <= i /\ i <= Len(a) + 1
      BY <2>1, <2>2, <2>3, <2>5
    <3>1. k \in 1 .. Len(c) /\ k <= Len(a) + 1 /\ (\A j \in 1 .. k - 1 : a[j] = c[j])
      <4>1. k <= Len(a) + 1
        BY <2>3, <3>0
      <4>2. ASSUME NEW j \in 1 .. k - 1 PROVE a[j] = c[j]
        <5>1. j \in 1 .. i - 1
          BY <3>0
        <5> QED  BY <2>1, <2>2, <5>1
      <4> QED  BY <2>2, <4>1, <4>2
    <3>2. k <= Len(a) => a[k] < c[k]
      <4>1. k <= Len(b) /\ b[k] < c[k] /\ b[k] \in Nat /\ c[k] \in Nat
        BY <2>1, <2>2, <2>3, <2>5
      <4>2. CASE k < i
        BY <2>1, <2>2, <2>3, <4>1, <4>2
      <4>3. CASE k = i
        <5> SUFFICES ASSUME k <= Len(a) PROVE a[k] < c[k]
          OBVIOUS
        <5>1. k \in 1 .. Len(a) /\ a[k] < b[k]
          BY <2>1, <2>2, <2>3, <4>3
        <5>2. a[k] \in Nat
          BY <2>3, <5>1
        <5>3. \A x, y, z \in Nat : x < y /\ y < z => x < z
          OBVIOUS
        <5> QED  BY <4>1, <5>1, <5>2, <5>3
      <4> QED  BY <2>5, <2>1, <2>2, <4>2, <4>3
    <3> QED  BY <3>1, <3>2, BeforeMeans
  <2> QED  BY <2>1, <2>2, <2>4, <2>5
<1>3. ASSUME NEW a \in Seq(Nat), NEW b \in Seq(Nat), a # b, ~Before(a, b), ~Before(b, a)
      PROVE  FALSE
  <2> DEFINE differ == {i \in Nat \ {0} : i <= Len(a) /\ i <= Len(b) /\ a[i] # b[i]}
  <2>1. /\ Len(a) \in Nat /\ Len(b) \in Nat
        /\ \A j \in 1 .. Len(a) : a[j] \in Nat
        /\ \A j \in 1 .. Len(b) : b[j] \in Nat
    BY PrefixMeans
  <2>2. CASE differ = {}
    <3>1. ASSUME NEW j \in 1 .. Len(a), j <= Len(b) PROVE a[j] = b[j]
      <4>1. j \in Nat \ {0} /\ j <= Len(a)
        BY <2>1
      <4> QED  BY <2>2, <3>1, <4>1
    <3>2. CASE Len(a) = Len(b)
      BY <1>3, <3>1, <3>2, <2>1, SeqEqual
    <3>3. CASE Len(a) < Len(b)
      <4>1. /\ Len(a) + 1 \in 1 .. Len(b) /\ Len(a) + 1 <= Len(a) + 1 /\ ~(Len(a) + 1 <= Len(a))
            /\ \A j \in 1 .. (Len(a) + 1) - 1 : a[j] = b[j]
        BY <2>1, <3>1, <3>3
      <4> QED  BY <1>3, <4>1, BeforeMeans
    <3>4. CASE Len(b) < Len(a)
      <4>1. /\ Len(b) + 1 \in 1 .. Len(a) /\ Len(b) + 1 <= Len(b) + 1 /\ ~(Len(b) + 1 <= Len(b))
            /\ \A j \in 1 .. (Len(b) + 1) - 1 : b[j] = a[j]
        BY <2>1, <3>1, <3>4
      <4> QED  BY <1>3, <4>1, BeforeMeans
    <3> QED  BY <2>1, <3>2, <3>3, <3>4
  <2>3. CASE differ # {}
    <3>1. PICK i \in differ : \A j \in differ : i <= j
      <4>1. differ \in SUBSET Nat
        OBVIOUS
      <4> HIDE DEF differ
      <4> QED  BY <2>3, <4>1, FirstOf
    <3>2. i \in 1 .. Len(a) /\ i \in 1 .. Len(b) /\ a[i] # b[i] /\ a[i] \in Nat /\ b[i] \in Nat
      BY <2>1, <3>1
    <3>3. ASSUME NEW j \in 1 .. i - 1 PROVE a[j] = b[j] /\ b[j] = a[j]
      <4>1. j \in Nat \ {0} /\ j <= Len(a) /\ j <= Len(b) /\ ~(i <= j)
        BY <2>1, <3>2
      <4>2. j \notin differ
        BY <3>1, <4>1
      <4> QED  BY <4>1, <4>2
    <3>4. a[i] < b[i] \/ b[i] < a[i]
      BY <3>2
    <3>5. i <= Len(a) + 1 /\ i <= Len(b) + 1
      BY <2>1, <3>2
    <3> QED  BY <1>3, <3>2, <3>3, <3>4, <3>5, BeforeMeans
  <2> QED  BY <2>2, <2>3
<1> QED  BY <1>1, <1>2, <1>3

-----------------------------------------------------------------------------
(* Listings.                                                               *)

\* What is known of the listing between two pages.
ScanRecords ==
    [prefix : Seq(Nat), reverse : BOOLEAN, limit : Nat \ {0}, cursor : Seq(Nat) \cup {None},
     got : Seq(Keys), open : BOOLEAN]

Histories == [stay : SUBSET Keys, ever : SUBSET Keys, hidden : BOOLEAN]

Under(k) == IsPrefix(Norm(scan.prefix), k) /\ Strips(scan.prefix, k)

\* Pages go on behind the last key that was returned.
CursorAtLast ==
    /\ scan.cursor = None <=> scan.got = <<>>
    /\ scan.cursor # None => Norm(scan.prefix) \o scan.cursor = Last(scan.got)

GotInOrder == \A i, j \in DOMAIN scan.got : i < j => Precedes(scan, scan.got[i], scan.got[j])

GotWasThere == \A i \in DOMAIN scan.got : scan.got[i] \in hist.ever /\ Under(scan.got[i])

\* A key that was there all the time was returned, or lies ahead.
Ahead(k) == scan.got # <<>> => Precedes(scan, Last(scan.got), k)

NothingPassed ==
    \A k \in hist.stay : Under(k) =>
        \/ k \in ToSet(scan.got)
        \/ scan.open /\ Ahead(k)
        \/ ~scan.open /\ hist.hidden

PagesInv ==
    /\ scan \in ScanRecords /\ hist \in Histories
    /\ CursorAtLast /\ GotInOrder /\ GotWasThere /\ NothingPassed

\* This is what the listing promises.
LEMMA PagesInvSuffices == PagesInv => PagesComplete
<1> SUFFICES ASSUME PagesInv PROVE PagesComplete
  OBVIOUS
<1>1. \A k \in ToSet(scan.got) : \E i \in DOMAIN scan.got : scan.got[i] = k
  BY DEF ToSet
<1> QED  BY <1>1 DEF PagesInv, PagesComplete, GotInOrder, GotWasThere, NothingPassed, Under,
                     Histories

\* So does the order of a listing, in either direction.
LEMMA PrecedesOrders ==
    ASSUME NEW s
    PROVE  /\ \A a \in Seq(Nat) : ~Precedes(s, a, a)
           /\ \A a, b, c \in Seq(Nat) : Precedes(s, a, b) /\ Precedes(s, b, c) => Precedes(s, a, c)
           /\ \A a, b \in Seq(Nat) : a = b \/ Precedes(s, a, b) \/ Precedes(s, b, a)
BY BeforeOrders DEF Precedes

\* A path is packed as a sequence of segments.
LEMMA NormType ==
    ASSUME NEW path \in Seq(Nat)
    PROVE  Norm(path) \in Seq(Nat)
<1> DEFINE kept == {i \in DOMAIN path : path[i] # Empty}
           order == {pair \in kept \X kept : pair[1] < pair[2]}
           at == Ranked(kept, order)
<1>1. kept \in SUBSET (1 .. Len(path)) /\ kept \subseteq Nat /\ Len(path) \in Nat
  OBVIOUS
<1>2. IsFiniteSet(kept)
  <2>1. IsFiniteSet(1 .. Len(path))
    BY <1>1, FS_Interval
  <2> HIDE DEF kept
  <2> QED  BY <1>1, <2>1, FS_Subset
<1>3. StrictOrder(order, kept)
  <2> HIDE DEF kept
  <2>1. \A x, y \in kept : <<x, y>> \in order <=> x < y
    OBVIOUS
  <2> HIDE DEF order
  <2> QED  BY <1>1, <2>1 DEF StrictOrder
<1>4. at \in [1 .. Cardinality(kept) -> kept] /\ Cardinality(kept) \in Nat
  <2> HIDE DEF kept, order
  <2> QED  BY <1>2, <1>3, RankedFacts
<1>5. Norm(path) = [n \in DOMAIN at |-> path[at[n]]]
  BY DEF Norm
<1>6. \A n \in 1 .. Cardinality(kept) : path[at[n]] \in Nat
  <2>1. \A i \in kept : path[i] \in Nat
    OBVIOUS
  <2> HIDE DEF kept, at
  <2> QED  BY <1>4, <2>1
<1> HIDE DEF kept, at
<1> QED  BY <1>4, <1>5, <1>6

\* The rows of the database: keys that are there, and records behind them.
LEMMA RowFacts ==
    ASSUME TypeOK
    PROVE  /\ IsFiniteSet(Rows)
           /\ Rows \subseteq Seq(Nat)
           /\ Rows \cap Keys = Present(store)
<1> DEFINE code(n) == VersionstampCode + n
           made == [pair \in Keys \X (1 .. version) |-> Append(pair[1], code(pair[2]))]
           tails == {made[pair] : pair \in Keys \X (1 .. version)}
           recs == {Append(r.key, VersionstampCode + r.stamp) : r \in records}
<1>1. /\ version \in Nat /\ VersionstampCode \in Nat /\ IsFiniteSet(Keys)
      /\ Keys \subseteq Seq(0 .. VersionstampCode - 1)
      /\ \A r \in records : r.key \in Keys /\ r.stamp \in 1 .. version
  BY KeysAssumption DEF TypeOK
<1>2. IsFiniteSet(tails)
  <2>0. IsFiniteSet(1 .. version)
    BY <1>1, FS_Interval
  <2>1. IsFiniteSet(Keys \X (1 .. version))
    BY <1>1, <2>0, FS_Product
  <2>2. made \in Surjection(Keys \X (1 .. version), tails)
    BY DEF Surjection
  <2> HIDE DEF made, tails
  <2> QED  BY <2>1, <2>2, FS_Surjection
<1>3. recs \subseteq tails
  <2> SUFFICES ASSUME NEW r \in records PROVE Append(r.key, VersionstampCode + r.stamp) \in tails
    OBVIOUS
  <2>1. <<r.key, r.stamp>> \in Keys \X (1 .. version)
    BY <1>1
  <2>2. made[<<r.key, r.stamp>>] = Append(r.key, VersionstampCode + r.stamp)
    BY <2>1
  <2> QED  BY <2>1, <2>2
<1>4. Rows = Present(store) \cup recs /\ Present(store) \subseteq Keys
  BY DEF Rows, Present
<1>5. IsFiniteSet(Rows)
  <2>1. IsFiniteSet(Keys \cup tails) /\ Rows \in SUBSET (Keys \cup tails)
    <3> HIDE DEF tails, recs
    <3> QED  BY <1>1, <1>2, <1>3, <1>4, FS_Union
  <2> HIDE DEF tails
  <2> QED  BY <2>1, FS_Subset
<1>6. \A k \in Keys : k \in Seq(Nat) /\ \A i \in 1 .. Len(k) : k[i] \in 0 .. VersionstampCode - 1
  BY <1>1
<1>7. ASSUME NEW r \in records
      PROVE  LET row == Append(r.key, VersionstampCode + r.stamp)
             IN  row \in Seq(Nat) /\ row \notin Keys
  <2> DEFINE row == Append(r.key, VersionstampCode + r.stamp)
  <2>1. r.key \in Seq(Nat) /\ VersionstampCode + r.stamp \in Nat
    BY <1>1, <1>6
  <2>2. /\ row \in Seq(Nat) /\ Len(row) = Len(r.key) + 1 /\ Len(r.key) \in Nat
        /\ row[Len(r.key) + 1] = VersionstampCode + r.stamp
    BY <2>1
  <2>3. row \notin Keys
    <3> SUFFICES ASSUME row \in Keys PROVE FALSE
      OBVIOUS
    <3> HIDE DEF row
    <3>1. row[Len(r.key) + 1] \in 0 .. VersionstampCode - 1
      BY <1>6, <2>2
    <3> QED  BY <1>1, <2>2, <3>1
  <2> QED  BY <2>2, <2>3
<1>8. Rows \subseteq Seq(Nat)
  BY <1>4, <1>6, <1>7
<1>9. Rows \cap Keys = Present(store)
  BY <1>4, <1>7
<1> QED  BY <1>5, <1>8, <1>9

\* What get_range returns is an initial part of the range, and not an empty one.
LEMMA FetchedFacts ==
    ASSUME TypeOK, scan \in ScanRecords, NEW n \in Nat \ {0}
    PROVE  LET range == {row \in Rows : InRange(scan, row)}
           IN  /\ Fetched(scan, n) \subseteq range /\ IsFiniteSet(Fetched(scan, n))
               /\ \A row \in range \ Fetched(scan, n) :
                     \A first \in Fetched(scan, n) : Precedes(scan, first, row)
               /\ Fetched(scan, n) = {} => range = {}
<1> DEFINE range == {row \in Rows : InRange(scan, row)}
           ahead(row) == {r \in range : Precedes(scan, r, row)}
           order == {pair \in range \X range : Precedes(scan, pair[1], pair[2])}
<1>1. range \subseteq Seq(Nat) /\ IsFiniteSet(range)
  <2>1. range \in SUBSET Rows
    OBVIOUS
  <2> HIDE DEF range
  <2> QED  BY <2>1, RowFacts, FS_Subset
<1>2. Fetched(scan, n) = {row \in range : Cardinality(ahead(row)) < n}
  BY DEF Fetched
<1>3. \A row \in range : IsFiniteSet(ahead(row)) /\ Cardinality(ahead(row)) \in Nat
  <2> SUFFICES ASSUME NEW row \in range
               PROVE  IsFiniteSet(ahead(row)) /\ Cardinality(ahead(row)) \in Nat
    OBVIOUS
  <2>1. ahead(row) \in SUBSET range
    OBVIOUS
  <2> HIDE DEF ahead, range
  <2> QED  BY <1>1, <2>1, FS_Subset, FS_CardinalityType
<1>4. ASSUME NEW row \in range \ Fetched(scan, n), NEW first \in Fetched(scan, n)
      PROVE  Precedes(scan, first, row)
  <2>1. first \in range /\ Cardinality(ahead(first)) < n /\ ~(Cardinality(ahead(row)) < n)
    BY <1>2
  <2>2. first # row
    BY <2>1
  <2>3. ASSUME Precedes(scan, row, first) PROVE FALSE
    <3>1. ahead(row) \in SUBSET ahead(first)
      <4> HIDE DEF range
      <4> QED  BY <1>1, <2>1, <2>3, PrecedesOrders
    <3>2. Cardinality(ahead(row)) <= Cardinality(ahead(first))
      <4> HIDE DEF ahead, range
      <4> QED  BY <1>3, <2>1, <3>1, FS_Subset
    <3> HIDE DEF ahead, range
    <3> QED  BY <1>3, <2>1, <3>2
  <2> HIDE DEF range
  <2> QED  BY <1>1, <2>1, <2>2, <2>3, PrecedesOrders
<1>5. ASSUME range # {} PROVE Fetched(scan, n) # {}
  <2>1. StrictOrder(order, range)
    <3>1. \A x, y \in range : <<x, y>> \in order <=> Precedes(scan, x, y)
      OBVIOUS
    <3> HIDE DEF order, range
    <3> QED  BY <1>1, <3>1, PrecedesOrders DEF StrictOrder
  <2>2. PICK x \in range : \A y \in range : <<y, x>> \notin order
    <3> HIDE DEF order, range
    <3> QED  BY <1>1, <1>5, <2>1, RankedFacts
  <2>3. ahead(x) = {}
    BY <2>2
  <2>4. Cardinality(ahead(x)) = 0
    BY <2>3, FS_EmptySet
  <2>5. 0 < n
    OBVIOUS
  <2> HIDE DEF ahead, range
  <2> QED  BY <1>2, <2>4, <2>5
<1>6. IsFiniteSet(Fetched(scan, n)) /\ Fetched(scan, n) \subseteq range
  <2>1. Fetched(scan, n) \in SUBSET range
    BY <1>2
  <2> HIDE DEF range
  <2> QED  BY <1>1, <2>1, FS_Subset
<1> HIDE DEF range
<1> QED  BY <1>4, <1>5, <1>6 DEF range

\* What a page lists: the rows that are keys, in order.
LEMMA ListedFacts ==
    ASSUME TypeOK, scan \in ScanRecords, NEW n \in Nat \ {0}
    PROVE  LET rows == {row \in Fetched(scan, n) : ~Hidden(scan, row)}
           IN  /\ Listed(scan, n) \in Seq(Keys)
               /\ \A i, j \in 1 .. Len(Listed(scan, n)) :
                     i < j => Precedes(scan, Listed(scan, n)[i], Listed(scan, n)[j])
               /\ \A i \in 1 .. Len(Listed(scan, n)) : Listed(scan, n)[i] \in rows
               /\ \A row \in rows : \E i \in 1 .. Len(Listed(scan, n)) : Listed(scan, n)[i] = row
<1> DEFINE rows == {row \in Fetched(scan, n) : ~Hidden(scan, row)}
           order == {pair \in rows \X rows : Precedes(scan, pair[1], pair[2])}
           listed == Listed(scan, n)
<1>1. IsFiniteSet(rows) /\ rows \subseteq Keys /\ rows \subseteq Seq(Nat)
  <2>1. rows \in SUBSET Fetched(scan, n)
    OBVIOUS
  <2>2. /\ IsFiniteSet(Fetched(scan, n))
        /\ \A row \in Fetched(scan, n) : row \in Rows /\ InRange(scan, row)
    BY FetchedFacts
  <2>3. \A row \in rows : row \in Keys
    BY <2>2 DEF Hidden, InRange
  <2>4. \A row \in rows : row \in Seq(Nat)
    BY <2>2, RowFacts
  <2> HIDE DEF rows
  <2>5. IsFiniteSet(rows)
    BY <2>1, <2>2, FS_Subset
  <2> QED  BY <2>3, <2>4, <2>5
<1>2. StrictOrder(order, rows)
  <2>1. \A x, y \in rows : <<x, y>> \in order <=> Precedes(scan, x, y)
    OBVIOUS
  <2> HIDE DEF order, rows
  <2> QED  BY <1>1, <2>1, PrecedesOrders DEF StrictOrder
<1>3. listed = Ranked(rows, order)
  BY DEF Listed
<1>4. /\ Cardinality(rows) \in Nat
      /\ listed \in [1 .. Cardinality(rows) -> rows]
      /\ \A row \in rows : \E i \in 1 .. Cardinality(rows) : listed[i] = row
      /\ \A i, j \in 1 .. Cardinality(rows) : i < j => <<listed[i], listed[j]>> \in order
  <2> HIDE DEF order, rows, listed
  <2>1. IsFiniteSet(rows) /\ StrictOrder(order, rows)
    BY <1>1, <1>2
  <2>2. /\ Cardinality(rows) \in Nat
        /\ Ranked(rows, order) \in [1 .. Cardinality(rows) -> rows]
        /\ \A row \in rows : \E i \in 1 .. Cardinality(rows) : Ranked(rows, order)[i] = row
        /\ \A i, j \in 1 .. Cardinality(rows) :
              i < j => <<Ranked(rows, order)[i], Ranked(rows, order)[j]>> \in order
    BY <2>1, RankedFacts
  <2> QED  BY <1>3, <2>2
<1>5. listed \in Seq(rows) /\ Len(listed) = Cardinality(rows)
  <2> HIDE DEF order, rows, listed
  <2> QED  BY <1>4
<1>6. listed \in Seq(Keys)
  <2> HIDE DEF order, rows, listed
  <2> QED  BY <1>1, <1>5, SeqMonotonic
<1>7. \A x, y \in rows : <<x, y>> \in order => Precedes(scan, x, y)
  OBVIOUS
<1>8. /\ \A i \in 1 .. Len(listed) : listed[i] \in rows
      /\ \A i, j \in 1 .. Len(listed) : i < j => Precedes(scan, listed[i], listed[j])
  <2> HIDE DEF order, rows, listed
  <2> QED  BY <1>4, <1>5, <1>7
<1> HIDE DEF rows, listed
<1> QED  BY <1>4, <1>5, <1>6, <1>8 DEF rows, listed

\* What follows a prefix of a key, behind it again, is the key.
LEMMA PrefixAndRest ==
    ASSUME NEW p \in Seq(Nat), NEW key \in Seq(Nat), IsPrefix(p, key)
    PROVE  LET rest == SubSeq(key, Len(p) + 1, Len(key))
           IN  rest \in Seq(Nat) /\ p \o rest = key
<1> DEFINE rest == SubSeq(key, Len(p) + 1, Len(key))
<1>1. /\ Len(p) \in Nat /\ Len(key) \in Nat /\ Len(p) <= Len(key)
      /\ \A i \in 1 .. Len(p) : p[i] = key[i]
      /\ \A i \in 1 .. Len(key) : key[i] \in Nat
  BY PrefixMeans
<1>2. \A i \in Len(p) + 1 .. Len(key) : key[i] \in Nat
  BY <1>1
<1>3. /\ rest \in Seq(Nat) /\ Len(rest) = Len(key) - Len(p)
      /\ \A i \in 1 .. Len(key) - Len(p) : rest[i] = key[Len(p) + i]
  <2>1. /\ rest \in Seq(Nat)
        /\ Len(rest) = IF Len(p) + 1 <= Len(key) THEN Len(key) - (Len(p) + 1) + 1 ELSE 0
        /\ \A i \in 1 .. Len(key) - (Len(p) + 1) + 1 : rest[i] = key[Len(p) + 1 + i - 1]
    BY <1>1, <1>2, SubSeqProperties
  <2> HIDE DEF rest
  <2>2. \A i \in 1 .. Len(key) - Len(p) : Len(p) + 1 + i - 1 = Len(p) + i
    BY <1>1
  <2>3. Len(key) - (Len(p) + 1) + 1 = Len(key) - Len(p)
    BY <1>1
  <2>4. Len(rest) = Len(key) - Len(p)
    <3>1. \A m, n \in Nat : m <= n => (IF m + 1 <= n THEN n - (m + 1) + 1 ELSE 0) = n - m
      OBVIOUS
    <3> QED  BY <1>1, <2>1, <3>1
  <2> QED  BY <2>1, <2>2, <2>3, <2>4
<1>4. /\ p \o rest \in Seq(Nat) /\ Len(p \o rest) = Len(key)
      /\ \A i \in 1 .. Len(key) : (p \o rest)[i] = key[i]
  <2> HIDE DEF rest
  <2>1. /\ p \o rest \in Seq(Nat) /\ Len(p \o rest) = Len(p) + Len(rest)
        /\ \A i \in 1 .. Len(p) + Len(rest) :
              (p \o rest)[i] = IF i <= Len(p) THEN p[i] ELSE rest[i - Len(p)]
    BY <1>3, ConcatProperties
  <2>2. Len(p) + Len(rest) = Len(key)
    BY <1>1, <1>3
  <2>3. ASSUME NEW i \in 1 .. Len(key) PROVE (p \o rest)[i] = key[i]
    <3>1. CASE i <= Len(p)
      BY <1>1, <2>1, <2>2, <3>1
    <3>2. CASE ~(i <= Len(p))
      <4>1. i - Len(p) \in 1 .. Len(key) - Len(p) /\ Len(p) + (i - Len(p)) = i
        BY <1>1, <3>2
      <4> QED  BY <1>3, <2>1, <2>2, <3>2, <4>1
    <3> QED  BY <3>1, <3>2
  <2> QED  BY <2>1, <2>2, <2>3
<1> HIDE DEF rest
<1>5. p \o rest = key
  BY <1>4, SeqEqual
<1> QED  BY <1>3, <1>5 DEF rest

\* The last element is one of them.
LEMMA LastOf ==
    ASSUME NEW S, NEW q \in Seq(S), q # <<>>
    PROVE  Len(q) \in 1 .. Len(q) /\ Last(q) = q[Len(q)] /\ Last(q) \in S
<1>1. Len(q) \in Nat /\ Len(q) # 0
  OBVIOUS
<1> QED  BY <1>1, ElementOfSeq DEF Last

\* The last page is empty, and there is nothing left if nothing is filtered out.
LEMMA EmptyPage ==
    ASSUME TypeOK, PagesInv, scan.open, Remember, UNCHANGED store,
           NEW n \in Nat \ {0}, Listed(scan, n) = <<>>,
           scan' = [scan EXCEPT !.open = FALSE]
    PROVE  PagesInv'
<1> DEFINE rows == {row \in Fetched(scan, n) : ~Hidden(scan, row)}
           range == {row \in Rows : InRange(scan, row)}
<1>1. scan \in ScanRecords /\ hist \in Histories /\ CursorAtLast /\ GotInOrder /\ GotWasThere
      /\ NothingPassed
  BY DEF PagesInv
<1>2. /\ scan' \in ScanRecords /\ scan'.prefix = scan.prefix /\ scan'.reverse = scan.reverse
      /\ scan'.cursor = scan.cursor /\ scan'.got = scan.got /\ scan'.open = FALSE
  BY <1>1 DEF ScanRecords
<1>3. hist' = [stay |-> hist.stay \cap Present(store),
               ever |-> hist.ever \cup Present(store),
               hidden |-> hist.hidden \/ \E row \in Rows : Hidden(scan, row)]
  BY DEF Remember, Present
<1>4. /\ hist' \in Histories /\ hist'.stay = hist.stay \cap Present(store)
      /\ hist'.ever = hist.ever \cup Present(store)
      /\ hist'.hidden <=> hist.hidden \/ \E row \in Rows : Hidden(scan, row)
  <2>1. Present(store) \subseteq Keys
    BY DEF Present
  <2> QED  BY <1>1, <1>3, <2>1 DEF Histories
<1>5. \A a, b : Precedes(scan', a, b) <=> Precedes(scan, a, b)
  BY <1>2 DEF Precedes
<1>6. \A k : Under(k)' <=> Under(k)
  BY <1>2 DEF Under
<1>7. ASSUME NEW k \in hist'.stay, Under(k), ~hist'.hidden
      PROVE  k \in ToSet(scan.got)
  <2>1. rows = {}
    <3>1. \A row \in rows : \E i \in 1 .. Len(Listed(scan, n)) : Listed(scan, n)[i] = row
      BY <1>1, ListedFacts
    <3> QED  BY <3>1
  <2>2. \A row \in Fetched(scan, n) : row \in Rows
    BY <1>1, FetchedFacts
  <2>3. Fetched(scan, n) = {}
    BY <1>4, <1>7, <2>1, <2>2
  <2>4. range = {}
    BY <1>1, <2>3, FetchedFacts
  <2>5. k \in Rows /\ k \in hist.stay
    BY <1>4, <1>7 DEF Rows
  <2>6. ~InRange(scan, k)
    BY <2>4, <2>5
  <2>7. ~(scan.cursor = None) /\ ~AfterCursor(scan, k)
    BY <1>7, <2>6 DEF InRange, Under
  <2>8. ~Ahead(k)
    BY <1>1, <2>7 DEF CursorAtLast, Ahead, AfterCursor
  <2> QED  BY <1>1, <1>7, <2>5, <2>8 DEF NothingPassed
<1>8. CursorAtLast'
  BY <1>1, <1>2 DEF CursorAtLast
<1>9. GotInOrder'
  BY <1>1, <1>2, <1>5 DEF GotInOrder
<1>10. GotWasThere'
  BY <1>1, <1>2, <1>4, <1>6 DEF GotWasThere
<1>11. NothingPassed'
  <2> SUFFICES ASSUME NEW k \in hist'.stay, Under(k)'
               PROVE  k \in ToSet(scan'.got) \/ hist'.hidden
    BY <1>2 DEF NothingPassed
  <2> QED  BY <1>2, <1>6, <1>7
<1> QED  BY <1>2, <1>4, <1>8, <1>9, <1>10, <1>11 DEF PagesInv

\* Another page: all that is ahead up to its last key.
LEMMA NextPage ==
    ASSUME TypeOK, PagesInv, scan.open, Remember, UNCHANGED store,
           NEW n \in Nat \ {0}, NEW listed, listed = Listed(scan, n), listed # <<>>,
           scan' = [scan EXCEPT !.got = @ \o listed,
                                !.cursor = SubSeq(Last(listed), Len(Norm(scan.prefix)) + 1,
                                                  Len(Last(listed)))]
    PROVE  PagesInv'
<1> DEFINE rows == {row \in Fetched(scan, n) : ~Hidden(scan, row)}
           range == {row \in Rows : InRange(scan, row)}
           old == scan.got
           last == Last(listed)
           p == Norm(scan.prefix)
           rest == SubSeq(last, Len(p) + 1, Len(last))
<1>1. scan \in ScanRecords /\ hist \in Histories /\ CursorAtLast /\ GotInOrder /\ GotWasThere
      /\ NothingPassed
  BY DEF PagesInv
<1>2. /\ listed \in Seq(Keys) /\ Len(listed) \in Nat
      /\ \A i, j \in 1 .. Len(listed) : i < j => Precedes(scan, listed[i], listed[j])
      /\ \A i \in 1 .. Len(listed) : listed[i] \in rows
      /\ \A row \in rows : \E i \in 1 .. Len(listed) : listed[i] = row
  <2> HIDE DEF rows
  <2> QED  BY <1>1, ListedFacts DEF rows
<1>3. Len(listed) \in 1 .. Len(listed) /\ last = listed[Len(listed)] /\ last \in Keys
  BY <1>2, LastOf
<1>4. \A row \in rows : /\ row \in Present(store) /\ row \in Keys /\ row \in Seq(Nat)
                        /\ InRange(scan, row) /\ Under(row)
  <2>1. \A row \in Fetched(scan, n) : row \in Rows /\ InRange(scan, row)
    BY <1>1, FetchedFacts
  <2>2. \A row \in rows : /\ row \in Rows /\ InRange(scan, row)
                          /\ row \in Keys /\ Strips(scan.prefix, row)
    BY <2>1 DEF Hidden, InRange
  <2> QED  BY <2>2, RowFacts DEF Under, InRange
<1>5. /\ old \in Seq(Keys) /\ Len(old) \in Nat /\ DOMAIN old = 1 .. Len(old)
      /\ p \in Seq(Nat) /\ Keys \subseteq Seq(Nat)
  <2>1. \A k \in Keys : k \in Seq(Nat)
    BY KeysAssumption
  <2>2. scan.prefix \in Seq(Nat) /\ old \in Seq(Keys)
    BY <1>1 DEF ScanRecords
  <2> QED  BY <2>1, <2>2, NormType
<1>6. rest \in Seq(Nat) /\ p \o rest = last
  <2>1. IsPrefix(p, last) /\ last \in Seq(Nat)
    BY <1>2, <1>3, <1>4 DEF Under
  <2> QED  BY <1>5, <2>1, PrefixAndRest
<1>7. /\ old \o listed \in Seq(Keys) /\ Len(old \o listed) = Len(old) + Len(listed)
      /\ \A i \in 1 .. Len(old) + Len(listed) :
            (old \o listed)[i] = IF i <= Len(old) THEN old[i] ELSE listed[i - Len(old)]
  <2> HIDE DEF old
  <2> QED  BY <1>2, <1>5, ConcatProperties
<1>8. /\ scan'.prefix = scan.prefix /\ scan'.reverse = scan.reverse /\ scan'.open = TRUE
      /\ scan'.got = old \o listed /\ scan'.cursor = rest /\ scan' \in ScanRecords
  <2> HIDE DEF rest, last
  <2>1. scan' = [scan EXCEPT !.got = old \o listed, !.cursor = rest]
    BY DEF rest, last
  <2> QED  BY <1>1, <1>6, <1>7, <2>1 DEF ScanRecords
<1>9. /\ hist' \in Histories /\ hist'.stay = hist.stay \cap Present(store)
      /\ hist'.ever = hist.ever \cup Present(store)
  <2>1. Present(store) \subseteq Keys
    BY DEF Present
  <2>2. hist' = [stay |-> hist.stay \cap Present(store),
                 ever |-> hist.ever \cup Present(store),
                 hidden |-> hist.hidden \/ \E row \in Rows : Hidden(scan, row)]
    BY DEF Remember, Present
  <2> QED  BY <1>1, <2>1, <2>2 DEF Histories
<1>10. \A a, b : Precedes(scan', a, b) <=> Precedes(scan, a, b)
  BY <1>8 DEF Precedes
<1>11. \A k : Under(k)' <=> Under(k)
  BY <1>8 DEF Under
<1>12. scan'.got # <<>> /\ Last(scan'.got) = last /\ DOMAIN scan'.got = 1 .. Len(old) + Len(listed)
  <2> DEFINE got == old \o listed
  <2>1. /\ got \in Seq(Keys) /\ Len(got) = Len(old) + Len(listed) /\ Len(got) \in 1 .. Len(got)
        /\ ~(Len(got) <= Len(old)) /\ Len(got) - Len(old) = Len(listed)
    BY <1>2, <1>3, <1>5, <1>7
  <2>2. got[Len(got)] = listed[Len(listed)]
    <3> HIDE DEF old, got
    <3> QED  BY <1>7, <2>1 DEF got
  <2> HIDE DEF old, last, got
  <2>3. got # <<>> /\ Last(got) = last /\ DOMAIN got = 1 .. Len(got)
    BY <1>3, <2>1, <2>2 DEF Last
  <2> QED  BY <1>8, <2>1, <2>3 DEF got
<1>13. CursorAtLast'
  <2>1. rest # None
    BY <1>6, KeysAssumption
  <2> HIDE DEF rest, last, p
  <2>2. Norm(scan'.prefix) = p
    BY <1>8 DEF p
  <2> QED  BY <1>6, <1>8, <1>12, <2>1, <2>2 DEF CursorAtLast
\* What a page returns is ahead of all that was returned before.
<1>14. \A i \in 1 .. Len(old) : \A row \in rows : Precedes(scan, old[i], row)
  <2> SUFFICES ASSUME NEW i \in 1 .. Len(old), NEW row \in rows
               PROVE  Precedes(scan, old[i], row)
    OBVIOUS
  <2>1. old # <<>>
    BY <1>5
  <2>2. /\ Last(old) = old[Len(old)] /\ Last(old) \in Keys /\ old[i] \in Keys
        /\ Len(old) \in 1 .. Len(old)
    <3> HIDE DEF old
    <3> QED  BY <1>5, <2>1, LastOf, ElementOfSeq
  <2>3. Precedes(scan, Last(old), row)
    BY <1>1, <1>4, <2>1 DEF CursorAtLast, InRange, AfterCursor
  <2>4. CASE i = Len(old)
    BY <2>2, <2>3, <2>4
  <2>5. CASE i # Len(old)
    <3>1. i < Len(old)
      BY <1>5, <2>5
    <3>2. Precedes(scan, old[i], Last(old))
      BY <1>1, <1>5, <2>2, <3>1 DEF GotInOrder
    <3>3. old[i] \in Seq(Nat) /\ Last(old) \in Seq(Nat) /\ row \in Seq(Nat)
      BY <1>4, <1>5, <2>2
    <3> HIDE DEF old, rows
    <3> QED  BY <2>3, <3>2, <3>3, PrecedesOrders
  <2> QED  BY <2>4, <2>5
<1>15. GotInOrder'
  <2> SUFFICES ASSUME NEW i \in 1 .. Len(old) + Len(listed), NEW j \in 1 .. Len(old) + Len(listed),
                      i < j
               PROVE  Precedes(scan, (old \o listed)[i], (old \o listed)[j])
    BY <1>8, <1>10, <1>12 DEF GotInOrder
  <2> HIDE DEF old, rows
  <2>1. CASE j <= Len(old)
    <3>1. i \in DOMAIN old /\ j \in DOMAIN old /\ i <= Len(old)
      BY <1>5, <2>1
    <3>2. Precedes(scan, old[i], old[j])
      BY <1>1, <3>1 DEF GotInOrder, old
    <3> QED  BY <1>7, <2>1, <3>1, <3>2
  <2>2. CASE i <= Len(old) /\ ~(j <= Len(old))
    <3>1. i \in 1 .. Len(old) /\ j - Len(old) \in 1 .. Len(listed)
      BY <1>2, <1>5, <2>2
    <3> QED  BY <1>2, <1>7, <1>14, <2>2, <3>1
  <2>3. CASE ~(i <= Len(old))
    <3>1. /\ i - Len(old) \in 1 .. Len(listed) /\ j - Len(old) \in 1 .. Len(listed)
          /\ i - Len(old) < j - Len(old) /\ ~(j <= Len(old))
      <4>1. \A a, b, s, t \in Nat : ~(s <= a) /\ s < t /\ t <= a + b =>
               s - a \in 1 .. b /\ t - a \in 1 .. b /\ s - a < t - a /\ ~(t <= a)
        OBVIOUS
      <4>2. i \in Nat /\ j \in Nat /\ j <= Len(old) + Len(listed) /\ i < j
        BY <1>2, <1>5
      <4> QED  BY <1>2, <1>5, <2>3, <4>1, <4>2
    <3> QED  BY <1>2, <1>7, <2>3, <3>1
  <2> QED  BY <2>1, <2>2, <2>3
<1>16. GotWasThere'
  <2> SUFFICES ASSUME NEW i \in 1 .. Len(old) + Len(listed)
               PROVE  /\ (old \o listed)[i] \in hist.ever \cup Present(store)
                      /\ Under((old \o listed)[i])
    BY <1>8, <1>9, <1>11, <1>12 DEF GotWasThere
  <2> HIDE DEF old, rows
  <2>1. CASE i <= Len(old)
    <3>1. i \in DOMAIN old
      BY <1>5, <2>1
    <3>2. old[i] \in hist.ever /\ Under(old[i])
      BY <1>1, <3>1 DEF GotWasThere, old
    <3> QED  BY <1>7, <2>1, <3>2
  <2>2. CASE ~(i <= Len(old))
    <3>1. i - Len(old) \in 1 .. Len(listed)
      BY <1>2, <1>5, <2>2
    <3> QED  BY <1>2, <1>4, <1>7, <2>2, <3>1
  <2> QED  BY <2>1, <2>2
<1>17. ASSUME NEW k \in hist'.stay, Under(k)
       PROVE  k \in ToSet(old \o listed) \/ Precedes(scan, last, k)
  <2>1. k \in hist.stay /\ k \in Present(store) /\ k \in Rows /\ k \in Keys
    BY <1>9 DEF Rows, Present
  <2>2. CASE k \in ToSet(old)
    <3>1. PICK i \in 1 .. Len(old) : old[i] = k
      BY <1>5, <2>2 DEF ToSet
    <3>2. i \in 1 .. Len(old) + Len(listed) /\ i <= Len(old)
      BY <1>2, <1>5
    <3> HIDE DEF old
    <3>3. i \in DOMAIN (old \o listed) /\ (old \o listed)[i] = k
      BY <1>7, <3>1, <3>2
    <3> QED  BY <3>3 DEF ToSet
  <2>3. CASE k \notin ToSet(old)
    <3>1. Ahead(k)
      BY <1>1, <1>17, <2>1, <2>3 DEF NothingPassed
    <3>2. InRange(scan, k)
      BY <1>1, <1>17, <3>1 DEF CursorAtLast, Ahead, InRange, AfterCursor, Under
    <3>3. CASE k \in Fetched(scan, n)
      <4>1. k \in rows
        BY <1>17, <2>1, <3>3 DEF Hidden, Under
      <4>2. PICK i \in 1 .. Len(listed) : listed[i] = k
        BY <1>2, <4>1
      <4>3. /\ Len(old) + i \in 1 .. Len(old) + Len(listed) /\ ~(Len(old) + i <= Len(old))
            /\ (Len(old) + i) - Len(old) = i
        BY <1>2, <1>5
      <4> HIDE DEF old
      <4>4. Len(old) + i \in DOMAIN (old \o listed) /\ (old \o listed)[Len(old) + i] = k
        BY <1>7, <4>2, <4>3
      <4> QED  BY <4>4 DEF ToSet
    <3>4. CASE k \notin Fetched(scan, n)
      <4>1. k \in range \ Fetched(scan, n) /\ last \in Fetched(scan, n)
        BY <1>2, <1>3, <2>1, <3>2, <3>4
      <4>2. \A row \in range \ Fetched(scan, n) :
               \A first \in Fetched(scan, n) : Precedes(scan, first, row)
        BY <1>1, FetchedFacts
      <4> HIDE DEF range, last
      <4> QED  BY <4>1, <4>2
    <3> QED  BY <3>3, <3>4
  <2> QED  BY <2>2, <2>3
<1>18. NothingPassed'
  <2> SUFFICES ASSUME NEW k \in hist'.stay, Under(k)'
               PROVE  k \in ToSet(scan'.got) \/ Precedes(scan', Last(scan'.got), k)
    BY <1>8 DEF NothingPassed, Ahead
  <2> HIDE DEF old, last
  <2> QED  BY <1>8, <1>10, <1>11, <1>12, <1>17
<1> QED  BY <1>8, <1>9, <1>13, <1>15, <1>16, <1>18 DEF PagesInv

\* Every other step only takes from the keys that stay and adds to those that were there.
LEMMA PagesInductive ==
    /\ Init => PagesInv
    /\ KvInv /\ PagesInv /\ [Next]_vars => PagesInv'
<1>1. ASSUME Init PROVE PagesInv
  <2>1. PICK s \in Scans : scan = ScanOf(s)
    BY <1>1 DEF Init
  <2>2. scan \in ScanRecords /\ scan.cursor = None /\ scan.got = <<>> /\ scan.open = TRUE
    BY <2>1, ScansAssumption DEF ScanOf, ScanRecords
  <2>3. hist \in Histories
    BY <1>1 DEF Init, Histories, Present
  <2> QED  BY <2>2, <2>3 DEF PagesInv, CursorAtLast, GotInOrder, GotWasThere, NothingPassed, Ahead
<1>2. ASSUME KvInv, PagesInv, UNCHANGED scan,
             \/ hist' = hist
             \/ /\ hist'.stay \subseteq hist.stay /\ hist.ever \subseteq hist'.ever
                /\ hist' \in Histories /\ scan.open
      PROVE  PagesInv'
  <2>1. scan' = scan /\ hist' \in Histories /\ hist.ever \subseteq hist'.ever
        /\ hist'.stay \subseteq hist.stay /\ (hist' = hist \/ scan.open)
    BY <1>2 DEF PagesInv
  <2>2. \A k : (Under(k)' <=> Under(k)) /\ (Ahead(k)' <=> Ahead(k))
    BY <2>1 DEF Under, Ahead, Precedes
  <2>3. CursorAtLast' /\ GotInOrder'
    BY <1>2, <2>1 DEF PagesInv, CursorAtLast, GotInOrder, Precedes
  <2>4. GotWasThere'
    BY <1>2, <2>1, <2>2 DEF PagesInv, GotWasThere
  <2>5. NothingPassed'
    <3>1. NothingPassed
      BY <1>2 DEF PagesInv
    <3> SUFFICES ASSUME NEW k \in hist'.stay, Under(k)'
                 PROVE  \/ k \in ToSet(scan.got)
                        \/ scan.open /\ Ahead(k)'
                        \/ ~scan.open /\ hist'.hidden
      BY <2>1 DEF NothingPassed
    <3> QED  BY <2>1, <2>2, <3>1 DEF NothingPassed
  <2> QED  BY <1>2, <2>1, <2>3, <2>4, <2>5 DEF PagesInv
<1>3. ASSUME KvInv, PagesInv, Remember, UNCHANGED scan PROVE PagesInv'
  <2>1. CASE scan.open
    <3>1. hist' = [stay |-> hist.stay \cap Present(store'),
                   ever |-> hist.ever \cup Present(store'),
                   hidden |-> hist.hidden \/ \E row \in Rows : Hidden(scan, row)]
      BY <1>3, <2>1 DEF Remember
    <3>2. Present(store') \subseteq Keys /\ hist \in Histories
      BY <1>3 DEF Present, PagesInv
    <3> QED  BY <1>2, <1>3, <2>1, <3>1, <3>2 DEF Histories
  <2>2. CASE ~scan.open
    BY <1>2, <1>3, <2>2 DEF Remember
  <2> QED  BY <2>1, <2>2
<1>4. ASSUME KvInv, PagesInv, Page, Remember PROVE PagesInv'
  <2>1. scan.open /\ UNCHANGED store
    BY <1>4 DEF Page
  <2>2. PICK n \in 1 .. scan.limit : TakePage(Listed(scan, n))
    BY <1>4 DEF Page
  <2>3. n \in Nat \ {0} /\ TypeOK
    BY <1>4, <2>2 DEF PagesInv, ScanRecords, KvInv
  <2>4. CASE Listed(scan, n) = <<>>
    <3>1. scan' = [scan EXCEPT !.open = FALSE]
      BY <2>2, <2>4 DEF TakePage
    <3> QED  BY <1>4, <2>1, <2>3, <2>4, <3>1, EmptyPage
  <2>5. CASE Listed(scan, n) # <<>>
    <3> DEFINE listed == Listed(scan, n)
    <3>1. scan' = [scan EXCEPT !.got = @ \o listed,
                               !.cursor = SubSeq(Last(listed), Len(Norm(scan.prefix)) + 1,
                                                 Len(Last(listed)))]
      BY <2>2, <2>5 DEF TakePage
    <3>2. listed = Listed(scan, n) /\ listed # <<>>
      BY <2>5
    <3> HIDE DEF listed
    <3> QED  BY <1>4, <2>1, <2>3, <3>1, <3>2, NextPage
  <2> QED  BY <2>4, <2>5
<1>5. ASSUME KvInv, NEW c \in Clients, Step(c) PROVE UNCHANGED scan
  BY <1>5 DEF Step, Progress, Failure, Call, Begin, CasKey, CasRefused, GetKey, CommitOk,
              CommitConflict, StampOk, GetFails, StampFails, CommitUnknown, CommitFatal
<1>6. ASSUME KvInv, PagesInv, [Next]_vars PROVE PagesInv'
  <2>1. CASE UNCHANGED vars
    BY <1>2, <1>6, <2>1 DEF vars
  <2>2. CASE Next
    BY <1>3, <1>4, <1>5, <1>6, <2>2 DEF Next, Step
  <2> QED  BY <1>6, <2>1, <2>2
<1> QED  BY <1>1, <1>6

\* Listing page by page while others write, whatever the size of the pages: each
\* key once and in order, none that was never there, and every key that was there
\* all the time unless a row was filtered out.
THEOREM PagesAreComplete == Spec => []PagesComplete
<1>1. Init => KvInv /\ PagesInv
  BY Inductive, PagesInductive
<1>2. KvInv /\ PagesInv /\ [Next]_vars => (KvInv /\ PagesInv)'
  BY Inductive, PagesInductive
<1>3. KvInv /\ PagesInv => PagesComplete
  BY PagesInvSuffices
<1> QED  BY <1>1, <1>2, <1>3, PTL DEF Spec

=============================================================================

----------------------------- MODULE KvRequests -----------------------------
(***************************************************************************)
(* Requests of the key-value API (api/kv/mod.rs), shared by the abstract   *)
(* store AtomicKv and by KvStore, its implementation.  A request gets      *)
(* several keys, or checks and sets several keys.  The reference meaning   *)
(* of a compare-and-set is Holds and Effect: its parts are taken in order, *)
(* and each sees what the earlier ones of the same request have set.       *)
(***************************************************************************)
EXTENDS Naturals, Sequences

CONSTANTS
    Clients,    \* calls of the API, one request each
    Keys,       \* packed keys: sequences of segments
    Values,     \* stored bytes
    Requests,   \* what may be asked
    None        \* an absent value; "not yet"

\* TriStateCheck and TriStateSet.
Check == [is : {"any", "absent"}] \cup [is : {"value"}, value : Values]
Set == [is : {"preserve", "delete"}] \cup [is : {"value", "stamped"}, value : Values]

Parts == [key : Keys, check : Check, set : Set]

Stores == [Keys -> Values \cup {None}]

ASSUME RequestsAssumption ==
    \A r \in Requests : r.is \in {"cas", "get"} /\ r.parts \in Seq(Parts) \ {<<>>}

\* Responses: ok is true, ok is false, an exception, the values of a get.
Ok == [is |-> "ok"]
Refused == [is |-> "refused"]
Failed == [is |-> "failed"]
Got(values) == [is |-> "got", values |-> values]

ASSUME NoneAssumption ==
    /\ None \notin Values /\ None \notin Stores
    /\ None \notin {Ok, Refused, Failed}

\* The `match &req.check` of one key against the value the transaction reads.
Passes(check, current) ==
    \/ check.is = "any"
    \/ check.is = "absent" /\ current = None
    \/ check.is = "value" /\ current = check.value

\* The `match &req.set` of one key. A versionstamped record has a key of its
\* own and leaves the key itself alone.
Assign(set, current) ==
    IF set.is = "delete" THEN None
    ELSE IF set.is = "value" THEN set.value
    ELSE current

Latest(at) == CHOOSE i \in at : \A j \in at : j <= i

\* The parts among the first n that write key k.
Writes(parts, n, k) ==
    {i \in 1 .. n : parts[i].key = k /\ parts[i].set.is \in {"delete", "value"}}

\* The store after the first n parts: the latest write of a key counts.
After(parts, st, n) ==
    [k \in Keys |-> IF Writes(parts, n, k) = {} THEN st[k]
                    ELSE Assign(parts[Latest(Writes(parts, n, k))].set, st[k])]

Holds(parts, st) ==
    \A i \in DOMAIN parts :
        Passes(parts[i].check, After(parts, st, i - 1)[parts[i].key])

Effect(parts, st) == After(parts, st, Len(parts))

\* The versionstamped records of a request: one per key, the last one given.
StampedBy(parts, k) ==
    LET at == {i \in DOMAIN parts : parts[i].key = k /\ parts[i].set.is = "stamped"}
    IN  IF at = {} THEN None
        ELSE parts[Latest(at)].set.value

Records(parts, stamp) ==
    {[key |-> k, stamp |-> stamp, value |-> StampedBy(parts, k)] :
        k \in {l \in Keys : StampedBy(parts, l) # None}}

Mutates(parts) == \E i \in DOMAIN parts : parts[i].set.is # "preserve"
=============================================================================

----------------------------- MODULE MCKvStore -----------------------------
(* Instances of KvStore.                                                   *)
EXTENDS KvStore

ka == <<1>>
kab == <<1, 1>>
kb == <<2>>
kc == <<3>>

MCKeys == {ka, kab, kb, kc}

MCLargeKeys == {kc}

AnyValue == [is |-> "any"]
Absent == [is |-> "absent"]
Is(v) == [is |-> "value", value |-> v]
Preserve == [is |-> "preserve"]
Delete == [is |-> "delete"]
Stamped(v) == [is |-> "stamped", value |-> v]

Part(k, check, set) == [key |-> k, check |-> check, set |-> set]
Cas(parts) == [is |-> "cas", parts |-> parts]
Get(keys) ==
    [is |-> "get", parts |-> [i \in DOMAIN keys |-> Part(keys[i], AnyValue, Preserve)]]

\* create, a set that depends on another key, delete, a move of a key, a check of
\* what the request has set itself, a versionstamped record, two checks, a request
\* with too many keys, one with a value that is too large and one with such a key,
\* and a get of two keys.
MCRequests ==
    {Cas(<<Part(ka, Absent, Is(1))>>),
     Cas(<<Part(ka, Is(1), Preserve), Part(kb, AnyValue, Is(2))>>),
     Cas(<<Part(ka, AnyValue, Delete)>>),
     Cas(<<Part(ka, Is(1), Delete), Part(kb, Absent, Is(1))>>),
     Cas(<<Part(ka, AnyValue, Is(2)), Part(ka, Is(2), Preserve), Part(kb, AnyValue, Is(2))>>),
     Cas(<<Part(ka, AnyValue, Stamped(1))>>),
     Cas(<<Part(ka, Absent, Preserve), Part(kb, Is(1), Preserve)>>),
     Cas(<<Part(ka, AnyValue, Delete), Part(ka, Absent, Is(1)), Part(kb, AnyValue, Delete),
           Part(kab, AnyValue, Is(1))>>),
     Cas(<<Part(ka, AnyValue, Delete), Part(kb, Absent, Is(3))>>),
     Get(<<ka, kc>>), Get(<<ka, kb>>)}

MCStores ==
    {[k \in MCKeys |-> None],
     [k \in MCKeys |-> IF k \in {kb, kc} THEN None ELSE 1],
     [k \in MCKeys |-> IF k \in {ka, kc} THEN None ELSE 1]}

Scan(prefix, reverse, limit) == [prefix |-> prefix, reverse |-> reverse, limit |-> limit]

\* "" both ways, "a/" and "/a".
MCScans ==
    {Scan(<<0>>, FALSE, 1), Scan(<<0>>, TRUE, 2), Scan(<<1, 0>>, FALSE, 2),
     Scan(<<0, 1>>, FALSE, 1)}
=============================================================================

------------------------------ MODULE AtomicKv ------------------------------
(***************************************************************************)
(* What the key-value API promises: a store in which every compare-and-set *)
(* happens at one instant, all of it, and only if its checks hold at that  *)
(* instant; every get sees one instant.  Between the call and its answer a *)
(* request may look at the store and be applied; the answer tells which.   *)
(* A request whose commit had an unknown result may be applied again, each *)
(* time under its checks, and may be refused after it was applied.         *)
(***************************************************************************)
EXTENDS KvRequests

VARIABLES
    store,    \* the value of each key
    records,  \* versionstamped records
    version,  \* the version of the last commit, source of the stamps
    req,      \* client -> its request
    seen,     \* client -> the store as it last looked, or None
    applied,  \* client -> how often its request was applied
    answer    \* client -> response, or None

vars == <<store, records, version, req, seen, applied, answer>>

Init ==
    /\ store \in Stores
    /\ records = {}
    /\ version = 0
    /\ req \in [Clients -> Requests]
    /\ seen = [c \in Clients |-> None]
    /\ applied = [c \in Clients |-> 0]
    /\ answer = [c \in Clients |-> None]

Look(c) ==
    /\ answer[c] = None
    /\ seen' = [seen EXCEPT ![c] = store]
    /\ UNCHANGED <<store, records, version, req, applied, answer>>

\* The instant of a compare-and-set. It may carry its answer with it.
Apply(c) ==
    LET parts == req[c].parts
    IN  /\ answer[c] = None
        /\ req[c].is = "cas" /\ Mutates(parts)
        /\ Holds(parts, store)
        /\ store' = Effect(parts, store)
        /\ version' = version + 1
        /\ records' = records \cup Records(parts, version')
        /\ applied' = [applied EXCEPT ![c] = @ + 1]
        /\ answer' \in {answer, [answer EXCEPT ![c] = Ok]}
        /\ UNCHANGED <<req, seen>>

Truth(c) ==
    IF req[c].is = "get"
    THEN IF seen[c] = None THEN {}
         ELSE {Got([i \in DOMAIN req[c].parts |-> seen[c][req[c].parts[i].key]])}
    ELSE {a \in {Ok, Refused} :
            \/ a = Ok /\ applied[c] > 0
            \/ a = Ok /\ ~Mutates(req[c].parts)
                        /\ seen[c] # None /\ Holds(req[c].parts, seen[c])
            \/ a = Refused /\ seen[c] # None /\ ~Holds(req[c].parts, seen[c])}

Answer(c) ==
    /\ answer[c] = None
    /\ \E a \in Truth(c) \cup {Failed} : answer' = [answer EXCEPT ![c] = a]
    /\ UNCHANGED <<store, records, version, req, seen, applied>>

Next == \E c \in Clients : Look(c) \/ Apply(c) \/ Answer(c)

Spec == Init /\ [][Next]_vars
=============================================================================

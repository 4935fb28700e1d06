----------------------------- MODULE RemoteCall -----------------------------
(***************************************************************************)
(* What the channel between a worker and the host promises to the caller   *)
(* of call() or call_sync_slow(): the host runs the request at most once,  *)
(* also for a caller that has given up; an answer is the answer to this    *)
(* request, and comes after it was run; a request whose call failed is     *)
(* never run.  ReliableChannel implements it.                              *)
(***************************************************************************)
EXTENDS Naturals

CONSTANTS Calls, None

VARIABLES
    call,    \* call -> "new", "open", "answered", "failed", "cancelled"
    runs,    \* call -> how often the host ran its request
    answer   \* call -> the request it was answered for, or None

vars == <<call, runs, answer>>

Init ==
    /\ call = [c \in Calls |-> "new"]
    /\ runs = [c \in Calls |-> 0]
    /\ answer = [c \in Calls |-> None]

Become(c, phase) == call' = [call EXCEPT ![c] = phase]

Open(c) == call[c] = "new" /\ Become(c, "open") /\ UNCHANGED <<runs, answer>>

Run(c) ==
    /\ call[c] \in {"open", "cancelled"} /\ runs[c] = 0
    /\ runs' = [runs EXCEPT ![c] = 1]
    /\ UNCHANGED <<call, answer>>

Answer(c) ==
    /\ call[c] = "open" /\ runs[c] = 1
    /\ Become(c, "answered")
    /\ answer' = [answer EXCEPT ![c] = c]
    /\ UNCHANGED runs

Fail(c) ==
    call[c] = "open" /\ runs[c] = 0 /\ Become(c, "failed") /\ UNCHANGED <<runs, answer>>

GiveUp(c) == call[c] = "open" /\ Become(c, "cancelled") /\ UNCHANGED <<runs, answer>>

Next == \E c \in Calls : Open(c) \/ Run(c) \/ Answer(c) \/ Fail(c) \/ GiveUp(c)

Spec == Init /\ [][Next]_vars
=============================================================================

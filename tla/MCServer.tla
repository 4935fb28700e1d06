------------------------------ MODULE MCServer ------------------------------
(* An instance of FrontEnd and of MemoryWatermark. The two share no        *)
(* variable, so that each is explored with the other one at rest.          *)
EXTENDS FrontEnd, MemoryWatermark, TLC

CONSTANTS app, clone, faulty

\* app is deployed twice; clone with the first package of app, faulty with
\* one that does not start.
MCMetadata ==
    app :> <<[version |-> "v1", package |-> "one"], [version |-> "v2", package |-> "two"]>>
    @@ clone :> <<[version |-> "v1", package |-> "one"]>>
    @@ faulty :> <<[version |-> "v3", package |-> "bad"]>>

\* "one" serves the directory /a/ alone, "two" everything below the root.
MCCalls ==
    [one |-> <<[kind |-> "use", path |-> <<"a", "">>, id |-> 1],
               [kind |-> "any", path |-> <<"a", "">>, id |-> 2]>>,
     two |-> <<[kind |-> "get", path |-> <<"*">>, id |-> 3],
               [kind |-> "use", path |-> <<"">>, id |-> 4]>>,
     bad |-> Broken]

MCInputs ==
    {[to |-> app, method |-> "GET", path |-> <<"b">>],
     [to |-> clone, method |-> "GET", path |-> <<"a", "">>],
     [to |-> faulty, method |-> "GET", path |-> <<"">>],
     [to |-> "health"], [to |-> "nobody"]}

VARIABLE part   \* which of the two takes its steps

ServerInit == part \in {"requests", "monitor"} /\ Init /\ MonitorInit

ServerNext ==
    /\ UNCHANGED part
    /\ \/ part = "requests" /\ Next /\ UNCHANGED monitorVars
       \/ part = "monitor" /\ MonitorNext /\ UNCHANGED vars

ServerSpec ==
    /\ ServerInit /\ [][ServerNext]_<<part, vars, monitorVars>>
    /\ Fairness
=============================================================================

------------------------------- MODULE Router -------------------------------
(***************************************************************************)
(* The router of an app (jsland/src/router.ts) and the entry function that *)
(* serves a request with it (jsland/src/index.ts).  The state is the calls *)
(* Router.get, Router.use, ... that the app has made, in order; lookup and *)
(* dispatch are operators on it.  A path is what split("/") leaves behind  *)
(* the leading slash: "/" is <<"">>, "/a/" is <<"a", "">>.                 *)
(***************************************************************************)
EXTENDS Naturals, Sequences, SequencesExt, FiniteSets

CONSTANTS
    Patterns,   \* paths the app registers callbacks for
    Asked,      \* paths clients ask for
    Methods,    \* methods they use
    MaxCalls    \* bound on the calls of an app

ASSUME PathsAssumption == Patterns \cup Asked \subseteq Seq(STRING) \ {<<>>}

VARIABLES
    calls,      \* the calls made so far: [kind, path, id]
    failed      \* a call has thrown: the app does not start

routerVars == <<calls, failed>>

Dir == ""     \* the last segment of a directory's path
Star == "*"

Verbs == {"get", "head", "post"}   \* stand for all seven verbs of a Route

NoHandler == 0

\* createChild throws on an empty segment before the last one.
Malformed(path) == \E i \in 1 .. Len(path) - 1 : path[i] = Dir

\* The nodes createChild has made: every prefix of every path.
Nodes(regs) ==
    {<<>>} \cup UNION {{SubSeq(regs[i].path, 1, n) : n \in 1 .. Len(regs[i].path)} :
                         i \in DOMAIN regs}

\* The middlewares of a node, in the order of `use`.
Middlewares(regs, node) ==
    LET used[i \in 0 .. Len(regs)] ==
            IF i = 0 THEN <<>>
            ELSE IF regs[i].kind = "use" /\ regs[i].path = node
                 THEN Append(used[i - 1], regs[i].id) ELSE used[i - 1]
    IN  used[Len(regs)]

\* The handler of a node for a verb: the last call counts; `any` leaves head out.
Target(regs, node, verb) ==
    LET target[i \in 0 .. Len(regs)] ==
            IF i = 0 THEN NoHandler
            ELSE IF /\ regs[i].path = node
                    /\ regs[i].kind = verb \/ (regs[i].kind = "any" /\ verb # "head")
                 THEN regs[i].id ELSE target[i - 1]
    IN  target[Len(regs)]

-----------------------------------------------------------------------------
(* Faulty variants.                                                        *)

\* A wildcard is preferred to a literal segment.
Child_StarFirst(regs, node, seg) ==
    IF Append(node, Star) \in Nodes(regs) THEN {Append(node, Star)}
    ELSE {Append(node, seg)} \cap Nodes(regs)

\* The middlewares run in the order in which they were met, outermost last.
Chain_NotReversed(regs, mw) ==
    LET wrapped[i \in 0 .. Len(mw)] ==
            IF i = 0 THEN <<>> ELSE wrapped[i - 1] \o Middlewares(regs, mw[i])
    IN  wrapped[Len(mw)]

-----------------------------------------------------------------------------
(* lookupChild                                                             *)

\* The child a segment leads to, if any: the literal one, or the wildcard.
Child(regs, node, seg) ==
    IF Append(node, seg) \in Nodes(regs) THEN {Append(node, seg)}
    ELSE {Append(node, Star)} \cap Nodes(regs)

\* mw.push, if the node is there and has any.
Push(regs, mw, node) == IF Middlewares(regs, node) = <<>> THEN mw ELSE Append(mw, node)

\* Segment i of the loop: to the child, else to the handler of the directory,
\* else nowhere; an empty segment before the last one throws once it is reached.
\* `mw` are the nodes whose middlewares were pushed.
Step(regs, path, w, i) ==
    LET dir == Append(w.node, Dir)
        mw == Push(regs, w.mw, dir)
        child == Child(regs, w.node, path[i])
    IN  CASE w.at # "path" -> w
          [] w.at = "path" /\ path[i] = Dir /\ i < Len(path) -> [w EXCEPT !.at = "thrown"]
          [] OTHER ->
               IF child # {}
               THEN LET next == CHOOSE c \in child : TRUE
                    IN  [node |-> next, mw |-> Push(regs, mw, next), at |-> "path"]
               ELSE IF dir \in Nodes(regs)
               THEN [node |-> dir, mw |-> mw, at |-> "directory"]
               ELSE [w EXCEPT !.at = "nowhere"]

Walk(regs, path) ==
    LET walk[i \in 0 .. Len(path)] ==
            IF i = 0 THEN [node |-> <<>>, mw |-> <<>>, at |-> "path"]
            ELSE Step(regs, path, walk[i - 1], i)
    IN  walk[Len(path)]

Lookup(regs, path) ==
    LET w == Walk(regs, path) IN [w EXCEPT !.mw = Reverse(@)]

-----------------------------------------------------------------------------
(* realAppEntry                                                            *)

\* methodMap; a method it does not have makes the entry function throw.
Handler(regs, node, method) ==
    CASE method = "GET" -> Target(regs, node, "get")
      [] method = "POST" -> Target(regs, node, "post")
      [] method = "HEAD" -> IF Target(regs, node, "head") # NoHandler
                            THEN Target(regs, node, "head")
                            ELSE Target(regs, node, "get")

\* The callbacks as they run, outermost first: each middleware wraps what was
\* wrapped before it.
Chain(regs, mw) ==
    LET wrapped[i \in 0 .. Len(mw)] ==
            IF i = 0 THEN <<>> ELSE Reverse(Middlewares(regs, mw[i])) \o wrapped[i - 1]
    IN  wrapped[Len(mw)]

\* What comes of a request: the callbacks that run, the page "notFound", or an
\* exception outside of the try block, after which nothing completes it.
AppEntry(regs, method, path) ==
    LET found == Lookup(regs, path)
        handler == Handler(regs, found.node, method)
    IN  CASE found.at = "thrown" -> [is |-> "thrown"]
          [] found.at = "nowhere" -> [is |-> "notFound"]
          [] found.at \in {"path", "directory"} ->
               IF method \notin {"GET", "POST", "HEAD"} THEN [is |-> "thrown"]
               ELSE IF handler = NoHandler THEN [is |-> "notFound"]
               ELSE [is |-> "handled", by |-> Append(Chain(regs, found.mw), handler)]

-----------------------------------------------------------------------------
(* Reference definitions                                                   *)

\* A node is a pattern; a path matches it segment by segment.
Matches(path, node) ==
    /\ Len(path) = Len(node)
    /\ \A i \in DOMAIN path : node[i] \in {path[i], Star}

\* Of two patterns the one with the first literal where they differ.
MoreSpecific(a, b) ==
    \E i \in DOMAIN a : a[i] # Star /\ b[i] = Star /\ \A j \in 1 .. i - 1 : a[j] = b[j]

\* The segments by which a registered pattern is passed over for this path: a
\* wildcard where the node has a literal child for the segment.
Shadowed(regs, path, node) ==
    \E i \in DOMAIN node :
        node[i] = Star /\ path[i] # Star /\ Append(SubSeq(node, 1, i - 1), path[i]) \in Nodes(regs)

\* How often the callbacks of a node run for a request served at `found`: once
\* as the directory of a node on the way, once as a node on the way. A request
\* for a directory itself meets its middlewares in both ways.
TimesMet(found, node) ==
    (IF Last(node) = Dir /\ IsStrictPrefix(Front(node), found.node) THEN 1 ELSE 0)
    + (IF IsPrefix(node, found.node) /\ (found.at = "path" \/ node # found.node) THEN 1 ELSE 0)

-----------------------------------------------------------------------------
(* The app's start: its index file makes calls until one of them throws.   *)

RouterTypeOK ==
    /\ \A i \in DOMAIN calls : calls[i].path \in Patterns /\ calls[i].id = i
    /\ failed \in BOOLEAN

RouterInit == calls = <<>> /\ failed = FALSE

Call(kind, path) ==
    /\ ~failed /\ Len(calls) < MaxCalls
    /\ IF Malformed(path)
       THEN failed' = TRUE /\ UNCHANGED calls
       ELSE /\ calls' = Append(calls, [kind |-> kind, path |-> path, id |-> Len(calls) + 1])
            /\ UNCHANGED failed

Verb(path) == \E kind \in Verbs \cup {"any"} : Call(kind, path)

Use(path) == Call("use", path)

RouterNext == \E path \in Patterns : Verb(path) \/ Use(path)

RouterSpec == RouterInit /\ [][RouterNext]_routerVars

-----------------------------------------------------------------------------
(* Properties                                                              *)

\* lookupChild against the patterns that match the path: it finds one if there
\* is one that no literal sibling shadows on the way (it does not backtrack);
\* the one found is the most specific; and it falls back to a directory only on
\* a path that reaches that directory.
MostSpecific ==
    \A path \in Asked :
    LET found == Lookup(calls, path)
        matching == {n \in Nodes(calls) : Matches(path, n)}
        parent == SubSeq(path, 1, Len(found.node) - 1)
    IN  /\ found.at = "path" =>
              /\ found.node \in matching
              /\ \A n \in matching : ~MoreSpecific(n, found.node)
        /\ found.at \in {"directory", "nowhere"} => \A n \in matching : Shadowed(calls, path, n)
        /\ found.at = "directory" =>
              Last(found.node) = Dir /\ Matches(parent, Front(found.node))

\* A request that is handled passes every middleware of the directories and
\* nodes on its way, as often as TimesMet says, outer ones before inner ones,
\* and no other; the handler comes last.
MiddlewaresRun ==
    \A path \in Asked, method \in Methods :
    LET found == Lookup(calls, path)
        entry == AppEntry(calls, method, path)
        by == entry.by
        Of(id) == CHOOSE r \in ToSet(calls) : r.id = id
    IN  entry.is = "handled" =>
          /\ \A i \in {j \in DOMAIN calls : calls[j].kind = "use"} :
                Cardinality({n \in DOMAIN by : by[n] = i}) = TimesMet(found, calls[i].path)
          /\ \A m, n \in 1 .. Len(by) - 1 :
                m < n => Len(Of(by[m]).path) <= Len(Of(by[n]).path)
          /\ Last(by) = Handler(calls, found.node, method)
=============================================================================

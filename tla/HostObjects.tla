---------------------------- MODULE HostObjects ----------------------------
(***************************************************************************)
(* Native objects that JS holds (registry.rs, api/host_object.rs, api/text *)
(* /dom, api/validation/jtd.rs; host_object.ts, dom/index.ts, jtd.ts).     *)
(*                                                                         *)
(* A native object is kept in the registry of the isolate, under a symbol. *)
(* JS holds a wrapper with the symbol; destroy(), or the finalizer of the  *)
(* wrapper, takes the object out.  Objects are validation schemas and      *)
(* handles of DOM nodes.  Documents are reference counted: a node owns its *)
(* children and knows its parent weakly, a handle owns its node and the    *)
(* root.  A query walks below a node and calls back into JS for each       *)
(* match, and the callback may do whatever JS may, also to that document.  *)
(*                                                                         *)
(* One thread runs it all.  The isolate, and with it the registry,         *)
(* outlives its contexts: a context in which JS was terminated is replaced *)
(* and the registry cleared, while executors of requests go on in the old  *)
(* one.                                                                    *)
(***************************************************************************)
EXTENDS Naturals, Sequences, Functions

CONSTANTS
    Size,         \* nodes of a document, numbered in document order
    Shapes,       \* the documents that are parsed: node -> its children
    Contents,     \* what the nodes of a parsed document are
    Updates,      \* what JS passes to update()
    Filters,      \* FilterExprs, with their parts
    Queries,      \* those that JS asks for
    Symbols,      \* bounds the native symbols that are known at one time
    MaxContexts,  \* bound on the contexts of the isolate
    MaxNesting,   \* bound on queries within callbacks of queries
    Nobody

Nodes == 1..Size
Root == 1

\* JsNodeData
Data == [type : {"element", "text", "other"}, name : STRING, classes : SUBSET STRING]

\* The nodes of S and those below them
Reach(S, children) ==
    LET closed == {T \in SUBSET Nodes : S \subseteq T /\ \A m \in T : children[m] \subseteq T}
    IN  {n \in Nodes : \A T \in closed : n \in T}

\* Documents as html5ever and xml5ever build them: trees in document order
IsDocument(children) ==
    /\ children \in [Nodes -> SUBSET Nodes]
    /\ \A n \in Nodes : \A m \in children[n] :
          /\ m > n
          /\ \A o \in Nodes \ {n} : m \notin children[o]
          /\ \A o \in children[n] : o < m => \A x \in Reach({o}, children) : x < m

ASSUME DocumentsAssumption ==
    /\ Size \in Nat \ {0}
    /\ Contents \in [Nodes -> Data] /\ Updates \subseteq Data
    /\ \A s \in Shapes : IsDocument(s)

ASSUME FiltersAssumption == Queries \subseteq Filters
ASSUME BoundsAssumption == MaxContexts \in Nat /\ MaxNesting \in Nat
ASSUME NobodyAssumption == Nobody \notin Nodes

VARIABLES
    shape,     \* the document that was parsed
    tree,      \* Node.children
    parent,    \* Node.parent, without regard to whether that is alive
    content,   \* Node.data
    registry,  \* SymbolRegistry.symbols
    wrapper,   \* the HostObject around each symbol, "none" if JS has none of use
    home,      \* the context it is in
    ctx,       \* BlueboatCtx.v8_ctx: contexts are numbered
    open,      \* contexts that are current or have an executor
    js,        \* the context JS runs in, whether it is being built; 0 for none
    walks      \* the queries on the stack, the innermost last

document == <<shape, tree, parent, content>>
handles == <<registry, wrapper, home>>
contexts == <<ctx, open, js>>
objectVars == <<document, handles, contexts, walks>>

-----------------------------------------------------------------------------
(* Ownership.                                                              *)

\* `struct Dom' holds both
EntryHolds(e) == IF e.type = "dom" THEN {e.root, e.node} ELSE {}

\* walk(): the Dom of the query, and a copy of the children at each level
WalkHolds(w) == {w.root, w.start} \cup (UNION {w.levels[i].copy : i \in DOMAIN w.levels})

Held(reg, ws) ==
    (UNION {EntryHolds(reg[s]) : s \in DOMAIN reg})
        \cup (UNION {WalkHolds(ws[i]) : i \in DOMAIN ws})

\* Drop of rcdom's Node: it takes the children away from every node below it,
\* so that a node that is held itself loses its own when one above it goes.
Release(children, held) ==
    LET torn == Reach(Nodes \ Reach(held, children), children)
    IN  [n \in Nodes |-> IF n \in torn THEN {} ELSE children[n]]

-----------------------------------------------------------------------------
(* The registry.                                                           *)

\* cast_and_get: the rest of the call goes on only if the symbol is registered
\* for an object of that type. JS uses the wrappers of its own context.
Get(s, type) ==
    /\ wrapper[s] \in {"held", "stale"} /\ home[s] = js.ctx
    /\ s \in DOMAIN registry /\ registry[s].type = type

\* remove: of a symbol that is not there, it does nothing
Without(S) == Restrict(registry, DOMAIN registry \ S)

\* put_new, and the wrapper that JS makes of the symbol it is given
PutNew(entry) ==
    \E s \in Symbols :
        /\ wrapper[s] = "none"
        /\ registry' = [t \in DOMAIN registry \cup {s} |-> IF t = s THEN entry ELSE registry[t]]
        /\ wrapper' = [wrapper EXCEPT ![s] = "held"]
        /\ home' = [home EXCEPT ![s] = js.ctx]

\* Wrappers that are of no more use
Drop(S) ==
    /\ wrapper' = [s \in Symbols |-> IF s \in S THEN "none" ELSE wrapper[s]]
    /\ home' = [s \in Symbols |-> IF s \in S THEN 0 ELSE home[s]]

\* faulty variant: a handle holds its node only
DomHandle_NodeOnly(root, node) == [type |-> "dom", root |-> node, node |-> node]

DomHandle(root, node) == [type |-> "dom", root |-> root, node |-> node]

Entries == [type : {"dom"}, root : Nodes, node : Nodes] \cup [type : {"schema"}]
Levels == [copy : SUBSET Nodes, left : SUBSET Nodes]
Walks == [root : Nodes, start : Nodes, filter : Filters, levels : Seq(Levels),
          phase : {"walking", "callback"}, calls : Seq(Nodes), refused : SUBSET Nodes,
          touched : SUBSET Nodes]

ObjectTypeOK ==
    /\ IsDocument(shape)
    /\ tree \in [Nodes -> SUBSET Nodes]
    /\ parent \in [Nodes -> Nodes \cup {Nobody}]
    /\ content \in [Nodes -> Data]
    /\ DOMAIN registry \subseteq Symbols /\ registry \in [DOMAIN registry -> Entries]
    /\ wrapper \in [Symbols -> {"none", "held", "stale", "gone"}]
    /\ home \in [Symbols -> Nat]
    /\ ctx \in Nat
    /\ open \subseteq Nat
    /\ js \in [ctx : Nat, building : BOOLEAN]
    /\ walks \in Seq(Walks)

ObjectInit ==
    /\ shape = [n \in Nodes |-> {}]
    /\ tree = shape
    /\ parent = [n \in Nodes |-> Nobody]
    /\ content = Contents
    /\ registry = [s \in {} |-> Nobody]
    /\ wrapper = [s \in Symbols |-> "none"]
    /\ home = [s \in Symbols |-> 0]
    /\ ctx = 0
    /\ open = {1}
    /\ js = [ctx |-> 1, building |-> TRUE]
    /\ walks = <<>>

-----------------------------------------------------------------------------
(* Calls of JS: at the top level of what enter() runs, or in the callback  *)
(* of the innermost query.  A call that Get refuses, and those that the    *)
(* code refuses below, throw and change nothing.                           *)

Inner == walks[Len(walks)]

JsRuns == js.ctx # 0 /\ (walks # <<>> => Inner.phase = "callback")

\* The references that a step lets go of are dropped with it
ReleaseNodes(children) == tree' = Release(children, Held(registry', walks'))

\* text_dom_html_parse, text_dom_xml_parse. There is one document at a time: its
\* nodes are numbers, used again when nobody holds one of them.
Parse ==
    /\ JsRuns /\ Held(registry, walks) = {}
    /\ shape' \in Shapes
    /\ tree' = shape'
    /\ parent' = [n \in Nodes |-> IF \E m \in Nodes : n \in shape'[m]
                                  THEN CHOOSE m \in Nodes : n \in shape'[m] ELSE Nobody]
    /\ content' = Contents
    /\ PutNew(DomHandle(Root, Root))
    /\ UNCHANGED <<contexts, walks>>

\* jtd_load_schema, which puts nothing if the schema is malformed
LoadSchema ==
    /\ JsRuns
    /\ PutNew([type |-> "schema"])
    /\ UNCHANGED <<document, contexts, walks>>

\* text_dom_html_serialize, text_dom_xml_serialize: the nodes that are written
Serialized(s) == Reach({registry[s].node}, tree)

\* text_dom_update: attributes are replaced; a node keeps its kind and its name.
\* The text of a text node is left out.
Update(s, value) ==
    /\ JsRuns /\ Get(s, "dom")
    /\ LET n == registry[s].node
       IN  /\ content[n].type = "element"
           /\ value.type = content[n].type /\ value.name = content[n].name
           /\ content' = [content EXCEPT ![n] = value]
           /\ walks' = [i \in DOMAIN walks |->
                           [walks[i] EXCEPT !.touched = walks[i].touched \cup {n}]]
    /\ UNCHANGED <<shape, tree, parent, handles, contexts>>

\* text_dom_remove. The weak reference to the parent is taken first; it leads
\* nowhere if the parent is gone, or has lost its children.
Remove(s) ==
    /\ JsRuns /\ Get(s, "dom")
    /\ LET n == registry[s].node
           p == parent[n]
       IN  /\ parent' = [parent EXCEPT ![n] = Nobody]
           /\ tree' = IF p = Nobody THEN tree ELSE [tree EXCEPT ![p] = tree[p] \ {n}]
    /\ UNCHANGED <<shape, content, handles, contexts, walks>>

\* text_dom_query_with_filter
Query(s, filter) ==
    /\ JsRuns /\ Get(s, "dom")
    /\ Len(walks) < MaxNesting
    /\ LET e == registry[s]
       IN  walks' = Append(walks, [root |-> e.root, start |-> e.node, filter |-> filter,
                                   levels |-> <<[copy |-> {e.node}, left |-> {e.node}]>>,
                                   phase |-> "walking", calls |-> <<>>, refused |-> {},
                                   touched |-> {}])
    /\ UNCHANGED <<document, handles, contexts>>

\* HostObject.destroy(), host_object_remove. What JS calls on the wrapper later
\* throws; so it does in a wrapper from before the registry was cleared.
Destroy(s) ==
    /\ JsRuns /\ wrapper[s] \in {"held", "stale"} /\ home[s] = js.ctx
    /\ registry' = Without({s})
    /\ Drop({s})
    /\ walks' = walks
    /\ ReleaseNodes(tree)
    /\ UNCHANGED <<shape, parent, content, contexts>>

-----------------------------------------------------------------------------
(* The walk of a query.                                                    *)

\* FilterExpr::eval
Eval(filter, data) ==
    LET holds[f \in Filters] ==
            CASE f.op = "and"      -> holds[f.left] /\ holds[f.right]
              [] f.op = "or"       -> holds[f.left] \/ holds[f.right]
              [] f.op = "tag"      -> data.type = "element" /\ data.name = f.tag
              [] f.op = "hasClass" -> data.type = "element" /\ f.className \in data.classes
              [] f.op = "text"     -> data.type = "text"
              [] OTHER             -> f.op = "true"
    IN  holds[filter]

Least(S) == CHOOSE n \in S : \A m \in S : n <= m

\* faulty variant: the loop is over the children themselves, by index
Following_Live(level) ==
    LET n == Least(level.left)
        rest == level.left \ {n}
    IN  IF parent[n] = Nobody /\ rest # {} THEN rest \ {Least(rest)} ELSE rest

\* What a loop over the copied children has left when it is done with one
Following(level) == level.left \ {Least(level.left)}

\* The innermost level, and the node it is at
Level(w) == w.levels[Len(w.levels)]
At(w) == Least(Level(w).left)

Walking == walks # <<>> /\ Inner.phase = "walking"
AtNode == Walking /\ Inner.levels # <<>> /\ Level(Inner).left # {}

SetInner(w) == walks' = [walks EXCEPT ![Len(walks)] = w]

\* walk() calls itself for a copy of the children
Descend(w) ==
    [w EXCEPT !.levels = Append(w.levels, [copy |-> tree[At(w)], left |-> tree[At(w)]]),
              !.phase = "walking"]

\* ... and goes on with the next sibling
Advance(levels) ==
    IF levels = <<>> THEN <<>>
    ELSE [levels EXCEPT ![Len(levels)].left = Following(levels[Len(levels)])]

\* A node that does not match
Pass ==
    /\ AtNode
    /\ ~Eval(Inner.filter, content[At(Inner)])
    /\ SetInner(Descend(Inner))
    /\ UNCHANGED <<document, handles, contexts>>

\* A node that matches: JS is called with a handle of it
Call ==
    /\ AtNode
    /\ Eval(Inner.filter, content[At(Inner)])
    /\ PutNew(DomHandle(Inner.root, At(Inner)))
    /\ SetInner([Inner EXCEPT !.phase = "callback", !.calls = Append(Inner.calls, At(Inner))])
    /\ UNCHANGED <<document, contexts>>

\* "Should we recurse?"
CallbackReturns(recursive) ==
    /\ JsRuns /\ walks # <<>>
    /\ SetInner(IF recursive THEN Descend(Inner)
                ELSE [Inner EXCEPT !.levels = Advance(Inner.levels), !.phase = "walking",
                                   !.refused = Inner.refused \cup {At(Inner)}])
    /\ UNCHANGED <<document, handles, contexts>>

\* The end of a level: its copy is dropped, and the level above goes on
EndLevel ==
    /\ Walking /\ Inner.levels # <<>>
    /\ Level(Inner).left = {}
    /\ SetInner([Inner EXCEPT !.levels =
                     Advance(SubSeq(Inner.levels, 1, Len(Inner.levels) - 1))])
    /\ registry' = registry
    /\ ReleaseNodes(tree)
    /\ UNCHANGED <<shape, parent, content, wrapper, home, contexts>>

\* The query ends: of its own, or since its callback throws, which JS around it
\* may catch
QueryEnds ==
    /\ walks # <<>>
    /\ Inner.phase = "walking" => Inner.levels = <<>>
    /\ walks' = SubSeq(walks, 1, Len(walks) - 1)
    /\ registry' = registry
    /\ ReleaseNodes(tree)
    /\ UNCHANGED <<shape, parent, content, wrapper, home, contexts>>

-----------------------------------------------------------------------------
(* enter() and the contexts.                                               *)

Enter(c) ==
    /\ js.ctx = 0 /\ c \in open
    /\ js' = [ctx |-> c, building |-> FALSE]
    /\ UNCHANGED <<document, handles, ctx, open, walks>>

\* JS returns or throws; the message loop is pumped and runs the finalizers of
\* the wrappers that JS let go of and that V8 has collected.
Leave ==
    /\ JsRuns /\ walks = <<>> /\ ~js.building
    /\ js' = [js EXCEPT !.ctx = 0]
    /\ \E collected \in SUBSET {s \in Symbols : wrapper[s] \in {"held", "stale"}} :
          /\ registry' = Without(collected)
          /\ Drop(collected)
    /\ walks' = walks
    /\ ReleaseNodes(tree)
    /\ UNCHANGED <<shape, parent, content, ctx, open>>

\* Terminated JS: reset_v8_context clears the registry, then builds a context,
\* which runs the top level of the app's modules.
Terminate ==
    /\ JsRuns /\ ~js.building
    /\ ctx < MaxContexts
    /\ registry' = Without(Symbols)
    /\ wrapper' = [s \in Symbols |-> CASE wrapper[s] = "held" -> "stale"
                                       [] wrapper[s] = "gone" -> "none"
                                       [] OTHER               -> wrapper[s]]
    /\ walks' = <<>>
    /\ ReleaseNodes(tree)
    /\ js' = [ctx |-> ctx + 1, building |-> TRUE]
    /\ open' = open \cup {ctx + 1}
    /\ UNCHANGED <<shape, parent, content, home, ctx>>

\* faulty variant: the registry is cleared when the new context takes over
Built_ThenClear ==
    /\ JsRuns /\ walks = <<>> /\ js.building
    /\ ctx' = js.ctx
    /\ js' = [ctx |-> 0, building |-> FALSE]
    /\ registry' = Without(Symbols)
    /\ walks' = walks
    /\ ReleaseNodes(tree)
    /\ UNCHANGED <<shape, parent, content, wrapper, home, open>>

\* The new context becomes BlueboatCtx.v8_ctx
Built ==
    /\ JsRuns /\ walks = <<>> /\ js.building
    /\ ctx' = js.ctx
    /\ js' = [ctx |-> 0, building |-> FALSE]
    /\ UNCHANGED <<document, handles, open, walks>>

\* The last executor of an old context is gone, and the context is collected
\* with its wrappers and their FinalizationRegistry: no finalizer runs.
Close(c) ==
    /\ js.ctx = 0 /\ c \in open \ {ctx}
    /\ open' = open \ {c}
    /\ LET there == {s \in Symbols : home[s] = c}
       IN  /\ wrapper' = [s \in Symbols |->
                            IF s \notin there THEN wrapper[s]
                            ELSE IF s \in DOMAIN registry THEN "gone" ELSE "none"]
           /\ home' = [s \in Symbols |-> IF s \in there THEN 0 ELSE home[s]]
    /\ UNCHANGED <<document, registry, ctx, js, walks>>

ObjectNext ==
    \/ Parse \/ LoadSchema
    \/ \E s \in Symbols :
          \/ \E value \in Updates : Update(s, value)
          \/ \E filter \in Queries : Query(s, filter)
          \/ Remove(s) \/ Destroy(s)
    \/ Pass \/ Call \/ EndLevel \/ QueryEnds
    \/ \E recursive \in BOOLEAN : CallbackReturns(recursive)
    \/ Leave \/ Terminate \/ Built
    \/ \E c \in 1..MaxContexts : Enter(c) \/ Close(c)

ObjectSpec == ObjectInit /\ [][ObjectNext]_objectVars

-----------------------------------------------------------------------------
(* Properties.                                                             *)

\* An object that JS still has, and has not destroyed, is in the registry,
\* unless a context was replaced since it was made: not if the modules of the
\* new context made it. What is in the registry without a wrapper that could
\* take it out is what was left behind by a context that is gone.
RegistryFollowsWrappers ==
    /\ \A s \in Symbols : wrapper[s] = "held" => s \in DOMAIN registry
    /\ \A s \in DOMAIN registry : wrapper[s] \in {"held", "gone"}
    /\ \A s \in Symbols : wrapper[s] \in {"held", "stale"} => home[s] \in open

\* A node without those that were removed
Intended == [n \in Nodes |-> {m \in shape[n] : parent[m] # Nobody}]

\* Whichever handle of a document JS keeps, the document stays whole: from the
\* root down, each node has all its children but the removed ones, and that is
\* what is serialized. (Below a removed node that is let go of, nodes that JS
\* has handles of lose their children.)
DocumentsAreWhole ==
    \A s \in DOMAIN registry : registry[s].type = "dom" =>
        LET whole == Reach({registry[s].root}, Intended)
        IN  /\ \A n \in whole : tree[n] = Intended[n]
            /\ registry[s].node \in whole =>
                  Serialized(s) = Reach({registry[s].node}, Intended)

\* A query calls back in document order, not below a node it was told not to
\* recurse into, and for all other matches that are below its node at its end,
\* whatever was removed in its callbacks.
QueryFindsAll ==
    LET w == Inner
        Below(n) == Reach({n}, shape) \ {n}
    IN  Walking /\ w.levels = <<>> =>
            /\ \A i, j \in DOMAIN w.calls : i < j =>
                  /\ w.calls[i] < w.calls[j]
                  /\ w.calls[i] \in w.refused => w.calls[j] \notin Below(w.calls[i])
            /\ \A n \in Reach({w.start}, tree) \ w.touched :
                  Eval(w.filter, content[n]) =>
                      n \in Range(w.calls) \/ \E m \in w.refused : n \in Below(m)
=============================================================================

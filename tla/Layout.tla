------------------------------- MODULE Layout -------------------------------
(***************************************************************************)
(* The layout solver: layout_box.ts, layout_solver.ts and layout_util.ts   *)
(* of src/jsland/src/graphics, by which an application puts a request      *)
(* together, and src/src/api/graphics/layout/mod.rs, which translates it   *)
(* for z3, has it solved under the watch of SolveGuard, and answers.       *)
(*                                                                         *)
(* One dimension is modelled, with the names of the horizontal one: left,  *)
(* right and their axes.  The vertical one is the same code under other    *)
(* names, and z is only sorted by.  z3 is external: it may return any      *)
(* assignment that satisfies what was asserted with the greatest weight.   *)
(* So is the crate that makes fractions of numbers: of a fraction the code *)
(* takes numerator and denominator, where its sign is not.                 *)
(*                                                                         *)
(* Reals are nested no deeper than boxes nest them: a side of a box, the   *)
(* sides of several boxes reduced to one, the middle between two sides.    *)
(***************************************************************************)
EXTENDS SolveGuard, Integers, Sequences, Functions, FiniteSetsExt

CONSTANTS
    MaxBoxes,       \* bound: boxes an application makes
    MaxObjs,        \* bound: boxes and Combined boxes together
    MaxConstraints, \* bound: alignments and pins it asks for
    Coords,         \* bound: the coordinates z3 has to choose from
    NotReal,        \* a number that no fraction stands for: NaN, an infinity
    Pins,           \* the <<side, coordinate>> it pins boxes to
    Weights         \* the weights it gives; 0 makes a constraint hard

ASSUME CoordAssumption == Coords \subseteq Int

ASSUME PinsAssumption == Pins \subseteq {"left", "right"} \X (Int \cup {NotReal})

VARIABLES
    objs,        \* the boxes and combined boxes, in the order of creation
    boxes,       \* request.boxes: how many
    metrics,     \* request.metrics
    constraints, \* request.constraints
    intent,      \* ghost: what the application meant by each of them
    result       \* solve(): what JS is given

requestVars == <<objs, boxes, metrics, constraints, intent>>
layoutVars == <<guardVars, requestVars, result>>

Axes == {"left", "middle", "right"}
Geometry == [1..boxes -> [left : Coords, right : Coords]]

-----------------------------------------------------------------------------
(* Expressions, in JS: Native.Real and Native.Prop.                        *)

BoxProperty(i, side) == [type |-> "boxProperty", id_index |-> i, property |-> side]
Const(v) == [type |-> "const", value |-> v]
MetricRef(k) == [type |-> "metricRef", index |-> k]
RealAvg(a, b) == [type |-> "avg", left |-> a, right |-> b]
RealCmp(op, a, b) == [type |-> op, left |-> a, right |-> b]
PropLogic(op, a, b) == [type |-> op, left |-> a, right |-> b]

\* Box.horizontalAxis
Axis(o, axis) ==
    IF axis = "middle" THEN RealAvg(objs[o].left, objs[o].right) ELSE objs[o][axis]

\* faulty variant: a combined box ends where the first of its children to end does
Extent_Narrow(children, side, cmp) ==
    [type |-> "reduce", cmp |-> "lt", of |-> [i \in DOMAIN children |-> objs[children[i]][side]]]

\* Combined: the children's sides, to be reduced with realMinMax
Extent(children, side, cmp) ==
    [type |-> "reduce", cmp |-> cmp, of |-> [i \in DOMAIN children |-> objs[children[i]][side]]]

-----------------------------------------------------------------------------
(* The application builds its request.                                     *)

\* Solver.box
NewBox ==
    /\ boxes < MaxBoxes /\ Len(objs) < MaxObjs
    /\ LET i == boxes + 1
       IN  /\ objs' = Append(objs, [children |-> <<>>, index |-> i,
                 left |-> BoxProperty(i, "left"), right |-> BoxProperty(i, "right")])
           /\ constraints' = Append(constraints, [weight |-> 0,
                 prop |-> RealCmp("ge", BoxProperty(i, "right"), BoxProperty(i, "left"))])
           /\ intent' = Append(intent, [kind |-> "ordered", of |-> Len(objs) + 1])
           /\ boxes' = i
    /\ UNCHANGED metrics

\* new Combined(solver, children), whose sides become metrics by putMetric
Combine(children) ==
    /\ Len(objs) < MaxObjs
    /\ metrics' = metrics \o <<Extent(children, "left", "lt"), Extent(children, "right", "gt")>>
    /\ objs' = Append(objs, [children |-> children, index |-> 0,
          left |-> MetricRef(Len(metrics) + 1), right |-> MetricRef(Len(metrics) + 2)])
    /\ UNCHANGED <<boxes, constraints, intent>>

AskedFor == Cardinality({i \in DOMAIN intent : intent[i].kind # "ordered"})

\* Combined.verticallyAlign: one constraint for every two neighbours
VerticallyAlign(o, axis, weight) ==
    LET pairs == [i \in 1..(Len(objs[o].children) - 1) |->
                     <<objs[o].children[i], objs[o].children[i + 1]>>]
    IN  /\ Len(pairs) > 0 /\ AskedFor + Len(pairs) <= MaxConstraints
        /\ constraints' = constraints \o [i \in DOMAIN pairs |->
              [weight |-> weight, prop |-> RealCmp("eq", Axis(pairs[i][1], axis), Axis(pairs[i][2], axis))]]
        /\ intent' = intent \o [i \in DOMAIN pairs |->
              [kind |-> "aligned", of |-> pairs[i], axis |-> axis]]
        /\ UNCHANGED <<objs, boxes, metrics>>

\* pushConstraint of the application's own: a side of a box is at v
Pin(o, side, v, weight) ==
    /\ AskedFor < MaxConstraints
    /\ constraints' = Append(constraints,
          [weight |-> weight, prop |-> RealCmp("eq", objs[o][side], Const(v))])
    /\ intent' = Append(intent, [kind |-> "pinned", of |-> o, side |-> side, at |-> v])
    /\ UNCHANGED <<objs, boxes, metrics>>

\* ... or: two of its boxes do not overlap
KeepApart(a, b, weight) ==
    /\ AskedFor < MaxConstraints
    /\ constraints' = Append(constraints, [weight |-> weight, prop |->
          PropLogic("or", RealCmp("le", objs[a].right, objs[b].left),
                          RealCmp("le", objs[b].right, objs[a].left))])
    /\ intent' = Append(intent, [kind |-> "apart", of |-> <<a, b>>])
    /\ UNCHANGED <<objs, boxes, metrics>>

-----------------------------------------------------------------------------
(* api_graphics_layout_solve.                                              *)

\* build_z3_real fails on a metric it cannot find, and on a number without a
\* fraction.  The engine has no metrics while it builds them, so one that refers
\* to another is always refused; what constraints refer to was returned by
\* putMetric, and is found.
Refused ==
    \/ \E k \in DOMAIN metrics : \E i \in DOMAIN metrics[k].of : metrics[k].of[i].type = "metricRef"
    \/ \E c \in DOMAIN constraints : constraints[c].prop.right = Const(NotReal)

\* numer() over denom() of GenericFraction::from
Fraction(v) == IF v < 0 THEN -v ELSE v

\* build_z3_real and build_z3_prop, as what z3 takes their terms to mean in a
\* geometry: reals in half units
BasicValue(r, g) ==
    IF r.type = "const" THEN 2 * Fraction(r.value) ELSE 2 * g[r.id_index][r.property]

\* The select of realMinMax
RealMinMax(a, b, cmp) == IF (cmp = "lt" /\ a < b) \/ (cmp = "gt" /\ a > b) THEN a ELSE b

\* Array.reduce
Reduced(v, cmp) ==
    LET acc[i \in 1..Len(v)] == IF i = 1 THEN v[1] ELSE RealMinMax(acc[i - 1], v[i], cmp)
    IN  acc[Len(v)]

MetricValue(m, g) == Reduced([i \in DOMAIN m.of |-> BasicValue(m.of[i], g)], m.cmp)

SideValue(r, g) ==
    IF r.type = "metricRef" THEN MetricValue(metrics[r.index], g) ELSE BasicValue(r, g)

Value(r, g) ==
    IF r.type = "avg" THEN (SideValue(r.left, g) + SideValue(r.right, g)) \div 2 ELSE SideValue(r, g)

Compares(p, g) ==
    CASE p.type = "eq" -> Value(p.left, g) = Value(p.right, g)
      [] p.type = "le" -> Value(p.left, g) <= Value(p.right, g)
      [] p.type = "ge" -> Value(p.left, g) >= Value(p.right, g)

Holds(p, g) ==
    IF p.type = "or" THEN Compares(p.left, g) \/ Compares(p.right, g) ELSE Compares(p, g)

Sat(g) == [c \in DOMAIN constraints |-> Holds(constraints[c].prop, g)]

\* opt.assert for weight 0, opt.assert_soft for the others
Hard(c) == constraints[c].weight = 0

Feasible == {g \in Geometry : \A c \in DOMAIN constraints : Hard(c) => Holds(constraints[c].prop, g)}

\* The assignments z3 may answer with: what is hard holds, and no other one
\* satisfies more of the rest
Models ==
    LET soft == {c \in DOMAIN constraints : ~Hard(c)}
        weight == [g \in Feasible |-> MapThenSumSet(
                     LAMBDA c : IF Holds(constraints[c].prop, g) THEN constraints[c].weight ELSE 0, soft)]
    IN  {g \in DOMAIN weight : \A h \in DOMAIN weight : weight[h] <= weight[g]}

NoResult == [status |-> "none", boxes |-> <<>>, unsat |-> {}]

\* The problem is translated, metrics first, and the check set off
Solve == ~Refused /\ Spawn /\ UNCHANGED <<requestVars, result>>

SolveError ==
    /\ Refused /\ BuildError
    /\ result' = [NoResult EXCEPT !.status = "error"]
    /\ UNCHANGED requestVars

Z3Returns ==
    /\ CheckReturns
    /\ check_res' # "unknown" => (check_res' = "sat" <=> Feasible # {})
    /\ UNCHANGED <<requestVars, result>>

\* Solver.solve: the constraints whose entry of res.sat is false
Unsat(sat) == {constraints[c] : c \in {d \in DOMAIN sat : ~sat[d]}}

\* get_model and the evaluation of the constraints in it
Return ==
    /\ Answer
    /\ IF check_res = "sat"
       THEN \E g \in Models :
               result' = [status |-> "sat", boxes |-> g, unsat |-> Unsat(Sat(g))]
       ELSE result' = [NoResult EXCEPT !.status = check_res]
    /\ UNCHANGED requestVars

-----------------------------------------------------------------------------
LayoutInit ==
    /\ GuardInit
    /\ objs = <<>> /\ boxes = 0 /\ metrics = <<>> /\ constraints = <<>> /\ intent = <<>>
    /\ result = NoResult

Build ==
    \/ NewBox
    \/ \E n \in 1..Len(objs) : \E children \in {f \in [1..n -> DOMAIN objs] : IsInjective(f)} :
          Combine(children)
    \/ \E o \in DOMAIN objs, axis \in Axes, w \in Weights : VerticallyAlign(o, axis, w)
    \/ \E o \in DOMAIN objs, pin \in Pins, w \in Weights : Pin(o, pin[1], pin[2], w)
    \/ \E b \in DOMAIN objs, w \in Weights : \E a \in 1..(b - 1) : KeepApart(a, b, w)

\* bound: a request that will be refused is not built any further
App(next) == pc = "app" /\ ~Refused /\ next /\ UNCHANGED <<guardVars, result>>

Guarded(step) == step /\ UNCHANGED <<requestVars, result>>

\* A request cancelled while JS builds its layout is one cancelled before the check
LayoutNext ==
    \/ App(Build)
    \/ Solve \/ SolveError \/ Z3Returns \/ Return
    \/ Guarded(Check \/ Abort \/ RecvFence \/ Watcher \/ (pc # "app" /\ CancelRequest))

LayoutSpec == LayoutInit /\ [][LayoutNext]_layoutVars

\* The JS thread runs but for z3, which only has to return when interrupted;
\* the watcher's thread runs
LayoutFairness ==
    /\ WF_layoutVars(Guarded(Check \/ Abort \/ RecvFence))
    /\ WF_layoutVars(Return)
    /\ WF_layoutVars(interrupted /\ Z3Returns)
    /\ WF_layoutVars(Guarded(Watcher))

LayoutFairSpec == LayoutSpec /\ LayoutFairness

-----------------------------------------------------------------------------
(* Properties.                                                             *)

\* The boxes an object covers
Leaves ==
    LET leaves[o \in DOMAIN objs] ==
            IF objs[o].children = <<>> THEN {objs[o].index}
            ELSE UNION {leaves[c] : c \in Range(objs[o].children)}
    IN  leaves

\* Where an object is in a geometry, in half units
Place(o, axis, g) ==
    LET from == Min({g[i].left : i \in Leaves[o]})
        to == Max({g[i].right : i \in Leaves[o]})
    IN  CASE axis = "left" -> 2 * from
          [] axis = "right" -> 2 * to
          [] axis = "middle" -> from + to

Meant(c, g) ==
    LET m == intent[c]
    IN  CASE m.kind = "ordered" -> Place(m.of, "left", g) <= Place(m.of, "right", g)
          [] m.kind = "aligned" -> Place(m.of[1], m.axis, g) = Place(m.of[2], m.axis, g)
          [] m.kind = "apart" -> \/ Place(m.of[1], "right", g) <= Place(m.of[2], "left", g)
                                 \/ Place(m.of[2], "right", g) <= Place(m.of[1], "left", g)
          [] m.kind = "pinned" -> LET at == IF m.at >= 0 THEN m.at ELSE -m.at
                                 IN  Place(m.of, m.side, g) = 2 * at

\* The geometry that an application is given fulfils what it asked for as hard,
\* and misses exactly what it is told is not satisfied, where a combined box is
\* the hull of its boxes, and a coordinate the application gives is meant without
\* its sign: to pin a box at -5 is to pin it at 5.
AnswerIsWhatWasMeant ==
    result.status = "sat" =>
        \A c \in DOMAIN constraints :
            /\ constraints[c].weight = 0 => Meant(c, result.boxes)
            /\ constraints[c] \in result.unsat <=> ~Meant(c, result.boxes)

\* A cancelled solve ends although its thread never looks at the channel, and a
\* solve that z3 is done with ends whether it was cancelled or not: the fence
\* that keeps the context alive never blocks the thread.
SolveEnds ==
    ((pc = "check" /\ task = "waiting" /\ cancelled) \/ pc = "abort") ~> pc = "done"

=============================================================================

--------------------------- MODULE MCHostObjects ---------------------------
(* An instance of HostObjects.                                             *)
EXTENDS HostObjects, TLC

Element(name, classes) == [type |-> "element", name |-> name, classes |-> classes]

\* <b class="x"><a class="x"></a></b> and a text
MCShapes == {<<{2, 4}, {3}, {}, {}>>}
MCContents ==
    <<[type |-> "other", name |-> "", classes |-> {}], Element("b", {"x"}), Element("a", {"x"}),
      [type |-> "text", name |-> "", classes |-> {}]>>

Filter == [op |-> "or", left |-> [op |-> "hasClass", className |-> "x"], right |-> [op |-> "text"]]
MCFilters == {Filter, Filter.left, Filter.right}
MCQueries == {Filter}
MCUpdates == {Element("a", {})}

Symmetry == Permutations(Symbols)
=============================================================================

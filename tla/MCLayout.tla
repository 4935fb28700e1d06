------------------------------ MODULE MCLayout ------------------------------
(* TLC instance of Layout.                                                 *)
EXTENDS Layout

CONSTANT NaN

MCCoords == {-1, 1}

\* A pin at -1, which is solved as one at 1 although z3 could place a box at
\* -1, one that no box can meet, and one that is refused
MCPins == {<<"left", -1>>, <<"right", 0>>, <<"left", NaN>>}
=============================================================================

--------------------------- MODULE MCModuleGraph ---------------------------
(* TLC instances of ModuleGraph: every package of some of five files, two  *)
(* of which compete for the import "a", with up to two imports in the      *)
(* index file (one, if it is a large package) and one in the others, and a *)
(* few archives that are out of the ordinary.                              *)
EXTENDS ModuleGraph

CONSTANT MaxFiles   \* bound on the files besides the index file

MCIndex == << Js("index") >>

AJs     == << Js("a") >>
AIndex  == << Seg("a"), Js("index") >>
ABJs    == << Seg("a"), Js("b") >>
BJs     == << Js("b") >>

\* "a", "a.js", "a/index.js", "b.js", "../b.js" and "index.js"
Specifiers == { << Seg("a") >>, AJs, AIndex, BJs, << Up, Js("b") >>, MCIndex }

\* V8 lists a specifier once, however often a module names it
UpTo(n) ==
    {s \in UNION {[1..k -> Specifiers] : k \in 0..n} :
        \A i, j \in DOMAIN s : s[i] = s[j] => i = j}

\* The archives have a root directory, and list the index file twice
App(p) == << Seg("app") >> \o p

Order(files) == SelectSeq(<< ABJs, BJs, AJs, MCIndex, AIndex >>, LAMBDA p : p \in files)

Archive(imports) ==
    LET order == Order(DOMAIN imports)
    IN  [k \in 1..Len(order) |-> [path |-> App(order[k]), imports |-> imports[order[k]]]]
            \o << [path |-> App(MCIndex), imports |-> << BJs >>] >>

Imports(some) ==
    {[x \in {MCIndex} \cup some |-> IF x = MCIndex THEN i ELSE f[x]] :
        i \in UpTo(IF Cardinality(some) = 3 THEN 1 ELSE 2), f \in [some -> UpTo(1)]}

MCArchives ==
    { Archive(f) : f \in UNION { Imports(some) :
                        some \in {s \in SUBSET {AJs, AIndex, ABJs, BJs} : Cardinality(s) <= MaxFiles} } }
    \cup
    \* a file where a directory is needed, no index file, and two of them
    { << [path |-> AJs, imports |-> <<>>], [path |-> AJs \o BJs, imports |-> <<>>] >>,
      << [path |-> AJs, imports |-> <<>>], [path |-> BJs, imports |-> <<>>] >>,
      << [path |-> MCIndex, imports |-> << BJs >>],
         [path |-> << <<"index", ".mjs">> >>, imports |-> << MCIndex >>],
         [path |-> BJs, imports |-> <<>>] >> }
=============================================================================

---------------------------- MODULE ModuleGraph ----------------------------
(***************************************************************************)
(* Loading an app's ES modules (package.rs: load_module_with_dependencies  *)
(* and module_resolve_callback).  The archive is unpacked into a tree of   *)
(* files; a worklist of imports is resolved to files of it; the files are  *)
(* compiled and kept in a map, under their own path and under aliases ("a" *)
(* for "a.js").  Then V8 links the modules and asks, for each import       *)
(* again, for a module of that map.                                        *)
(*                                                                         *)
(* A path is a sequence of segments, and a segment a base name with an     *)
(* extension or none; "." and empty segments, which split_path drops, are  *)
(* left out.  Base names have no dots, so that no path has two extensions. *)
(***************************************************************************)
EXTENDS Naturals, Sequences, FiniteSets

CONSTANT
    Archives    \* the regular files of archives, in order: [path, imports]

ASSUME ArchivesAssumption ==
    \A a \in Archives : \A k \in 1..Len(a) :
        a[k].path \in Seq(STRING \X STRING) /\ a[k].imports \in Seq(Seq(STRING \X STRING))

Seg(base) == <<base, "">>
Js(base) == <<base, ".js">>
Up == Seg("..")
NoFile == <<>>

VARIABLES
    package,    \* the files of the package and their imports
    queue,      \* q: pairs of the importing file and the specifier
    modules,    \* m: [key |-> path, file |-> the module]
    loaded,     \* the modules compiled, by script id
    referrer,   \* REFERRER_PATHS: one key for each module
    links,      \* the imports V8 has resolved
    phase          \* where the loader is, or how it ended

vars == <<package, queue, modules, loaded, referrer, links, phase>>

Files == package.files

-----------------------------------------------------------------------------
(* Unpacking.                                                              *)

IsPrefix(p, q) == Len(p) <= Len(q) /\ SubSeq(q, 1, Len(p)) = p

\* VfsNode::insert leaves a path that is there, as a file or a directory, alone
Kept(a) ==
    {k \in 1..Len(a) : a[k].path # <<>> /\ \A j \in 1..(k - 1) : ~IsPrefix(a[k].path, a[j].path)}

\* ... and panics when it meets a file on its way: "inserting into leaf"
BadArchive(a) ==
    \E j \in Kept(a) : \E k \in (j + 1)..Len(a) :
        IsPrefix(a[j].path, a[k].path) /\ a[k].path # a[j].path

\* All files are below the same directory, n levels down
Below(paths, n) ==
    \A p \in paths : Len(p) > n /\ \A q \in paths : SubSeq(p, 1, n) = SubSeq(q, 1, n)

\* VfsNode::trim: while the root has one entry, a directory, that is the root
Depth(paths) ==
    IF paths = {} THEN 0
    ELSE CHOOSE n \in 0..Len(CHOOSE p \in paths : TRUE) : Below(paths, n) /\ ~Below(paths, n + 1)

\* Package::load
Unpack(a) ==
    LET n == Depth({a[k].path : k \in Kept(a)})
        PathOf(k) == SubSeq(a[k].path, n + 1, Len(a[k].path))
        files == {PathOf(k) : k \in Kept(a)}
    IN  [files |-> files,
         imports |-> [f \in files |-> a[CHOOSE k \in Kept(a) : PathOf(k) = f].imports]]

-----------------------------------------------------------------------------
(* Paths.                                                                  *)

Front(p) == SubSeq(p, 1, Len(p) - 1)

\* Vec::pop, which leaves an empty vector alone
PopSeg(p) == IF p = <<>> THEN p ELSE Front(p)

\* transform_rel_path: `target' seen from the directory of `current'
TransformRelPath(current, target) ==
    LET at[i \in 0..Len(target)] ==
            IF i = 0 THEN PopSeg(current)
            ELSE IF target[i] = Up THEN PopSeg(at[i - 1]) ELSE Append(at[i - 1], target[i])
    IN  at[Len(target)]

WithExt(p, ext) ==
    IF p # <<>> /\ p[Len(p)][2] = "" THEN Append(Front(p), <<p[Len(p)][1], ext>>) ELSE NoFile

\* what normalize_path tries, in this order
Candidates(p) ==
    << p, WithExt(p, ".mjs"), WithExt(p, ".js"),
       Append(p, <<"index", ".mjs">>), Append(p, <<"index", ".js">>) >>

\* normalize_path: the first candidate that resolve_abs finds, or a panic
NormalizePath(p) ==
    LET c == Candidates(p)
        found == {i \in 1..Len(c) : c[i] # NoFile /\ c[i] \in Files}
    IN  IF found = {} THEN NoFile
        ELSE c[CHOOSE i \in found : \A j \in found : i <= j]

\* What the empty path resolves to: the file the app starts from
Index == NormalizePath(<<>>)

Lookup(path) == {e \in modules : e.key = path}

-----------------------------------------------------------------------------
Init ==
    /\ \E a \in Archives :
          /\ package = Unpack(a)
          /\ phase = IF BadArchive(a) THEN "bad_archive" ELSE IF Index = NoFile THEN "unresolved" ELSE "load"
    /\ queue = << [from |-> <<Seg("?")>>, spec |-> Index] >>
    /\ modules = {}
    /\ loaded = <<>>
    /\ referrer = <<>>
    /\ links = {}

(* Faulty variants of the steps below, for the properties to reject.       *)

\* the lookup is by the path as it was imported
KnownModule_ByPath(path, file) == Lookup(path) # {}

\* the imports of a module are resolved from the root
Requests_FromRoot(file) ==
    [i \in 1..Len(package.imports[file]) |->
        [from |-> <<Seg("?")>>, spec |-> package.imports[file][i]]]

\* "We reached the same node" or "Aliases to the same normalized path"
KnownModule(path, file) == Lookup(file) # {}

\* module.get_module_requests, pushed in order
Requests(file) ==
    [i \in 1..Len(package.imports[file]) |->
        [from |-> file, spec |-> package.imports[file][i]]]

-----------------------------------------------------------------------------
(* The worklist.                                                           *)

Top == queue[Len(queue)]
TopPath == TransformRelPath(Top.from, Top.spec)
TopFile == NormalizePath(TopPath)

\* normalize_path panics: "cannot resolve dependency"
Unresolved ==
    /\ phase = "load" /\ queue # <<>> /\ TopFile = NoFile
    /\ phase' = "unresolved"
    /\ UNCHANGED <<package, queue, modules, loaded, referrer, links>>

\* The file is in the map: the path becomes another key of its module
AddAlias ==
    /\ phase = "load" /\ queue # <<>> /\ TopFile # NoFile /\ KnownModule(TopPath, TopFile)
    /\ queue' = Front(queue)
    /\ modules' = (modules \ Lookup(TopPath)) \cup {[key |-> TopPath, file |-> TopFile]}
    /\ UNCHANGED <<package, loaded, referrer, links, phase>>

\* It is not: compile it, enter it under its own path (`drop(path)') and push
\* its imports
LoadModule ==
    /\ phase = "load" /\ queue # <<>> /\ TopFile # NoFile /\ ~KnownModule(TopPath, TopFile)
    /\ modules' = modules \cup {[key |-> TopFile, file |-> TopFile]}
    /\ loaded' = Append(loaded, TopFile)
    /\ queue' = Front(queue) \o Requests(TopFile)
    /\ UNCHANGED <<package, referrer, links, phase>>

\* compile_module fails: load_single_module returns None
CompileError ==
    /\ phase = "load" /\ queue # <<>> /\ TopFile # NoFile /\ ~KnownModule(TopPath, TopFile)
    /\ phase' = "failed"
    /\ UNCHANGED <<package, queue, modules, loaded, referrer, links>>

-----------------------------------------------------------------------------
(* Linking.                                                                *)

\* REFERRER_PATHS is collected from the map's entries in the order of a HashMap:
\* of several keys of a module any may be left
BeginLink ==
    /\ phase = "load" /\ queue = <<>>
    /\ referrer' \in {f \in [{e.file : e \in modules} -> {e.key : e \in modules}] :
                        \A file \in DOMAIN f : [key |-> f[file], file |-> file] \in modules}
    /\ phase' = "link"
    /\ UNCHANGED <<package, queue, modules, loaded, links>>

\* V8 asks once for each import of each module it has come to
Asked == {Index} \cup {l.to : l \in links}
Open(file) ==
    IF file \in Asked
    THEN {i \in 1..Len(package.imports[file]) : ~\E l \in links : l.from = file /\ l.i = i}
    ELSE {}

\* module_resolve_callback looks the path up as it is, without normalising it
ResolveCallback(file, i) ==
    /\ phase = "link" /\ i \in Open(file)
    /\ LET path == TransformRelPath(referrer[file], package.imports[file][i])
       IN  IF Lookup(path) = {}
           THEN phase' = "not_linked" /\ UNCHANGED links
           ELSE /\ links' = links \cup {[from |-> file, i |-> i, to |-> e.file] : e \in Lookup(path)}
                /\ UNCHANGED phase
    /\ UNCHANGED <<package, queue, modules, loaded, referrer>>

\* instantiate_module returns
EndLink ==
    /\ phase = "link" /\ \A file \in Asked : Open(file) = {}
    /\ phase' = "linked"
    /\ UNCHANGED <<package, queue, modules, loaded, referrer, links>>

Next ==
    \/ Unresolved \/ AddAlias \/ LoadModule \/ CompileError
    \/ BeginLink \/ EndLink
    \/ \E file \in Files : \E i \in Open(file) : ResolveCallback(file, i)

Spec == Init /\ [][Next]_vars

-----------------------------------------------------------------------------
(* Properties.                                                             *)

\* The file that import i of a file means
Target(file, i) == NormalizePath(TransformRelPath(file, package.imports[file][i]))

\* The loader compiles every file that the app needs and no other, each once
\* however many imports, aliases and cycles lead to it.
LoadsWhatIsNeeded ==
    /\ \A j, k \in 1..Len(loaded) : loaded[j] = loaded[k] => j = k
    /\ \A k \in 2..Len(loaded) :
          \E j \in 1..(k - 1) : \E i \in 1..Len(package.imports[loaded[j]]) :
             Target(loaded[j], i) = loaded[k]
    /\ phase \in {"link", "linked", "not_linked"} =>
          \A j \in 1..Len(loaded) : \A i \in 1..Len(package.imports[loaded[j]]) :
             \E k \in 1..Len(loaded) : loaded[k] = Target(loaded[j], i)

\* Imports that name their file in full are linked to that file.
FullPathsLink ==
    (\A file \in Files : \A i \in 1..Len(package.imports[file]) :
        TransformRelPath(file, package.imports[file][i]) \in Files)
    => /\ phase # "not_linked"
       /\ \A l \in links : l.to = Target(l.from, l.i)

\* package.rs: "Two cases: [..] We reached the same node. [..] Aliases to the
\* same normalized path." - a path that was resolved while loading is a key of
\* the module, so that the callback's "cannot resolve module" panic never occurs.
AliasesAreLinked == phase # "not_linked"

=============================================================================

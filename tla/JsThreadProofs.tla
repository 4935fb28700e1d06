--------------------------- MODULE JsThreadProofs ---------------------------
(***************************************************************************)
(* Proofs about what the JS thread of a worker does on its own.  First, it *)
(* loads and links the modules of any package.  Then, it guards the z3     *)
(* context of a layout solve against the watcher's thread, whatever the    *)
(* interleaving, and answers with a geometry that is what the application  *)
(* asked for.  Last, it keeps native objects for JS: the registry and the  *)
(* wrappers, the documents behind handles, and the queries that call back  *)
(* into JS, for any documents and any calls of JS.                         *)
(***************************************************************************)
EXTENDS ModuleGraph, Layout, HostObjects, FiniteSetTheorems, WellFoundedInduction, TLAPS

Segment == STRING \X STRING
Path == Seq(Segment)

-----------------------------------------------------------------------------
(* Unpacking.                                                              *)

LEMMA AboveShrinks ==
    ASSUME NEW at \in SUBSET Nat, NEW i \in at, NEW j \in at, j > i
    PROVE  /\ {k \in at : k > j} \subseteq {k \in at : k > i}
           /\ j \in {k \in at : k > i} /\ j \notin {k \in at : k > j}
<1>1. ASSUME NEW k \in at, k > j PROVE k > i
  BY <1>1
<1>2. ~(j > j)
  OBVIOUS
<1> QED
  BY <1>1, <1>2

\* A set of numbers up to n has a greatest one.
LEMMA Greatest ==
    ASSUME NEW n \in Nat, NEW at \in SUBSET (0 .. n), at # {}
    PROVE  \E i \in at : \A j \in at : j <= i
<1> DEFINE above(i) == {j \in at : j > i}
           R == StrictSubsetOrdering(0 .. n)
           T == {above(i) : i \in at}
<1>1. IsFiniteSet(0 .. n)
  BY FS_Interval
<1>2. IsWellFoundedOn(R, SUBSET (0 .. n))
  BY <1>1, FS_StrictSubsetOrderingWellFounded, FS_FiniteSubsetsOfFinite
<1>3. T \subseteq SUBSET (0 .. n) /\ T # {}
  OBVIOUS
<1>4. PICK x \in T : \A y \in T : ~(<<y, x>> \in R)
  <2> HIDE DEF R, T
  <2> QED
    BY <1>2, <1>3, WFMin
<1>5. PICK i \in at : x = above(i)
  BY <1>4
<1>6. \A j \in at : j \in Nat
  OBVIOUS
<1>7. ASSUME NEW j \in at, j > i PROVE FALSE
  <2>1. above(j) \subseteq above(i) /\ j \in above(i) /\ j \notin above(j)
    BY <1>6, <1>7, AboveShrinks
  <2>2. above(j) \in SUBSET (0 .. n) /\ above(i) \in SUBSET (0 .. n)
    OBVIOUS
  <2>3. <<above(j), above(i)>> \in R
    BY <2>1, <2>2 DEF StrictSubsetOrdering
  <2> QED
    BY <1>4, <1>5, <2>3
<1> QED
  BY <1>6, <1>7

\* The directory that trim() makes the root has all files below it.
LEMMA DepthFacts ==
    ASSUME NEW paths \in SUBSET Path, <<>> \notin paths, paths # {}
    PROVE  /\ Depth(paths) \in Nat
           /\ \A p \in paths : Len(p) > Depth(paths)
<1> DEFINE some == CHOOSE p \in paths : TRUE
           levels == {n \in 0..Len(some) : Below(paths, n)}
<1>1. some \in paths /\ Len(some) \in Nat
  <2>1. some \in paths
    OBVIOUS
  <2>2. \A p \in paths : Len(p) \in Nat
    OBVIOUS
  <2> HIDE DEF some
  <2> QED
    BY <2>1, <2>2
<1>2. Depth(paths) = CHOOSE n \in 0..Len(some) : Below(paths, n) /\ ~Below(paths, n + 1)
  BY DEF Depth
<1> HIDE DEF some
<1>3. Below(paths, 0)
  <2>1. \A p \in paths : Len(p) > 0 /\ SubSeq(p, 1, 0) = <<>>
    OBVIOUS
  <2> QED
    BY <2>1 DEF Below
<1>4. PICK n \in levels : \A j \in levels : j <= n
  <2>1. levels \in SUBSET (0..Len(some)) /\ 0 \in levels
    BY <1>1, <1>3
  <2> HIDE DEF levels
  <2> QED
    BY <1>1, <2>1, Greatest
<1>5. ~Below(paths, n + 1)
  <2> SUFFICES ASSUME Below(paths, n + 1) PROVE FALSE
    OBVIOUS
  <2>1. Len(some) > n + 1
    BY <1>1 DEF Below
  <2>2. n + 1 \in levels
    BY <1>1, <2>1
  <2> QED
    BY <1>1, <1>4, <2>2
<1>6. Below(paths, Depth(paths)) /\ Depth(paths) \in 0..Len(some)
  <2>1. \E k \in 0..Len(some) : Below(paths, k) /\ ~Below(paths, k + 1)
    BY <1>4, <1>5
  <2> QED
    BY <1>2, <2>1
<1> QED
  BY <1>1, <1>6 DEF Below

\* What a package is
PackageOK ==
    /\ <<>> \notin Files
    /\ DOMAIN package.imports = Files
    /\ \A f \in Files : package.imports[f] \in Seq(Path)

LEMMA UnpackFacts ==
    ASSUME NEW a \in Archives
    PROVE  /\ <<>> \notin Unpack(a).files
           /\ DOMAIN Unpack(a).imports = Unpack(a).files
           /\ \A f \in Unpack(a).files : Unpack(a).imports[f] \in Seq(Path)
<1> DEFINE paths == {a[k].path : k \in Kept(a)}
           n == Depth(paths)
           PathOf(k) == SubSeq(a[k].path, n + 1, Len(a[k].path))
           files == {PathOf(k) : k \in Kept(a)}
           imports == [f \in files |-> a[CHOOSE k \in Kept(a) : PathOf(k) = f].imports]
<1>1. Unpack(a).files = files /\ Unpack(a).imports = imports
  BY DEF Unpack
<1>2. \A k \in Kept(a) : /\ a[k].path \in Path /\ a[k].path # <<>>
                         /\ a[k].imports \in Seq(Path)
  BY ArchivesAssumption DEF Kept, Path, Segment
<1>3. paths \in SUBSET Path /\ <<>> \notin paths
  BY <1>2
<1>4. ASSUME NEW k \in Kept(a) PROVE PathOf(k) # <<>>
  <2>1. n \in Nat /\ Len(a[k].path) > n
    <3>1. a[k].path \in paths
      OBVIOUS
    <3> HIDE DEF paths
    <3> QED
      BY <1>3, <3>1, DepthFacts
  <2>2. a[k].path \in Path /\ Len(a[k].path) \in Nat
    BY <1>2 DEF Path
  <2> HIDE DEF n
  <2>3. Len(PathOf(k)) = Len(a[k].path) - n
    BY <2>1, <2>2 DEF Path
  <2>4. Len(PathOf(k)) # 0
    BY <2>1, <2>2, <2>3
  <2>5. Len(<<>>) = 0
    OBVIOUS
  <2> HIDE DEF PathOf
  <2> QED
    BY <2>4, <2>5
<1> HIDE DEF n
<1>5. ASSUME NEW f \in files PROVE imports[f] \in Seq(Path)
  <2>1. \E k \in Kept(a) : PathOf(k) = f
    OBVIOUS
  <2>2. (CHOOSE k \in Kept(a) : PathOf(k) = f) \in Kept(a)
    BY <2>1
  <2>3. imports[f] = a[CHOOSE k \in Kept(a) : PathOf(k) = f].imports
    OBVIOUS
  <2> QED
    BY <1>2, <2>2, <2>3
<1> HIDE DEF PathOf
<1>6. <<>> \notin files
  BY <1>4
<1>7. DOMAIN imports = files
  OBVIOUS
<1> HIDE DEF files, imports
<1> QED
  BY <1>1, <1>5, <1>6, <1>7

-----------------------------------------------------------------------------
(* Paths.                                                                  *)

\* A specifier of one name is a file of the root directory.
LEMMA TransformName ==
    ASSUME NEW x, x # Up
    PROVE  TransformRelPath(<<Seg("?")>>, <<x>>) = <<x>>
<1> DEFINE Step(f) ==
        [i \in 0..1 |-> IF i = 0 THEN PopSeg(<<Seg("?")>>)
                        ELSE IF <<x>>[i] = Up THEN PopSeg(f[i - 1]) ELSE Append(f[i - 1], <<x>>[i])]
           g == [i \in 0..1 |-> IF i = 0 THEN <<>> ELSE <<x>>]
           at == CHOOSE f : f = Step(f)
<1>1. PopSeg(<<Seg("?")>>) = <<>>
  BY DEF PopSeg, Front
<1>2. g = Step(g)
  BY <1>1
<1>3. at = Step(at)
  BY <1>2
<1>4. TransformRelPath(<<Seg("?")>>, <<x>>) = at[1]
  BY DEF TransformRelPath
<1> HIDE DEF at
<1>5. \A i \in 0..1 :
         at[i] = IF i = 0 THEN <<>>
                 ELSE IF <<x>>[i] = Up THEN PopSeg(at[i - 1]) ELSE Append(at[i - 1], <<x>>[i])
  BY <1>1, <1>3
<1>6. at[0] = <<>>
  BY <1>5
<1>7. at[1] = Append(at[0], x)
  BY <1>5
<1>8. at[1] = <<x>>
  BY <1>6, <1>7
<1> QED
  BY <1>4, <1>8

\* normalize_path finds a file of the package or none, and a file if it is
\* given one.
LEMMA NormalizeFacts ==
    ASSUME NEW p, PackageOK
    PROVE  /\ NormalizePath(p) = NoFile \/ NormalizePath(p) \in Files
           /\ NormalizePath(p) = NoFile <=>
                 \A i \in 1..5 : Candidates(p)[i] = NoFile \/ Candidates(p)[i] \notin Files
           /\ NormalizePath(p) # NoFile => \E i \in 1..5 : NormalizePath(p) = Candidates(p)[i]
           /\ p \in Files => NormalizePath(p) = p
<1> DEFINE c == Candidates(p)
           found == {i \in 1..Len(c) : c[i] # NoFile /\ c[i] \in Files}
           first == CHOOSE i \in found : \A j \in found : i <= j
<1>1. Len(c) = 5 /\ c[1] = p
  BY DEF Candidates
<1>2. NormalizePath(p) = IF found = {} THEN NoFile ELSE c[first]
  BY DEF NormalizePath
<1> HIDE DEF c
<1>3. found = {i \in 1..5 : c[i] # NoFile /\ c[i] \in Files}
  BY <1>1
<1> HIDE DEF found
<1>4. found # {} => \E i \in found : \A j \in found : i <= j
  <2>1. found \subseteq 1..5
    BY <1>3
  <2>2. \A i \in found : i = 1 \/ i = 2 \/ i = 3 \/ i = 4 \/ i = 5
    BY <2>1
  <2>3. CASE 1 \in found
    BY <2>1, <2>3
  <2>4. CASE 1 \notin found /\ 2 \in found
    BY <2>2, <2>4
  <2>5. CASE 1 \notin found /\ 2 \notin found /\ 3 \in found
    BY <2>2, <2>5
  <2>6. CASE 1 \notin found /\ 2 \notin found /\ 3 \notin found /\ 4 \in found
    BY <2>2, <2>6
  <2>7. CASE 1 \notin found /\ 2 \notin found /\ 3 \notin found /\ 4 \notin found
    BY <2>2, <2>7
  <2> QED
    BY <2>3, <2>4, <2>5, <2>6, <2>7
<1>5. found # {} => first \in found /\ \A j \in found : first <= j
  BY <1>4
<1> HIDE DEF first
<1>6. found # {} => first \in 1..5 /\ c[first] # NoFile /\ c[first] \in Files
  BY <1>3, <1>5
<1>7. p \in Files => NormalizePath(p) = p
  <2> SUFFICES ASSUME p \in Files PROVE NormalizePath(p) = p
    OBVIOUS
  <2>1. 1 \in found
    BY <1>1, <1>3 DEF PackageOK, NoFile
  <2>2. first = 1
    BY <1>5, <1>6, <2>1
  <2> QED
    BY <1>1, <1>2, <2>1, <2>2
<1>8. NormalizePath(p) = NoFile <=> found = {}
  BY <1>2, <1>6
<1>9. found = {} <=> \A i \in 1..5 : c[i] = NoFile \/ c[i] \notin Files
  BY <1>3
<1> QED
  BY <1>2, <1>6, <1>7, <1>8, <1>9 DEF c

\* The app starts from a file of the root directory.
LEMMA IndexFacts ==
    ASSUME PackageOK, Index # NoFile
    PROVE  Index \in Files /\ TransformRelPath(<<Seg("?")>>, Index) = Index
<1>1. WithExt(<<>>, ".mjs") = NoFile /\ WithExt(<<>>, ".js") = NoFile
  BY DEF WithExt
<1>2. Candidates(<<>>) = << <<>>, NoFile, NoFile, << <<"index", ".mjs">> >>, << <<"index", ".js">> >> >>
  BY <1>1 DEF Candidates
<1>3. PICK i \in 1..5 : Index = Candidates(<<>>)[i]
  BY NormalizeFacts DEF Index
<1>4. Index \in {<< <<"index", ".mjs">> >>, << <<"index", ".js">> >>}
  BY <1>2, <1>3 DEF NoFile
<1>5. PICK x : x # Up /\ Index = <<x>>
  BY <1>4 DEF Up, Seg
<1> QED
  BY <1>5, TransformName, NormalizeFacts DEF Index

-----------------------------------------------------------------------------
(* Sequences, as sets.                                                     *)

Elements(q) == {q[m] : m \in 1..Len(q)}

LEMMA FrontElements ==
    ASSUME NEW S, NEW q \in Seq(S), q # <<>>
    PROVE  /\ Front(q) \in Seq(S)
           /\ Elements(q) = Elements(Front(q)) \cup {q[Len(q)]}
           /\ q[Len(q)] \in S
<1>1. Len(q) \in Nat \ {0}
  OBVIOUS
<1>2. /\ Front(q) \in Seq(S)
      /\ Len(Front(q)) = Len(q) - 1
      /\ \A i \in 1..(Len(q) - 1) : Front(q)[i] = q[i]
  <2> DEFINE n == Len(q) - 1
  <2>1. n \in Nat /\ n <= Len(q) /\ Front(q) = SubSeq(q, 1, n)
    BY <1>1 DEF Front
  <2> HIDE DEF n
  <2>2. \A i \in 1..n : i \in 1..Len(q) /\ q[i] \in S
    BY <1>1, <2>1
  <2>3. /\ SubSeq(q, 1, n) \in Seq(S)
        /\ Len(SubSeq(q, 1, n)) = n
        /\ \A i \in 1..n : SubSeq(q, 1, n)[i] = q[i]
    BY <2>1, <2>2
  <2> QED
    BY <2>1, <2>3 DEF n
<1>3. 1..Len(q) = 1..(Len(q) - 1) \cup {Len(q)}
  BY <1>1
<1>4. q[Len(q)] \in S
  BY <1>1
<1> QED
  BY <1>2, <1>3, <1>4 DEF Elements

LEMMA ConcatElements ==
    ASSUME NEW S, NEW p \in Seq(S), NEW q \in Seq(S)
    PROVE  p \o q \in Seq(S) /\ Elements(p \o q) = Elements(p) \cup Elements(q)
<1>1. /\ p \o q \in Seq(S)
      /\ Len(p) \in Nat /\ Len(q) \in Nat
      /\ Len(p \o q) = Len(p) + Len(q)
      /\ \A i \in 1..(Len(p) + Len(q)) :
            (p \o q)[i] = IF i <= Len(p) THEN p[i] ELSE q[i - Len(p)]
  OBVIOUS
<1>2. ASSUME NEW x \in Elements(p \o q) PROVE x \in Elements(p) \cup Elements(q)
  <2>1. PICK i \in 1..(Len(p) + Len(q)) : x = (p \o q)[i]
    BY <1>1 DEF Elements
  <2>2. CASE i <= Len(p)
    BY <1>1, <2>1, <2>2 DEF Elements
  <2>3. CASE i > Len(p)
    <3>1. i - Len(p) \in 1..Len(q) /\ x = q[i - Len(p)]
      BY <1>1, <2>1, <2>3
    <3> QED
      BY <3>1 DEF Elements
  <2> QED
    BY <1>1, <2>2, <2>3
<1>3. ASSUME NEW x \in Elements(p) PROVE x \in Elements(p \o q)
  <2>1. PICK i \in 1..Len(p) : x = p[i]
    BY DEF Elements
  <2>2. i \in 1..(Len(p) + Len(q)) /\ i <= Len(p)
    BY <1>1
  <2> QED
    BY <1>1, <2>1, <2>2 DEF Elements
<1>4. ASSUME NEW x \in Elements(q) PROVE x \in Elements(p \o q)
  <2>1. PICK i \in 1..Len(q) : x = q[i]
    BY DEF Elements
  <2>2. /\ Len(p) + i \in 1..(Len(p) + Len(q))
        /\ ~(Len(p) + i <= Len(p))
        /\ (Len(p) + i) - Len(p) = i
    BY <1>1
  <2> QED
    BY <1>1, <2>1, <2>2 DEF Elements
<1> QED
  BY <1>1, <1>2, <1>3, <1>4

-----------------------------------------------------------------------------
(* The inductive invariant.                                                *)

Loaded == Elements(loaded)

Linking == phase \in {"link", "linked", "not_linked"}

Request(file, i) == [from |-> file, spec |-> package.imports[file][i]]
First == [from |-> <<Seg("?")>>, spec |-> Index]

ImportsOf(file) == 1..Len(package.imports[file])

ShapeInv ==
    /\ queue \in Seq([from : Files \cup {<<Seg("?")>>}, spec : Path \cup {Index}])
    /\ loaded \in Seq(Files)
    /\ \A e \in modules : e = [key |-> e.key, file |-> e.file]

\* Every compiled file is in the map under its own path, and what else is in the
\* map is an alias of one of them.
MapInv ==
    /\ \A f \in Loaded : [key |-> f, file |-> f] \in modules
    /\ \A e \in modules : e.file \in Loaded /\ e.file = NormalizePath(e.key)

\* The imports that wait are those of compiled files.
QueueInv ==
    /\ phase = "load" => Index # NoFile
    /\ Linking => queue = <<>> /\ Index \in Loaded
    /\ \/ queue = <<First>> /\ loaded = <<>> /\ ~Linking
       \/ /\ Index \in Loaded
          /\ \A q \in Elements(queue) :
                \E f \in Loaded : \E i \in ImportsOf(f) : q = Request(f, i)

\* An import of a compiled file is compiled or waits.
ClosedInv ==
    \A f \in Loaded : \A i \in ImportsOf(f) :
        Target(f, i) \in Loaded \/ Request(f, i) \in Elements(queue)

\* Files are compiled once, for the sake of an import of an earlier one.
OrderInv ==
    /\ \A j, k \in 1..Len(loaded) : loaded[j] = loaded[k] => j = k
    /\ \A k \in 2..Len(loaded) :
          \E j \in 1..(k - 1) : \E f \in Files :
             f = loaded[j] /\ \E i \in ImportsOf(f) : Target(f, i) = loaded[k]

LinkInv ==
    /\ ~Linking => links = {}
    /\ Linking => /\ DOMAIN referrer = Loaded
                  /\ \A f \in Loaded : [key |-> referrer[f], file |-> f] \in modules
    /\ \A l \in links :
          l.from \in Loaded /\ l.i \in ImportsOf(l.from) /\ l.to \in Loaded

\* Imports name their files in full.
FullPaths ==
    \A file \in Files : \A i \in ImportsOf(file) :
        TransformRelPath(file, package.imports[file][i]) \in Files

FullInv ==
    FullPaths =>
        /\ \A e \in modules : e.key = e.file
        /\ phase # "not_linked"
        /\ \A l \in links : l.to = Target(l.from, l.i)

IInv ==
    /\ PackageOK
    /\ ShapeInv
    /\ MapInv
    /\ QueueInv
    /\ ClosedInv
    /\ OrderInv
    /\ LinkInv
    /\ FullInv

-----------------------------------------------------------------------------
(* The steps.                                                              *)

Item == [from : Files \cup {<<Seg("?")>>}, spec : Path \cup {Index}]

\* What depends on the package alone does not change.
LEMMA PackageStays ==
    ASSUME package' = package
    PROVE  /\ PackageOK' = PackageOK /\ Files' = Files /\ Index' = Index /\ First' = First
           /\ Item' = Item
           /\ FullPaths' = FullPaths
           /\ \A p : NormalizePath(p)' = NormalizePath(p)
           /\ \A f : ImportsOf(f)' = ImportsOf(f)
           /\ \A f, i : Request(f, i)' = Request(f, i) /\ Target(f, i)' = Target(f, i)
<1>1. Files' = Files
  BY DEF Files
<1>2. \A p : NormalizePath(p)' = NormalizePath(p)
  BY <1>1 DEF NormalizePath
<1>3. Index' = Index
  BY <1>2 DEF Index
<1>4. \A f : ImportsOf(f)' = ImportsOf(f)
  BY DEF ImportsOf
<1>5. \A f, i : Request(f, i)' = Request(f, i)
  BY DEF Request
<1>6. \A f, i : Target(f, i)' = Target(f, i)
  BY <1>2 DEF Target
<1>7. PackageOK' = PackageOK
  BY <1>1 DEF PackageOK
<1>8. First' = First /\ Item' = Item
  BY <1>1, <1>3 DEF First, Item
<1>9. FullPaths' = FullPaths
  BY <1>1, <1>4 DEF FullPaths
<1> QED
  BY <1>1, <1>2, <1>3, <1>4, <1>5, <1>6, <1>7, <1>8, <1>9

LEMMA InitIInv == Init => IInv
<1> SUFFICES ASSUME Init PROVE IInv
  OBVIOUS
<1>1. PackageOK
  BY UnpackFacts DEF Init, PackageOK, Files
<1>2. /\ queue = <<First>> /\ loaded = <<>> /\ modules = {} /\ links = {}
      /\ ~Linking /\ phase # "not_linked" /\ (phase = "load" => Index # NoFile)
  BY DEF Init, First, Linking
<1>3. Loaded = {}
  BY <1>2 DEF Loaded, Elements
<1>4. ShapeInv
  <2>1. First \in [from : Files \cup {<<Seg("?")>>}, spec : Path \cup {Index}]
    BY DEF First
  <2> HIDE DEF First
  <2>2. queue \in Seq([from : Files \cup {<<Seg("?")>>}, spec : Path \cup {Index}])
    BY <1>2, <2>1
  <2> QED
    BY <1>2, <2>2 DEF ShapeInv
<1>5. MapInv /\ QueueInv /\ ClosedInv
  BY <1>2, <1>3 DEF MapInv, QueueInv, ClosedInv
<1>6. OrderInv
  BY <1>2 DEF OrderInv
<1>7. LinkInv /\ FullInv
  BY <1>2 DEF LinkInv, FullInv
<1> QED
  BY <1>1, <1>4, <1>5, <1>6, <1>7 DEF IInv

\* The top of the worklist is an import of a compiled file, or the first one.
LEMMA TopFacts ==
    ASSUME IInv, phase = "load", queue # <<>>, TopFile # NoFile
    PROVE  /\ Front(queue) \in Seq(Item)
           /\ Elements(queue) = Elements(Front(queue)) \cup {Top}
           /\ TopFile \in Files
           /\ TopPath \in Files => TopPath = TopFile
           /\ \/ Top = First /\ Front(queue) = <<>> /\ loaded = <<>> /\ TopFile = Index /\ TopPath = Index
              \/ /\ Index \in Loaded
                 /\ \E f \in Loaded : \E i \in ImportsOf(f) : Top = Request(f, i)
           /\ \A f, i : Top = Request(f, i) =>
                 /\ Target(f, i) = TopFile
                 /\ TopPath = TransformRelPath(f, package.imports[f][i])
           /\ KnownModule(TopPath, TopFile) <=> TopFile \in Loaded
<1> USE DEF IInv
<1>1. queue \in Seq(Item)
  BY DEF ShapeInv, Item
<1>2. /\ Front(queue) \in Seq(Item)
      /\ Elements(queue) = Elements(Front(queue)) \cup {Top}
  BY <1>1, FrontElements DEF Top
<1>3. TopFile \in Files /\ (TopPath \in Files => TopPath = TopFile)
  BY NormalizeFacts DEF TopFile
<1>4. \A f, i : Top = Request(f, i) =>
         /\ Target(f, i) = TopFile
         /\ TopPath = TransformRelPath(f, package.imports[f][i])
  BY DEF Request, Target, TopFile, TopPath
<1>7. KnownModule(TopPath, TopFile) <=> TopFile \in Loaded
  <2>1. KnownModule(TopPath, TopFile) <=> \E e \in modules : e.key = TopFile
    BY DEF KnownModule, Lookup
  <2>2. \A e \in modules : e.key = TopFile => e.file = TopFile /\ e.file \in Loaded
    BY <1>3, NormalizeFacts DEF MapInv
  <2>3. TopFile \in Loaded => \E e \in modules : e.key = TopFile
    BY DEF MapInv
  <2> QED
    BY <2>1, <2>2, <2>3
<1>8. \/ Top = First /\ Front(queue) = <<>> /\ loaded = <<>> /\ TopFile = Index /\ TopPath = Index
      \/ /\ Index \in Loaded
         /\ \E f \in Loaded : \E i \in ImportsOf(f) : Top = Request(f, i)
  <2>1. CASE queue = <<First>> /\ loaded = <<>>
    <3>1. Top = First
      BY <2>1 DEF Top
    <3>2. Front(queue) = <<>>
      BY <2>1 DEF Front
    <3>3. Index \in Files /\ TopPath = Index
      BY <3>1, IndexFacts DEF QueueInv, TopPath, First
    <3> QED
      BY <1>3, <2>1, <3>1, <3>2, <3>3
  <2>2. CASE /\ Index \in Loaded
             /\ \A q \in Elements(queue) : \E f \in Loaded : \E i \in ImportsOf(f) : q = Request(f, i)
    BY <1>2, <2>2
  <2> QED
    BY <2>1, <2>2 DEF QueueInv
<1> QED
  BY <1>2, <1>3, <1>4, <1>7, <1>8

LEMMA AliasStep == ASSUME IInv, AddAlias PROVE IInv'
<1> USE DEF IInv
<1> DEFINE new == [key |-> TopPath, file |-> TopFile]
<1>1. /\ phase = "load" /\ queue # <<>> /\ TopFile # NoFile /\ KnownModule(TopPath, TopFile)
      /\ queue' = Front(queue)
      /\ modules' = (modules \ Lookup(TopPath)) \cup {new}
      /\ package' = package /\ UNCHANGED <<loaded, referrer, links, phase>>
  BY DEF AddAlias
<1>2. /\ Front(queue) \in Seq(Item)
      /\ Elements(queue) = Elements(Front(queue)) \cup {Top}
      /\ TopPath \in Files => TopPath = TopFile
      /\ TopFile \in Loaded
      /\ \A f, i : Top = Request(f, i) =>
            /\ Target(f, i) = TopFile
            /\ TopPath = TransformRelPath(f, package.imports[f][i])
  BY <1>1, TopFacts
<1>3. Loaded' = Loaded /\ Linking' = Linking /\ ~Linking
  BY <1>1 DEF Loaded, Elements, Linking
<1>4. loaded # <<>> /\ loaded \in Seq(Files) /\ Loaded \subseteq Files
  BY <1>2 DEF Loaded, Elements, ShapeInv
<1>5. /\ Index \in Loaded
      /\ \A q \in Elements(queue) : \E f \in Loaded : \E i \in ImportsOf(f) : q = Request(f, i)
  BY <1>4 DEF QueueInv
<1>6. PackageOK' /\ Item' = Item /\ Files' = Files
  BY <1>1, PackageStays
<1>7. ShapeInv'
  <2>1. \A e \in modules' : e = [key |-> e.key, file |-> e.file]
    BY <1>1 DEF ShapeInv
  <2> QED
    BY <1>1, <1>2, <1>4, <1>6, <2>1 DEF ShapeInv, Item
<1>8. MapInv'
  <2>1. \A f \in Loaded : [key |-> f, file |-> f] \in modules'
    <3> SUFFICES ASSUME NEW f \in Loaded PROVE [key |-> f, file |-> f] \in modules'
      OBVIOUS
    <3>1. [key |-> f, file |-> f] \in modules
      BY DEF MapInv
    <3>2. CASE f = TopPath
      BY <1>1, <1>2, <1>4, <3>2
    <3>3. CASE f # TopPath
      BY <1>1, <3>1, <3>3 DEF Lookup
    <3> QED
      BY <3>2, <3>3
  <2>2. new.file \in Loaded /\ new.file = NormalizePath(new.key)
    BY <1>2 DEF TopFile
  <2> HIDE DEF new
  <2>3. \A e \in modules' : e.file \in Loaded /\ e.file = NormalizePath(e.key)
    BY <1>1, <2>2 DEF MapInv
  <2> QED
    BY <1>1, <1>3, <2>1, <2>3, PackageStays DEF MapInv
<1>9. QueueInv'
  <2>1. \A q \in Elements(queue') : \E f \in Loaded : \E i \in ImportsOf(f) : q = Request(f, i)
    BY <1>1, <1>2, <1>5
  <2>2. \A q \in Elements(queue)' : \E f \in Loaded' : \E i \in ImportsOf(f)' : q = Request(f, i)'
    BY <1>1, <1>3, <2>1, PackageStays DEF Elements
  <2> QED
    BY <1>1, <1>3, <1>5, <2>2, PackageStays DEF QueueInv
<1>10. ClosedInv'
  <2> SUFFICES ASSUME NEW f \in Loaded, NEW i \in ImportsOf(f)
               PROVE  Target(f, i) \in Loaded \/ Request(f, i) \in Elements(queue')
    BY <1>1, <1>3, PackageStays DEF ClosedInv, Elements
  <2>1. Target(f, i) \in Loaded \/ Request(f, i) \in Elements(queue)
    BY DEF ClosedInv
  <2>2. Request(f, i) = Top => Target(f, i) = TopFile
    BY <1>2
  <2> QED
    BY <1>1, <1>2, <2>1, <2>2
<1>11. OrderInv'
  <2>1. /\ Files' = Files
        /\ \A f : ImportsOf(f)' = ImportsOf(f)
        /\ \A f, i : Target(f, i)' = Target(f, i)
    BY <1>1, PackageStays
  <2> QED
    BY <1>1, <2>1 DEF OrderInv
<1>12. LinkInv'
  BY <1>1, <1>3 DEF LinkInv
<1>13. FullInv'
  <2> SUFFICES ASSUME FullPaths
               PROVE  /\ \A e \in modules' : e.key = e.file
                      /\ phase # "not_linked"
                      /\ \A l \in links : l.to = Target(l.from, l.i)
    BY <1>1, PackageStays DEF FullInv
  <2>0. PICK f \in Loaded : \E i \in ImportsOf(f) : Top = Request(f, i)
    BY <1>2, <1>5
  <2>1. PICK i \in ImportsOf(f) : Top = Request(f, i)
    BY <2>0
  <2>2. TopPath \in Files
    BY <1>2, <1>4, <2>1 DEF FullPaths
  <2>3. new.key = new.file
    BY <1>2, <2>2
  <2> QED
    BY <1>1, <2>3 DEF FullInv
<1> QED
  BY <1>6, <1>7, <1>8, <1>9, <1>10, <1>11, <1>12, <1>13

LEMMA LoadStep == ASSUME IInv, LoadModule PROVE IInv'
<1> USE DEF IInv
<1> DEFINE new == [key |-> TopFile, file |-> TopFile]
<1>1. /\ phase = "load" /\ queue # <<>> /\ TopFile # NoFile /\ ~KnownModule(TopPath, TopFile)
      /\ modules' = modules \cup {new}
      /\ loaded' = Append(loaded, TopFile)
      /\ queue' = Front(queue) \o Requests(TopFile)
      /\ package' = package /\ UNCHANGED <<referrer, links, phase>>
  BY DEF LoadModule
<1>2. /\ Front(queue) \in Seq(Item)
      /\ Elements(queue) = Elements(Front(queue)) \cup {Top}
      /\ TopFile \in Files /\ TopFile \notin Loaded
      /\ TopPath \in Files => TopPath = TopFile
      /\ \A f, i : Top = Request(f, i) => Target(f, i) = TopFile
  BY <1>1, TopFacts
<1>3. \/ Top = First /\ Front(queue) = <<>> /\ loaded = <<>> /\ TopFile = Index /\ TopPath = Index
      \/ /\ Index \in Loaded
         /\ \E f \in Loaded : \E i \in ImportsOf(f) : Top = Request(f, i)
  BY <1>1, TopFacts
<1>4. /\ loaded \in Seq(Files) /\ Len(loaded) \in Nat
      /\ loaded' \in Seq(Files)
      /\ Len(loaded') = Len(loaded) + 1
      /\ \A k \in 1..Len(loaded) : loaded'[k] = loaded[k]
      /\ loaded'[Len(loaded) + 1] = TopFile
  BY <1>1, <1>2 DEF ShapeInv
<1>5. Loaded' = Loaded \cup {TopFile}
  <2>1. 1..Len(loaded') = 1..Len(loaded) \cup {Len(loaded) + 1}
    BY <1>4
  <2> QED
    BY <1>4, <2>1 DEF Loaded, Elements
<1>6. Loaded \subseteq Files /\ Linking' = Linking /\ ~Linking
  BY <1>1, <1>4 DEF Loaded, Elements, Linking
<1>7. /\ Requests(TopFile) \in Seq(Item)
      /\ Elements(Requests(TopFile)) = {Request(TopFile, i) : i \in ImportsOf(TopFile)}
  <2>1. /\ Len(package.imports[TopFile]) \in Nat
        /\ \A i \in ImportsOf(TopFile) : package.imports[TopFile][i] \in Path
    BY <1>2 DEF PackageOK, ImportsOf
  <2>2. /\ Requests(TopFile) = [i \in ImportsOf(TopFile) |-> Request(TopFile, i)]
        /\ Len(Requests(TopFile)) = Len(package.imports[TopFile])
    BY <2>1 DEF Requests, Request, ImportsOf
  <2>3. \A i \in ImportsOf(TopFile) : Request(TopFile, i) \in Item
    BY <1>2, <2>1 DEF Request, Item
  <2>4. Requests(TopFile) \in Seq(Item)
    BY <2>1, <2>2, <2>3 DEF ImportsOf
  <2> QED
    BY <2>2, <2>4 DEF Elements, ImportsOf
<1>8. /\ queue' \in Seq(Item)
      /\ Elements(queue') = Elements(Front(queue)) \cup {Request(TopFile, i) : i \in ImportsOf(TopFile)}
  BY <1>1, <1>2, <1>7, ConcatElements
<1>9. PackageOK' /\ Item' = Item /\ Files' = Files
  BY <1>1, PackageStays
<1>10. ShapeInv'
  <2>1. \A e \in modules' : e = [key |-> e.key, file |-> e.file]
    BY <1>1 DEF ShapeInv
  <2> QED
    BY <1>4, <1>8, <1>9, <2>1 DEF ShapeInv, Item
<1>11. MapInv'
  <2>1. \A f \in Loaded' : [key |-> f, file |-> f] \in modules'
    BY <1>1, <1>5 DEF MapInv
  <2>2. new.file \in Loaded' /\ new.file = NormalizePath(new.key)
    BY <1>2, <1>5, NormalizeFacts
  <2> HIDE DEF new
  <2>3. \A e \in modules' : e.file \in Loaded' /\ e.file = NormalizePath(e.key)
    BY <1>1, <1>5, <2>2 DEF MapInv
  <2> QED
    BY <1>1, <2>1, <2>3, PackageStays DEF MapInv
<1>12. QueueInv'
  <2>1. Index \in Loaded'
    BY <1>3, <1>5
  <2>2. \A q \in Elements(queue') : \E f \in Loaded' : \E i \in ImportsOf(f) : q = Request(f, i)
    <3>1. \A q \in Elements(Front(queue)) : \E f \in Loaded : \E i \in ImportsOf(f) : q = Request(f, i)
      <4>1. CASE loaded = <<>>
        <5>1. Loaded = {}
          BY <4>1 DEF Loaded, Elements
        <5>2. Elements(Front(queue)) = {}
          BY <1>3, <5>1 DEF Elements
        <5> QED
          BY <5>2
      <4>2. CASE loaded # <<>>
        BY <1>2, <4>2 DEF QueueInv
      <4> QED
        BY <4>1, <4>2
    <3> QED
      BY <1>5, <1>8, <3>1
  <2>4. /\ \A f : ImportsOf(f)' = ImportsOf(f)
        /\ \A f, i : Request(f, i)' = Request(f, i)
    BY <1>1, PackageStays
  <2>5. Elements(queue)' = Elements(queue')
    BY DEF Elements
  <2>3. \A q \in Elements(queue)' : \E f \in Loaded' : \E i \in ImportsOf(f)' : q = Request(f, i)'
    BY <2>2, <2>4, <2>5
  <2> QED
    BY <1>1, <1>6, <2>1, <2>3, PackageStays DEF QueueInv
<1>13. ClosedInv'
  <2> SUFFICES ASSUME NEW f \in Loaded', NEW i \in ImportsOf(f)
               PROVE  Target(f, i) \in Loaded' \/ Request(f, i) \in Elements(queue')
    BY <1>1, PackageStays DEF ClosedInv, Elements
  <2>1. CASE f = TopFile
    BY <1>8, <2>1
  <2>2. CASE f \in Loaded
    <3>1. Target(f, i) \in Loaded \/ Request(f, i) \in Elements(queue)
      BY <2>2 DEF ClosedInv
    <3>2. Request(f, i) = Top => Target(f, i) = TopFile
      BY <1>2
    <3> QED
      BY <1>2, <1>5, <1>8, <3>1, <3>2
  <2> QED
    BY <1>5, <2>1, <2>2
<1>14. OrderInv'
  <2>1. \A j \in 1..Len(loaded) : loaded[j] # TopFile
    BY <1>2 DEF Loaded, Elements
  <2>2. \A j \in 1..Len(loaded') : j \in 1..Len(loaded) \/ j = Len(loaded) + 1
    BY <1>4
  <2>3. \A j, k \in 1..Len(loaded') : loaded'[j] = loaded'[k] => j = k
    BY <1>4, <2>1, <2>2 DEF OrderInv
  <2>4. ASSUME NEW k \in 2..Len(loaded')
        PROVE  \E j \in 1..(k - 1) : \E f \in Files :
                  f = loaded'[j] /\ \E i \in ImportsOf(f) : Target(f, i) = loaded'[k]
    <3>1. CASE k \in 2..Len(loaded)
      <4>1. PICK j \in 1..(k - 1) : \E f \in Files :
                f = loaded[j] /\ \E i \in ImportsOf(f) : Target(f, i) = loaded[k]
        BY <3>1 DEF OrderInv
      <4>2. loaded'[j] = loaded[j] /\ loaded'[k] = loaded[k]
        BY <1>4, <3>1
      <4> QED
        BY <4>1, <4>2
    <3>2. CASE k = Len(loaded) + 1
      <4>1. loaded # <<>>
        BY <1>4, <3>2
      <4>5. PICK f \in Loaded : \E i \in ImportsOf(f) : Top = Request(f, i)
        BY <1>3, <4>1
      <4>2. PICK i \in ImportsOf(f) : Top = Request(f, i)
        BY <4>5
      <4>3. PICK j \in 1..Len(loaded) : f = loaded[j]
        BY DEF Loaded, Elements
      <4>4. j \in 1..(k - 1) /\ loaded'[j] = f /\ loaded'[k] = TopFile /\ f \in Files
        BY <1>4, <1>6, <3>2, <4>3
      <4>6. Target(f, i) = TopFile
        BY <1>2, <4>2
      <4> QED
        BY <4>4, <4>6
    <3> QED
      BY <1>4, <2>4, <3>1, <3>2
  <2>5. /\ Files' = Files
        /\ \A f : ImportsOf(f)' = ImportsOf(f)
        /\ \A f, i : Target(f, i)' = Target(f, i)
    BY <1>1, PackageStays
  <2> QED
    BY <2>3, <2>4, <2>5 DEF OrderInv
<1>15. LinkInv'
  BY <1>1, <1>6 DEF LinkInv
<1>16. FullInv'
  <2> SUFFICES ASSUME FullPaths
               PROVE  /\ \A e \in modules' : e.key = e.file
                      /\ phase # "not_linked"
                      /\ \A l \in links : l.to = Target(l.from, l.i)
    BY <1>1, PackageStays DEF FullInv
  <2> QED
    BY <1>1 DEF FullInv
<1> QED
  BY <1>9, <1>10, <1>11, <1>12, <1>13, <1>14, <1>15, <1>16

\* A step that leaves the worklist and the map alone keeps what is said of them.
Waiting == \A q \in Elements(queue) : \E f \in Loaded : \E i \in ImportsOf(f) : q = Request(f, i)

LEMMA Stays ==
    ASSUME IInv, UNCHANGED <<package, queue, modules, loaded>>
    PROVE  /\ PackageOK' /\ ShapeInv' /\ MapInv' /\ ClosedInv' /\ OrderInv'
           /\ Loaded' = Loaded /\ First' = First /\ Index' = Index
           /\ Waiting' = Waiting /\ FullPaths' = FullPaths
<1> USE DEF IInv
<1>1. /\ PackageOK' = PackageOK /\ Files' = Files /\ Index' = Index /\ First' = First
      /\ FullPaths' = FullPaths
      /\ \A p : NormalizePath(p)' = NormalizePath(p)
      /\ \A f : ImportsOf(f)' = ImportsOf(f)
      /\ \A f, i : Request(f, i)' = Request(f, i) /\ Target(f, i)' = Target(f, i)
  BY PackageStays
<1>2. Loaded' = Loaded /\ Elements(queue)' = Elements(queue)
  BY DEF Loaded, Elements
<1>3. ShapeInv'
  BY <1>1 DEF ShapeInv
<1>4. MapInv'
  BY <1>1, <1>2 DEF MapInv
<1>5. ClosedInv'
  BY <1>1, <1>2 DEF ClosedInv
<1>6. OrderInv'
  BY <1>1 DEF OrderInv
<1>7. Waiting' = Waiting
  BY <1>1, <1>2 DEF Waiting
<1> QED
  BY <1>1, <1>2, <1>3, <1>4, <1>5, <1>6, <1>7

\* The loader ends before V8 links anything.
LEMMA GiveUpStep == ASSUME IInv, Unresolved \/ CompileError PROVE IInv'
<1> USE DEF IInv
<1>1. /\ phase = "load" /\ phase' \in {"unresolved", "failed"}
      /\ UNCHANGED <<package, queue, modules, loaded>> /\ UNCHANGED <<referrer, links>>
  BY DEF Unresolved, CompileError
<1>2. ~Linking /\ ~Linking' /\ phase' # "load" /\ phase' # "not_linked"
  BY <1>1 DEF Linking
<1>3. QueueInv'
  BY <1>1, <1>2, Stays DEF QueueInv, Waiting
<1>4. LinkInv'
  BY <1>1, <1>2, Stays DEF LinkInv
<1>5. FullInv'
  BY <1>1, <1>2, Stays DEF FullInv, LinkInv
<1> QED
  BY <1>1, <1>3, <1>4, <1>5, Stays

LEMMA BeginLinkStep == ASSUME IInv, BeginLink PROVE IInv'
<1> USE DEF IInv
<1>1. /\ phase = "load" /\ queue = <<>> /\ phase' = "link"
      /\ referrer' \in {f \in [{e.file : e \in modules} -> {e.key : e \in modules}] :
                            \A file \in DOMAIN f : [key |-> f[file], file |-> file] \in modules}
      /\ UNCHANGED <<package, queue, modules, loaded>> /\ links' = links
  BY DEF BeginLink
<1>2. ~Linking /\ Linking' /\ links = {}
  BY <1>1 DEF Linking, LinkInv
<1>3. Index \in Loaded
  BY <1>1 DEF QueueInv
<1>4. {e.file : e \in modules} = Loaded
  BY DEF MapInv
<1>5. QueueInv'
  <2>1. Elements(queue) = {}
    BY <1>1 DEF Elements
  <2>2. Waiting
    BY <2>1 DEF Waiting
  <2> QED
    BY <1>1, <1>2, <1>3, <2>2, Stays DEF QueueInv, Waiting
<1>6. LinkInv'
  BY <1>1, <1>2, <1>4, Stays DEF LinkInv
<1>7. FullInv'
  BY <1>1, <1>2, Stays DEF FullInv
<1> QED
  BY <1>1, <1>5, <1>6, <1>7, Stays

\* While V8 links, every import of a compiled file has its target compiled, and an
\* import that names its file in full is a key of the map.
LEMMA ResolveStep ==
    ASSUME IInv, NEW file \in Files, NEW i \in Open(file), ResolveCallback(file, i)
    PROVE  IInv'
<1> USE DEF IInv
<1> DEFINE path == TransformRelPath(referrer[file], package.imports[file][i])
           new == {[from |-> file, i |-> i, to |-> e.file] : e \in Lookup(path)}
<1>1. /\ phase = "link"
      /\ \/ Lookup(path) = {} /\ phase' = "not_linked" /\ links' = links
         \/ Lookup(path) # {} /\ phase' = phase /\ links' = links \cup new
      /\ UNCHANGED <<package, queue, modules, loaded>> /\ referrer' = referrer
  BY DEF ResolveCallback
<1>2. Linking /\ Linking' /\ queue = <<>> /\ Index \in Loaded
  BY <1>1 DEF Linking, QueueInv
<1>3. file \in Loaded /\ i \in ImportsOf(file)
  BY <1>2 DEF Open, Asked, ImportsOf, LinkInv
<1>4. Elements(queue) = {}
  BY <1>2 DEF Elements
<1>5. Target(file, i) \in Loaded
  BY <1>3, <1>4 DEF ClosedInv
<1>6. QueueInv'
  <2>1. Waiting
    BY <1>4 DEF Waiting
  <2> QED
    BY <1>1, <1>2, <2>1, Stays DEF QueueInv, Waiting
<1>7. \A l \in new : /\ l.from = file /\ l.i = i
                     /\ \E e \in modules : e.key = path /\ l.to = e.file
  BY DEF Lookup
<1> HIDE DEF new
<1>8. LinkInv'
  <2>1. \A l \in links' : l.from \in Loaded /\ l.i \in ImportsOf(l.from) /\ l.to \in Loaded
    BY <1>1, <1>3, <1>7 DEF LinkInv, MapInv
  <2>2. \A f : ImportsOf(f)' = ImportsOf(f)
    BY <1>1, PackageStays
  <2>3. \A l \in links' : (l.i \in ImportsOf(l.from))'
    BY <1>1, <2>1 DEF ImportsOf
  <2> QED
    BY <1>1, <1>2, <2>1, <2>3, Stays DEF LinkInv
<1>9. FullInv'
  <2>1. SUFFICES ASSUME FullPaths
                 PROVE  /\ \A e \in modules : e.key = e.file
                        /\ phase' # "not_linked"
                        /\ \A l \in links' : l.to = Target(l.from, l.i)
    BY <1>1, PackageStays DEF FullInv
  <2>2. referrer[file] = file
    BY <1>2, <1>3, <2>1 DEF FullInv, LinkInv
  <2>3. path \in Files
    BY <1>3, <2>1, <2>2 DEF FullPaths
  <2>4. Target(file, i) = path
    BY <2>2, <2>3, NormalizeFacts DEF Target
  <2>5. [key |-> path, file |-> path] \in modules
    BY <1>5, <2>4 DEF MapInv
  <2>6. Lookup(path) # {}
    BY <2>5 DEF Lookup
  <2>7. \A l \in new : l.to = Target(l.from, l.i)
    BY <1>7, <2>1, <2>4 DEF FullInv
  <2> QED
    BY <1>1, <2>1, <2>6, <2>7 DEF FullInv
<1> QED
  BY <1>1, <1>6, <1>8, <1>9, Stays

\* V8 is done, or nothing changes.
LEMMA EndLinkStep == ASSUME IInv, EndLink \/ UNCHANGED vars PROVE IInv'
<1> USE DEF IInv
<1>1. /\ UNCHANGED <<package, queue, modules, loaded>> /\ UNCHANGED <<referrer, links>>
      /\ phase' = phase \/ (phase = "link" /\ phase' = "linked")
  BY DEF EndLink, vars
<1>2. Linking' = Linking
  BY <1>1 DEF Linking
<1>3. QueueInv'
  BY <1>1, <1>2, Stays DEF QueueInv, Waiting
<1>4. LinkInv'
  <2>1. \A l \in links : (l.i \in ImportsOf(l.from))' <=> l.i \in ImportsOf(l.from)
    BY <1>1 DEF ImportsOf
  <2> QED
    BY <1>1, <1>2, <2>1, Stays DEF LinkInv
<1>5. FullInv'
  <2>1. SUFFICES ASSUME FullPaths
                 PROVE  /\ \A e \in modules : e.key = e.file
                        /\ phase' # "not_linked"
                        /\ \A l \in links : l.to = Target(l.from, l.i)
    BY <1>1, PackageStays DEF FullInv
  <2> QED
    BY <1>1, <2>1 DEF FullInv
<1> QED
  BY <1>1, <1>3, <1>4, <1>5, Stays

-----------------------------------------------------------------------------
(* The theorems.                                                           *)

LEMMA NextIInv == IInv /\ [Next]_vars => IInv'
<1> SUFFICES ASSUME IInv, [Next]_vars PROVE IInv'
  OBVIOUS
<1>1. CASE Unresolved \/ CompileError
  BY <1>1, GiveUpStep
<1>2. CASE AddAlias
  BY <1>2, AliasStep
<1>3. CASE LoadModule
  BY <1>3, LoadStep
<1>4. CASE BeginLink
  BY <1>4, BeginLinkStep
<1>5. CASE EndLink \/ UNCHANGED vars
  BY <1>5, EndLinkStep
<1>6. CASE \E file \in Files : \E i \in Open(file) : ResolveCallback(file, i)
  BY <1>6, ResolveStep
<1> QED
  BY <1>1, <1>2, <1>3, <1>4, <1>5, <1>6 DEF Next

LEMMA Invariance == Spec => []IInv
<1> QED
  BY InitIInv, NextIInv, PTL DEF Spec

\* For every package, whatever its imports, cycles and aliases: the loader compiles
\* a file at most once and only for the sake of an import of a file compiled before,
\* and when V8 starts to link, all that the compiled files import is compiled
\* (package.rs: load_module_with_dependencies).
THEOREM LoadsOnceWhatIsNeeded == Spec => []LoadsWhatIsNeeded
<1>1. IInv => LoadsWhatIsNeeded
  <2> SUFFICES ASSUME IInv PROVE LoadsWhatIsNeeded
    OBVIOUS
  <2> USE DEF IInv
  <2>1. \A k \in 2..Len(loaded) :
           \E j \in 1..(k - 1) : \E i \in 1..Len(package.imports[loaded[j]]) :
              Target(loaded[j], i) = loaded[k]
    <3> SUFFICES ASSUME NEW k \in 2..Len(loaded)
                 PROVE  \E j \in 1..(k - 1) : \E i \in 1..Len(package.imports[loaded[j]]) :
                           Target(loaded[j], i) = loaded[k]
      OBVIOUS
    <3>1. PICK j \in 1..(k - 1) : \E f \in Files :
             f = loaded[j] /\ \E i \in ImportsOf(f) : Target(f, i) = loaded[k]
      BY DEF OrderInv
    <3> QED
      BY <3>1 DEF ImportsOf
  <2>2. Linking => \A j \in 1..Len(loaded) : \A i \in 1..Len(package.imports[loaded[j]]) :
                      \E k \in 1..Len(loaded) : loaded[k] = Target(loaded[j], i)
    <3> SUFFICES ASSUME Linking, NEW j \in 1..Len(loaded), NEW i \in ImportsOf(loaded[j])
                 PROVE  \E k \in 1..Len(loaded) : loaded[k] = Target(loaded[j], i)
      BY DEF ImportsOf
    <3>1. loaded[j] \in Loaded
      BY DEF Loaded, Elements
    <3>2. Elements(queue) = {}
      BY DEF QueueInv, Elements
    <3>3. Target(loaded[j], i) \in Loaded
      BY <3>1, <3>2 DEF ClosedInv
    <3> QED
      BY <3>3 DEF Loaded, Elements
  <2> QED
    BY <2>1, <2>2 DEF LoadsWhatIsNeeded, OrderInv, Linking
<1> QED
  BY <1>1, Invariance, PTL

\* In a package whose imports name their files in full, V8 never asks for a path that
\* is no key of the module map, and links every import to the file it names
\* (package.rs: module_resolve_callback).
THEOREM FullPathsAreLinked == Spec => []FullPathsLink
<1>1. IInv => FullPathsLink
  BY DEF IInv, FullInv, FullPathsLink, FullPaths, ImportsOf
<1> QED
  BY <1>1, Invariance, PTL

-----------------------------------------------------------------------------
(* The guard of a layout solve.                                            *)

\* The handle goes before the fence, the fence before the JS thread goes on,
\* and the context only then.
GuardInv ==
    /\ GuardTypeOK
    /\ handle => fence
    /\ task \in {"waiting", "woken"} => handle
    /\ fence => pc \in {"spawned", "check", "abort", "recv"}
    /\ z3ctx <=> pc \in {"spawned", "check", "abort", "recv", "answer"}

LEMMA GuardInvInit == GuardInit => GuardInv
BY DEF GuardInit, GuardInv, GuardTypeOK

LEMMA GuardInvNext == GuardInv /\ [GuardNext]_guardVars => GuardInv'
<1> SUFFICES ASSUME GuardInv, [GuardNext]_guardVars
             PROVE  GuardInv'
  OBVIOUS
<1> USE DEF GuardInv, GuardTypeOK
<1>1. ASSUME Spawn PROVE GuardInv'
  BY <1>1 DEF Spawn
<1>2. ASSUME BuildError PROVE GuardInv'
  BY <1>2 DEF BuildError
<1>3. ASSUME Check PROVE GuardInv'
  BY <1>3 DEF Check
<1>4. ASSUME CheckReturns PROVE GuardInv'
  BY <1>4 DEF CheckReturns
<1>5. ASSUME Abort PROVE GuardInv'
  BY <1>5 DEF Abort
<1>6. ASSUME RecvFence PROVE GuardInv'
  BY <1>6 DEF RecvFence
<1>7. ASSUME Answer PROVE GuardInv'
  BY <1>7 DEF Answer
<1>8. ASSUME Wake \/ TaskAborted \/ CancelRequest PROVE GuardInv'
  <2>1. CASE Wake  BY <2>1 DEF Wake
  <2>2. CASE TaskAborted  BY <2>2 DEF TaskAborted
  <2>3. CASE CancelRequest  BY <2>3 DEF CancelRequest
  <2> QED BY <1>8, <2>1, <2>2, <2>3
<1>9. ASSUME Interrupt PROVE GuardInv'
  <2>1. interrupted' \in BOOLEAN
    BY <1>9 DEF Interrupt
  <2> QED BY <1>9, <2>1 DEF Interrupt
<1>10. ASSUME DropHandle PROVE GuardInv'
  BY <1>10 DEF DropHandle
<1>11. ASSUME DropFence PROVE GuardInv'
  BY <1>11 DEF DropFence
<1>12. ASSUME UNCHANGED guardVars PROVE GuardInv'
  BY <1>12 DEF guardVars
<1> QED
  BY <1>1, <1>2, <1>3, <1>4, <1>5, <1>6, <1>7, <1>8, <1>9, <1>10, <1>11, <1>12
     DEF GuardNext, JsThread, Watcher

LEMMA GuardInvariant == GuardSpec => []GuardInv
BY GuardInvInit, GuardInvNext, PTL DEF GuardSpec

\* The handle is dropped before its context, for every interleaving of the JS
\* thread, the watcher's runtime and the request's cancellation.
THEOREM HandleNeverDangles == GuardSpec => []HandleWithinContext
<1>1. GuardInv => HandleWithinContext
  BY DEF GuardInv, HandleWithinContext
<1> QED BY <1>1, GuardInvariant, PTL

\* interrupt() is only ever called on a context that is there.
THEOREM InterruptsLiveContext == GuardSpec => [][Interrupt => z3ctx]_guardVars
<1>1. GuardInv => [Interrupt => z3ctx]_guardVars
  BY DEF GuardInv, Interrupt
<1> QED BY <1>1, GuardInvariant, PTL

-----------------------------------------------------------------------------
(* The layout: induction over numbers.                                     *)

\* What holds of 0, and of every number up to n whose predecessor it holds of.
LEMMA UpTo ==
    ASSUME NEW n \in Nat, NEW P, 0 \in P, \A i \in 1 .. n : i - 1 \in P => i \in P
    PROVE  \A i \in 0 .. n : i \in P
<1> DEFINE bad == {i \in 0 .. n : i \notin P}
<1>1. bad \subseteq Nat
  OBVIOUS
<1>2. ASSUME bad # {} PROVE FALSE
  <2>1. PICK i \in bad : \A j \in bad : ~(<<j, i>> \in OpToRel(<, Nat))
    <3> HIDE DEF bad
    <3> QED  BY <1>1, <1>2, NatLessThanWellFounded, WFMin
  <2>2. i \in 1 .. n /\ i - 1 \in 0 .. n /\ i - 1 < i /\ i \in Nat /\ i - 1 \in Nat
    OBVIOUS
  <2>3. i - 1 \notin bad
    <3> HIDE DEF bad
    <3> QED  BY <2>1, <2>2 DEF OpToRel
  <2> QED  BY <2>2, <2>3
<1> QED  BY <1>2

-----------------------------------------------------------------------------
(* Sides, reduced to one.                                                  *)

Cmps == {"lt", "gt"}

LEMMA MinMaxType ==
    ASSUME NEW a \in Int, NEW b \in Int, NEW cmp
    PROVE  RealMinMax(a, b, cmp) \in {a, b}
BY DEF RealMinMax

\* Numbers can be reduced as far as one likes.
LEMMA ReducedExists ==
    ASSUME NEW v \in Seq(Int), v # <<>>, NEW cmp
    PROVE  \E f : f = [i \in 1 .. Len(v) |->
                          IF i = 1 THEN v[1] ELSE RealMinMax(f[i - 1], v[i], cmp)]
<1> DEFINE n == Len(v)
           Good(k, f) == \A i \in 1 .. k : f[i] = IF i = 1 THEN v[1] ELSE RealMinMax(f[i - 1], v[i], cmp)
           P == {k \in 0 .. n : \E f : f = [i \in 1 .. k |-> f[i]] /\ Good(k, f)}
<1>1. n \in Nat /\ n > 0 /\ 0 \in 0 .. n /\ n \in 0 .. n
  OBVIOUS
<1>2. 0 \in P
  <2>1. 1 .. 0 = {}
    OBVIOUS
  <2> DEFINE f == [i \in 1 .. 0 |-> 0]
  <2>2. f = [i \in 1 .. 0 |-> f[i]] /\ Good(0, f)
    BY <2>1
  <2> HIDE DEF f, Good, n
  <2> QED  BY <1>1, <2>2
<1>3. ASSUME NEW k \in 1 .. n, k - 1 \in P PROVE k \in P
  <2>1. PICK f : f = [i \in 1 .. k - 1 |-> f[i]] /\ Good(k - 1, f)
    BY <1>3
  <2> DEFINE g == [i \in 1 .. k |-> IF i # k THEN f[i]
                                    ELSE IF k = 1 THEN v[1] ELSE RealMinMax(f[k - 1], v[k], cmp)]
  <2>2. g = [i \in 1 .. k |-> g[i]]
    OBVIOUS
  <2>3. ASSUME NEW i \in 1 .. k
        PROVE  g[i] = IF i = 1 THEN v[1] ELSE RealMinMax(g[i - 1], v[i], cmp)
    <3>1. i # 1 => i - 1 \in 1 .. k /\ i - 1 # k /\ g[i - 1] = f[i - 1]
      OBVIOUS
    <3>2. CASE i = k
      BY <3>1, <3>2
    <3>3. CASE i # k
      <4>1. i \in 1 .. k - 1 /\ g[i] = f[i]
        BY <3>3
      <4> QED  BY <2>1, <3>1, <4>1
    <3> QED  BY <3>2, <3>3
  <2>4. Good(k, g) /\ k \in 0 .. n
    <3> HIDE DEF g
    <3> QED  BY <2>3
  <2> HIDE DEF Good, g, n
  <2> QED  BY <2>2, <2>4
<1>4. n \in P
  <2>1. \A i \in 0 .. n : i \in P
    <3> HIDE DEF P, n
    <3> QED  BY <1>1, <1>2, <1>3, UpTo
  <2> HIDE DEF P, n
  <2> QED  BY <1>1, <2>1
<1>5. PICK f : f = [i \in 1 .. n |-> f[i]] /\ Good(n, f)
  BY <1>4
<1>6. f = [i \in 1 .. n |-> IF i = 1 THEN v[1] ELSE RealMinMax(f[i - 1], v[i], cmp)]
  <2> HIDE DEF n
  <2> QED  BY <1>5
<1> QED  BY <1>6

\* Reduced with "lt", numbers are the least of them; with "gt", the greatest.
LEMMA ReducedIsExtreme ==
    ASSUME NEW v \in Seq(Int), v # <<>>, NEW cmp \in Cmps
    PROVE  \E k \in 1 .. Len(v) :
              /\ Reduced(v, cmp) = v[k]
              /\ \A j \in 1 .. Len(v) : IF cmp = "lt" THEN v[k] <= v[j] ELSE v[k] >= v[j]
<1> DEFINE n == Len(v)
           d(f) == [i \in 1 .. Len(v) |->
                       IF i = 1 THEN v[1] ELSE RealMinMax(f[i - 1], v[i], cmp)]
           acc == CHOOSE f : f = d(f)
           Extreme(x, m) == /\ \E k \in 1 .. m : x = v[k]
                            /\ \A j \in 1 .. m : IF cmp = "lt" THEN x <= v[j] ELSE x >= v[j]
           P == {i \in 0 .. n : i = 0 \/ Extreme(acc[i], i)}
<1>1. n \in Nat /\ n > 0 /\ n \in 0 .. n /\ 0 \in 0 .. n /\ \A i \in 1 .. n : v[i] \in Int
  OBVIOUS
<1>2. acc = d(acc)
  <2>1. \E f : f = d(f)
    BY ReducedExists
  <2> HIDE DEF d
  <2> QED  BY <2>1
<1>3. Reduced(v, cmp) = acc[n]
  BY DEF Reduced
<1> HIDE DEF acc
<1>4. \A i \in 1 .. n : acc[i] = IF i = 1 THEN v[1] ELSE RealMinMax(acc[i - 1], v[i], cmp)
  <2>1. \A i \in 1 .. n : d(acc)[i] = IF i = 1 THEN v[1] ELSE RealMinMax(acc[i - 1], v[i], cmp)
    OBVIOUS
  <2> HIDE DEF d
  <2> QED  BY <1>2, <2>1
<1> HIDE DEF n, d
<1>5. 0 \in P
  BY <1>1
<1>6. ASSUME NEW i \in 1 .. n, i - 1 \in P PROVE i \in P
  <2>1. i \in 0 .. n /\ i \in Nat /\ v[i] \in Int /\ i \in 1 .. i
    BY <1>1
  <2>2. CASE i = 1
    <3>1. acc[1] = v[1] /\ \A j \in 1 .. 1 : j = 1
      BY <1>4, <2>2
    <3>2. Extreme(acc[1], 1)
      BY <2>1, <2>2, <3>1
    <3> HIDE DEF Extreme
    <3> QED  BY <2>1, <2>2, <3>2
  <2>3. CASE i # 1
    <3> DEFINE x == acc[i - 1]
    <3>1. Extreme(x, i - 1)
      BY <1>1, <1>6, <2>3
    <3>2. PICK k \in 1 .. i - 1 : x = v[k]
      BY <3>1
    <3>3. k \in 1 .. i /\ k \in 1 .. n /\ x \in Int
      BY <1>1, <3>2
    <3>4. acc[i] = RealMinMax(x, v[i], cmp)
      BY <1>4, <2>3
    <3>5. \A j \in 1 .. i : j \in 1 .. i - 1 \/ j = i
      BY <2>1
    <3>6. \A j \in 1 .. i : v[j] \in Int
      BY <1>1
    <3>7. \A j \in 1 .. i - 1 : IF cmp = "lt" THEN x <= v[j] ELSE x >= v[j]
      BY <3>1
    <3> HIDE DEF x
    <3>8. acc[i] \in Int /\ acc[i] \in {x, v[i]}
          /\ IF cmp = "lt" THEN acc[i] <= x /\ acc[i] <= v[i] ELSE acc[i] >= x /\ acc[i] >= v[i]
      BY <2>1, <3>3, <3>4 DEF RealMinMax, Cmps
    <3>9. Extreme(acc[i], i)
      <4>1. \E m \in 1 .. i : acc[i] = v[m]
        BY <2>1, <3>2, <3>3, <3>8
      <4>2. ASSUME NEW j \in 1 .. i PROVE IF cmp = "lt" THEN acc[i] <= v[j] ELSE acc[i] >= v[j]
        BY <3>3, <3>5, <3>6, <3>7, <3>8
      <4> QED  BY <4>1, <4>2
    <3> HIDE DEF Extreme
    <3> QED  BY <2>1, <3>9
  <2> QED  BY <2>2, <2>3
<1>7. n \in P
  <2>1. \A i \in 0 .. n : i \in P
    <3> HIDE DEF P
    <3> QED  BY <1>1, <1>5, <1>6, UpTo
  <2> HIDE DEF P
  <2> QED  BY <1>1, <2>1
<1>8. Extreme(acc[n], n)
  <2> HIDE DEF Extreme
  <2> QED  BY <1>1, <1>7
<1> QED  BY <1>3, <1>8 DEF n

-----------------------------------------------------------------------------
(* What an application builds.                                             *)

Sides == {"left", "right"}

SideReals == [type : {"boxProperty"}, id_index : Nat, property : Sides] \cup [type : {"metricRef"}, index : Nat]

Reals == SideReals \cup [type : {"const"}, value : Int \cup {NotReal}] \cup [type : {"avg"}, left : SideReals, right : SideReals]

Comparisons == [type : {"eq", "le", "ge"}, left : Reals, right : Reals]

Props == Comparisons \cup [type : {"or"}, left : Comparisons, right : Comparisons]

Intents ==
    [kind : {"ordered"}, of : Nat] \cup [kind : {"aligned"}, of : Nat \X Nat, axis : Axes]
        \cup [kind : {"pinned"}, of : Nat, side : Sides, at : Int \cup {NotReal}]
        \cup [kind : {"apart"}, of : Nat \X Nat]

LayoutTypeOK ==
    /\ objs \in Seq([children : Seq(Nat), index : Nat, left : SideReals, right : SideReals])
    /\ boxes \in Nat
    /\ metrics \in Seq([type : {"reduce"}, cmp : Cmps, of : Seq(SideReals)])
    /\ constraints \in Seq([weight : Weights \cup {0}, prop : Props])
    /\ intent \in Seq(Intents)

\* An object is a box, whose sides are its own,
Plain(o) ==
    /\ objs[o].children = <<>> /\ objs[o].index \in 1 .. boxes
    /\ objs[o].left = BoxProperty(objs[o].index, "left")
    /\ objs[o].right = BoxProperty(objs[o].index, "right")

\* or made of objects before it, and its sides are the metrics reduced from theirs
Combination(o) ==
    /\ objs[o].children \in Seq(1 .. o - 1) \ {<<>>}
    /\ \E k \in 1 .. Len(metrics) :
          /\ k + 1 \in 1 .. Len(metrics)
          /\ objs[o].left = MetricRef(k) /\ objs[o].right = MetricRef(k + 1)
          /\ metrics[k] = Extent(objs[o].children, "left", "lt")
          /\ metrics[k + 1] = Extent(objs[o].children, "right", "gt")

\* The proposition that stands for what was meant
Expresses(p, m) ==
    \/ /\ m.kind = "ordered" /\ m.of \in 1 .. Len(objs)
       /\ p = RealCmp("ge", objs[m.of].right, objs[m.of].left)
    \/ /\ m.kind = "aligned" /\ m.of[1] \in 1 .. Len(objs) /\ m.of[2] \in 1 .. Len(objs) /\ m.axis \in Axes
       /\ p = RealCmp("eq", Axis(m.of[1], m.axis), Axis(m.of[2], m.axis))
    \/ /\ m.kind = "pinned" /\ m.of \in 1 .. Len(objs) /\ m.side \in Sides /\ m.at \in Int \cup {NotReal}
       /\ p = RealCmp("eq", objs[m.of][m.side], Const(m.at))
    \/ /\ m.kind = "apart" /\ m.of[1] \in 1 .. Len(objs) /\ m.of[2] \in 1 .. Len(objs)
       /\ p = PropLogic("or", RealCmp("le", objs[m.of[1]].right, objs[m.of[2]].left),
                              RealCmp("le", objs[m.of[2]].right, objs[m.of[1]].left))

ObjsInv == \A o \in 1 .. Len(objs) : Plain(o) \/ Combination(o)

ConstraintsInv ==
    /\ Len(intent) = Len(constraints)
    /\ \A c \in 1 .. Len(constraints) : Expresses(constraints[c].prop, intent[c])

\* A request is solved as it was built, unless it is refused
ResultInv ==
    /\ pc \in {"spawned", "check", "abort", "recv", "answer"} => ~Refused
    /\ result.status = "sat" =>
          /\ pc = "done" /\ ~Refused
          /\ result.boxes \in Feasible /\ result.unsat = Unsat(Sat(result.boxes))

RequestInv == LayoutTypeOK /\ ObjsInv /\ ConstraintsInv

LayoutInv == RequestInv /\ ResultInv

-----------------------------------------------------------------------------
(* What a request means.                                                   *)

LEMMA MinIs ==
    ASSUME NEW S \in SUBSET Int, NEW x \in S, \A y \in S : x <= y
    PROVE  Min(S) = x
<1>1. \A z \in S : (\A y \in S : z <= y) => z = x
  OBVIOUS
<1> QED  BY <1>1 DEF Min

LEMMA MaxIs ==
    ASSUME NEW S \in SUBSET Int, NEW x \in S, \A y \in S : x >= y
    PROVE  Max(S) = x
<1>1. \A z \in S : (\A y \in S : z >= y) => z = x
  OBVIOUS
<1> QED  BY <1>1 DEF Max

LEMMA OneExtreme ==
    ASSUME NEW x \in Int, NEW y \in Int
    PROVE  Min({x}) = x /\ Max({y}) = y
BY DEF Min, Max

\* What is not refused is a box, or made of boxes.
LEMMA ChildrenArePlain ==
    ASSUME RequestInv, ~Refused, NEW o \in 1 .. Len(objs), ~Plain(o)
    PROVE  /\ Combination(o)
           /\ \A i \in 1 .. Len(objs[o].children) :
                 objs[o].children[i] \in 1 .. Len(objs) /\ Plain(objs[o].children[i])
<1>1. Combination(o)
  BY DEF RequestInv, ObjsInv
<1> DEFINE ch == objs[o].children
<1>2. ch \in Seq(1 .. o - 1) /\ DOMAIN ch = 1 .. Len(ch)
  BY <1>1 DEF Combination
<1>3. PICK k \in 1 .. Len(metrics) : metrics[k] = Extent(ch, "left", "lt")
  BY <1>1 DEF Combination
<1>4. ASSUME NEW i \in 1 .. Len(ch) PROVE ch[i] \in 1 .. Len(objs) /\ Plain(ch[i])
  <2>1. ch[i] \in 1 .. o - 1
    <3> HIDE DEF ch
    <3> QED  BY <1>2
  <2>2. ch[i] \in 1 .. Len(objs)
    BY <2>1
  <2>3. Plain(ch[i]) \/ Combination(ch[i])
    BY <2>2 DEF RequestInv, ObjsInv
  <2>4. CASE Combination(ch[i])
    <3>1. objs[ch[i]].left.type = "metricRef"
      BY <2>4 DEF Combination, MetricRef
    <3>2. metrics[k].of = [j \in 1 .. Len(ch) |-> objs[ch[j]]["left"]]
      BY <1>2, <1>3 DEF Extent
    <3>3. i \in DOMAIN metrics[k].of /\ metrics[k].of[i].type = "metricRef" /\ k \in DOMAIN metrics
      <4>1. k \in DOMAIN metrics
        BY DEF RequestInv, LayoutTypeOK
      <4> QED  BY <3>1, <3>2, <4>1
    <3> QED  BY <3>3 DEF Refused
  <2> QED  BY <2>2, <2>3, <2>4
<1> QED  BY <1>1, <1>4

\* The boxes it covers are then its own, or those it is made of.
LEMMA LeavesFacts ==
    ASSUME RequestInv, ~Refused, NEW o \in 1 .. Len(objs)
    PROVE  Leaves[o] = IF Plain(o) THEN {objs[o].index}
                       ELSE {objs[objs[o].children[i]].index : i \in 1 .. Len(objs[o].children)}
<1> DEFINE d(f) == [p \in DOMAIN objs |->
                       IF objs[p].children = <<>> THEN {objs[p].index}
                       ELSE UNION {f[c] : c \in Range(objs[p].children)}]
           of(p) == {objs[objs[p].children[i]].index : i \in 1 .. Len(objs[p].children)}
           leaves == CHOOSE f : f = d(f)
           h == [p \in DOMAIN objs |-> IF objs[p].children = <<>> THEN {objs[p].index} ELSE of(p)]
<1>1. DOMAIN objs = 1 .. Len(objs) /\ o \in DOMAIN objs
  BY DEF RequestInv, LayoutTypeOK
<1>2. ASSUME NEW p \in DOMAIN objs PROVE (objs[p].children = <<>>) <=> Plain(p)
  <2>1. Plain(p) \/ Combination(p)
    BY <1>1, <1>2 DEF RequestInv, ObjsInv
  <2> QED  BY <2>1 DEF Plain, Combination
<1>3. ASSUME NEW p \in DOMAIN objs, objs[p].children # <<>>,
             NEW f, \A q \in DOMAIN objs : Plain(q) => f[q] = {objs[q].index}
      PROVE  UNION {f[c] : c \in Range(objs[p].children)} = of(p)
  <2> DEFINE ch == objs[p].children
  <2>1. ~Plain(p) /\ p \in 1 .. Len(objs)
    BY <1>1, <1>2, <1>3
  <2>2. \A i \in 1 .. Len(ch) : ch[i] \in DOMAIN objs /\ Plain(ch[i])
    BY <1>1, <2>1, ChildrenArePlain
  <2>3. DOMAIN ch = 1 .. Len(ch)
    BY <1>1 DEF RequestInv, LayoutTypeOK
  <2>4. Range(ch) = {ch[i] : i \in 1 .. Len(ch)}
    BY <2>3 DEF Range
  <2>5. \A i \in 1 .. Len(ch) : f[ch[i]] = {objs[ch[i]].index}
    BY <1>3, <2>2
  <2> HIDE DEF ch
  <2>6. UNION {f[c] : c \in Range(ch)} = {objs[ch[i]].index : i \in 1 .. Len(ch)}
    <3>1. ASSUME NEW x \in UNION {f[c] : c \in Range(ch)}
          PROVE  x \in {objs[ch[i]].index : i \in 1 .. Len(ch)}
      <4>1. PICK c \in Range(ch) : x \in f[c]
        BY <3>1
      <4>2. PICK i \in 1 .. Len(ch) : c = ch[i]
        BY <2>4
      <4> QED  BY <2>5, <4>1, <4>2
    <3>2. ASSUME NEW i \in 1 .. Len(ch) PROVE objs[ch[i]].index \in UNION {f[c] : c \in Range(ch)}
      <4>1. ch[i] \in Range(ch) /\ objs[ch[i]].index \in f[ch[i]]
        BY <2>4, <2>5
      <4> QED  BY <4>1
    <3> QED  BY <3>1, <3>2
  <2> QED  BY <2>6 DEF ch
<1>4. \E f : f = d(f)
  <2>1. \A q \in DOMAIN objs : Plain(q) => h[q] = {objs[q].index}
    BY <1>2
  <2>2. \A p \in DOMAIN objs : objs[p].children # <<>> =>
           UNION {h[c] : c \in Range(objs[p].children)} = of(p)
    <3> HIDE DEF h, of
    <3> QED  BY <1>3, <2>1
  <2>3. h = d(h)
    <3>1. \A p \in DOMAIN objs : h[p] = d(h)[p]
      <4> HIDE DEF of
      <4>1. \A p \in DOMAIN objs : h[p] = IF objs[p].children = <<>> THEN {objs[p].index} ELSE of(p)
        OBVIOUS
      <4> HIDE DEF h
      <4> QED  BY <2>2, <4>1
    <3>2. h = [p \in DOMAIN objs |-> h[p]] /\ d(h) = [p \in DOMAIN objs |-> d(h)[p]]
      OBVIOUS
    <3> HIDE DEF h, d
    <3> QED  BY <3>1, <3>2
  <2> HIDE DEF h, d
  <2> QED  BY <2>3
<1>5. leaves = d(leaves)
  <2> HIDE DEF d
  <2> QED  BY <1>4
<1>6. Leaves = leaves
  BY DEF Leaves
<1> HIDE DEF leaves
<1>7. \A p \in DOMAIN objs : leaves[p] = IF objs[p].children = <<>> THEN {objs[p].index}
                                         ELSE UNION {leaves[c] : c \in Range(objs[p].children)}
  <2>1. \A p \in DOMAIN objs : d(leaves)[p] = IF objs[p].children = <<>> THEN {objs[p].index}
                                         ELSE UNION {leaves[c] : c \in Range(objs[p].children)}
    OBVIOUS
  <2> HIDE DEF d
  <2> QED  BY <1>5, <2>1
<1> HIDE DEF d, h
<1>8. \A q \in DOMAIN objs : Plain(q) => leaves[q] = {objs[q].index}
  BY <1>2, <1>7
<1>9. CASE Plain(o)
  BY <1>1, <1>6, <1>8, <1>9
<1>10. CASE ~Plain(o)
  <2>1. objs[o].children # <<>>
    BY <1>1, <1>2, <1>10
  <2>2. leaves[o] = of(o)
    <3> HIDE DEF of
    <3>1. UNION {leaves[c] : c \in Range(objs[o].children)} = of(o)
      BY <1>1, <1>3, <1>8, <2>1
    <3> QED  BY <1>1, <1>7, <2>1, <3>1
  <2> QED  BY <1>6, <1>10, <2>2
<1> QED  BY <1>9, <1>10

LEMMA GeometryType ==
    ASSUME NEW g \in Geometry, NEW i \in 1 .. boxes, NEW side \in Sides
    PROVE  g[i][side] \in Int
BY CoordAssumption DEF Geometry, Sides

Ends(o, side, g) == {g[i][side] : i \in Leaves[o]}

\* The metric of a combined box is an extreme of its boxes.
LEMMA Hull ==
    ASSUME RequestInv, ~Refused, NEW o \in 1 .. Len(objs), ~Plain(o), NEW g \in Geometry,
           NEW side \in Sides, NEW cmp \in Cmps
    PROVE  /\ Ends(o, side, g) \in SUBSET Int
           /\ \E x \in Ends(o, side, g) :
                 /\ MetricValue(Extent(objs[o].children, side, cmp), g) = 2 * x
                 /\ \A y \in Ends(o, side, g) : IF cmp = "lt" THEN x <= y ELSE x >= y
<1> DEFINE ch == objs[o].children
           n == Len(ch)
           at(i) == g[objs[ch[i]].index][side]
           v == [i \in 1 .. n |-> 2 * at(i)]
           m == Extent(ch, side, cmp)
<1>1. ch \in Seq(1 .. o - 1) /\ ch # <<>>
  BY ChildrenArePlain DEF Combination
<1>2. n \in Nat /\ n > 0 /\ DOMAIN ch = 1 .. n
  <2> HIDE DEF ch
  <2> QED  BY <1>1
<1>3. \A i \in 1 .. n : Plain(ch[i])
  BY ChildrenArePlain
<1>4. \A i \in 1 .. n : at(i) \in Int
  BY <1>3, GeometryType DEF Plain
<1>5. Ends(o, side, g) = {at(i) : i \in 1 .. n}
  <2>1. Leaves[o] = {objs[ch[i]].index : i \in 1 .. n}
    BY LeavesFacts
  <2> HIDE DEF ch, n
  <2> QED  BY <2>1 DEF Ends
<1>6. v \in Seq(Int) /\ v # <<>> /\ Len(v) = n
  <2> HIDE DEF at, n
  <2>1. \A i \in 1 .. n : 2 * at(i) \in Int
    BY <1>4
  <2> QED  BY <1>2, <2>1
<1>7. m.cmp = cmp /\ DOMAIN m.of = 1 .. n /\ \A i \in 1 .. n : m.of[i] = objs[ch[i]][side]
  BY <1>2 DEF Extent
<1>8. ASSUME NEW i \in 1 .. n PROVE BasicValue(m.of[i], g) = 2 * at(i)
  <2>1. objs[ch[i]][side] = BoxProperty(objs[ch[i]].index, side)
    BY <1>3 DEF Plain, Sides
  <2>2. m.of[i] = BoxProperty(objs[ch[i]].index, side)
    BY <1>7, <2>1
  <2> HIDE DEF m, ch
  <2> QED  BY <2>2 DEF BasicValue, BoxProperty
<1>9. [i \in DOMAIN m.of |-> BasicValue(m.of[i], g)] = v
  <2> HIDE DEF m, n, at
  <2> QED  BY <1>7, <1>8
<1>10. MetricValue(m, g) = Reduced(v, cmp)
  <2> HIDE DEF m, v
  <2> QED  BY <1>7, <1>9 DEF MetricValue
<1>11. PICK k \in 1 .. n : /\ Reduced(v, cmp) = v[k]
                           /\ \A j \in 1 .. n : IF cmp = "lt" THEN v[k] <= v[j] ELSE v[k] >= v[j]
  <2> HIDE DEF v, n
  <2> QED  BY <1>6, ReducedIsExtreme
<1>12. MetricValue(m, g) = 2 * at(k)
  <2> HIDE DEF m, at, n
  <2> QED  BY <1>10, <1>11
<1>13. \A j \in 1 .. n : IF cmp = "lt" THEN at(k) <= at(j) ELSE at(k) >= at(j)
  <2> HIDE DEF at, n
  <2> QED  BY <1>4, <1>11
<1> HIDE DEF at, m, n, v
<1>14. Ends(o, side, g) \in SUBSET Int
  BY <1>4, <1>5
<1>15. at(k) \in Ends(o, side, g)
  BY <1>5
<1>16. \A y \in Ends(o, side, g) : IF cmp = "lt" THEN at(k) <= y ELSE at(k) >= y
  BY <1>5, <1>13
<1> QED  BY <1>12, <1>14, <1>15, <1>16 DEF m

\* What z3 takes a side of an object to mean is where the object is.
LEMMA SideMeans ==
    ASSUME RequestInv, ~Refused, NEW o \in 1 .. Len(objs), NEW g \in Geometry
    PROVE  \E from, to \in Int :
              /\ SideValue(objs[o].left, g) = 2 * from /\ SideValue(objs[o].right, g) = 2 * to
              /\ Place(o, "left", g) = 2 * from /\ Place(o, "right", g) = 2 * to
              /\ Place(o, "middle", g) = from + to
<1> DEFINE from == Min(Ends(o, "left", g))
           to == Max(Ends(o, "right", g))
<1>1. "left" \in Sides /\ "right" \in Sides /\ "lt" \in Cmps /\ "gt" \in Cmps /\ "gt" # "lt"
  BY DEF Sides, Cmps
<1>2. /\ from \in Int /\ to \in Int
      /\ SideValue(objs[o].left, g) = 2 * from /\ SideValue(objs[o].right, g) = 2 * to
  <2>1. CASE Plain(o)
    <3> DEFINE i == objs[o].index
    <3>1. Leaves[o] = {i} /\ i \in 1 .. boxes
      BY <2>1, LeavesFacts DEF Plain
    <3>2. Ends(o, "left", g) = {g[i]["left"]} /\ Ends(o, "right", g) = {g[i]["right"]}
      BY <3>1 DEF Ends
    <3>3. g[i]["left"] \in Int /\ g[i]["right"] \in Int
      BY <1>1, <3>1, GeometryType
    <3> HIDE DEF i
    <3>4. Min({g[i]["left"]}) = g[i]["left"] /\ Max({g[i]["right"]}) = g[i]["right"]
      BY <3>3, OneExtreme
    <3>5. from = g[i]["left"] /\ to = g[i]["right"]
      BY <3>2, <3>4
    <3>6. objs[o].left = BoxProperty(i, "left") /\ objs[o].right = BoxProperty(i, "right")
      BY <2>1 DEF Plain, i
    <3>7. SideValue(objs[o].left, g) = 2 * g[i]["left"] /\ SideValue(objs[o].right, g) = 2 * g[i]["right"]
      BY <3>6 DEF SideValue, BasicValue, BoxProperty
    <3> QED  BY <3>3, <3>5, <3>7
  <2>2. CASE ~Plain(o)
    <3>1. PICK k \in 1 .. Len(metrics) :
             /\ objs[o].left = MetricRef(k) /\ objs[o].right = MetricRef(k + 1)
             /\ metrics[k] = Extent(objs[o].children, "left", "lt")
             /\ metrics[k + 1] = Extent(objs[o].children, "right", "gt")
      BY <2>2, ChildrenArePlain DEF Combination
    <3>2. SideValue(objs[o].left, g) = MetricValue(Extent(objs[o].children, "left", "lt"), g)
      BY <3>1 DEF SideValue, MetricRef
    <3>3. SideValue(objs[o].right, g) = MetricValue(Extent(objs[o].children, "right", "gt"), g)
      BY <3>1 DEF SideValue, MetricRef
    <3> DEFINE S == Ends(o, "left", g)
               T == Ends(o, "right", g)
    <3>4. S \in SUBSET Int /\ \E x \in S :
             SideValue(objs[o].left, g) = 2 * x /\ \A y \in S : x <= y
      <4>1. \E x \in S : /\ MetricValue(Extent(objs[o].children, "left", "lt"), g) = 2 * x
                         /\ \A y \in S : IF "lt" = "lt" THEN x <= y ELSE x >= y
        BY <1>1, <2>2, Hull
      <4>2. S \in SUBSET Int
        BY <1>1, <2>2, Hull
      <4> HIDE DEF S
      <4> QED  BY <3>2, <4>1, <4>2
    <3>5. T \in SUBSET Int /\ \E x \in T :
             SideValue(objs[o].right, g) = 2 * x /\ \A y \in T : x >= y
      <4>1. \E x \in T : /\ MetricValue(Extent(objs[o].children, "right", "gt"), g) = 2 * x
                         /\ \A y \in T : IF "gt" = "lt" THEN x <= y ELSE x >= y
        BY <1>1, <2>2, Hull
      <4>2. T \in SUBSET Int
        BY <1>1, <2>2, Hull
      <4> HIDE DEF T
      <4> QED  BY <1>1, <3>3, <4>1, <4>2
    <3> HIDE DEF S, T
    <3>6. from \in Int /\ SideValue(objs[o].left, g) = 2 * from
      <4>1. PICK x \in S : SideValue(objs[o].left, g) = 2 * x /\ \A y \in S : x <= y
        BY <3>4
      <4>2. Min(S) = x
        BY <3>4, <4>1, MinIs
      <4> QED  BY <3>4, <4>1, <4>2 DEF S
    <3>7. to \in Int /\ SideValue(objs[o].right, g) = 2 * to
      <4>1. PICK x \in T : SideValue(objs[o].right, g) = 2 * x /\ \A y \in T : x >= y
        BY <3>5
      <4>2. Max(T) = x
        BY <3>5, <4>1, MaxIs
      <4> QED  BY <3>5, <4>1, <4>2 DEF T
    <3> QED  BY <3>6, <3>7
  <2> QED  BY <2>1, <2>2
<1>3. Place(o, "left", g) = 2 * from /\ Place(o, "right", g) = 2 * to /\ Place(o, "middle", g) = from + to
  BY DEF Place, Ends
<1> HIDE DEF from, to
<1> QED  BY <1>2, <1>3

LEMMA AxisMeans ==
    ASSUME RequestInv, ~Refused, NEW o \in 1 .. Len(objs), NEW g \in Geometry, NEW axis \in Axes
    PROVE  Value(Axis(o, axis), g) = Place(o, axis, g) /\ Place(o, axis, g) \in Int
<1>1. PICK from, to \in Int :
         /\ SideValue(objs[o].left, g) = 2 * from /\ SideValue(objs[o].right, g) = 2 * to
         /\ Place(o, "left", g) = 2 * from /\ Place(o, "right", g) = 2 * to
         /\ Place(o, "middle", g) = from + to
  BY SideMeans
<1>2. objs[o].left.type # "avg" /\ objs[o].right.type # "avg"
  <2>1. Plain(o) \/ Combination(o)
    BY DEF RequestInv, ObjsInv
  <2>2. CASE Plain(o)
    BY <2>2 DEF Plain, BoxProperty
  <2>3. CASE Combination(o)
    BY <2>3 DEF Combination, MetricRef
  <2> QED  BY <2>1, <2>2, <2>3
<1>3. CASE axis = "middle"
  <2>1. Axis(o, axis) = RealAvg(objs[o].left, objs[o].right)
    BY <1>3 DEF Axis
  <2>2. Value(Axis(o, axis), g) = (2 * from + 2 * to) \div 2
    BY <1>1, <2>1 DEF Value, RealAvg
  <2>3. (2 * from + 2 * to) \div 2 = from + to
    OBVIOUS
  <2> QED  BY <1>1, <1>3, <2>2, <2>3
<1>4. CASE axis = "left"
  BY <1>1, <1>2, <1>4 DEF Axis, Value
<1>5. CASE axis = "right"
  BY <1>1, <1>2, <1>5 DEF Axis, Value
<1> QED  BY <1>3, <1>4, <1>5 DEF Axes

\* A proposition holds in a geometry that does what was meant.
LEMMA HoldsMeans ==
    ASSUME RequestInv, ~Refused, NEW c \in 1 .. Len(constraints), NEW g \in Geometry
    PROVE  Holds(constraints[c].prop, g) <=> Meant(c, g)
<1> DEFINE p == constraints[c].prop
           m == intent[c]
<1>1. Expresses(p, m)
  BY DEF RequestInv, ConstraintsInv
<1>2. "left" \in Axes /\ "right" \in Axes
  BY DEF Axes
<1>3. ASSUME NEW o \in 1 .. Len(objs), NEW side \in Sides
      PROVE  Value(objs[o][side], g) = Place(o, side, g)
  <2>1. side \in Axes /\ Axis(o, side) = objs[o][side]
    BY DEF Sides, Axes, Axis
  <2> QED  BY <2>1, AxisMeans
<1>4. \A o \in 1 .. Len(objs) : /\ Value(objs[o].left, g) = Place(o, "left", g)
                                /\ Value(objs[o].right, g) = Place(o, "right", g)
                                /\ Place(o, "left", g) \in Int /\ Place(o, "right", g) \in Int
  BY <1>2, <1>3, AxisMeans DEF Sides
<1> HIDE DEF p
<1>5. CASE /\ m.kind = "ordered" /\ m.of \in 1 .. Len(objs)
           /\ p = RealCmp("ge", objs[m.of].right, objs[m.of].left)
  <2>1. Holds(p, g) <=> Place(m.of, "right", g) >= Place(m.of, "left", g)
    BY <1>4, <1>5 DEF Holds, Compares, RealCmp
  <2>2. Place(m.of, "right", g) \in Int /\ Place(m.of, "left", g) \in Int
    BY <1>4, <1>5
  <2>3. Meant(c, g) <=> Place(m.of, "left", g) <= Place(m.of, "right", g)
    BY <1>5 DEF Meant
  <2> HIDE DEF m
  <2> QED  BY <2>1, <2>2, <2>3 DEF p
<1>6. CASE /\ m.kind = "aligned" /\ m.of[1] \in 1 .. Len(objs) /\ m.of[2] \in 1 .. Len(objs)
           /\ m.axis \in Axes
           /\ p = RealCmp("eq", Axis(m.of[1], m.axis), Axis(m.of[2], m.axis))
  <2>1. /\ Value(Axis(m.of[1], m.axis), g) = Place(m.of[1], m.axis, g)
        /\ Value(Axis(m.of[2], m.axis), g) = Place(m.of[2], m.axis, g)
    BY <1>6, AxisMeans
  <2>2. Holds(p, g) <=> Place(m.of[1], m.axis, g) = Place(m.of[2], m.axis, g)
    BY <1>6, <2>1 DEF Holds, Compares, RealCmp
  <2>3. Meant(c, g) <=> Place(m.of[1], m.axis, g) = Place(m.of[2], m.axis, g)
    BY <1>6 DEF Meant
  <2> QED  BY <2>2, <2>3 DEF p
<1>7. CASE /\ m.kind = "pinned" /\ m.of \in 1 .. Len(objs) /\ m.side \in Sides /\ m.at \in Int \cup {NotReal}
           /\ p = RealCmp("eq", objs[m.of][m.side], Const(m.at))
  <2>1. Value(objs[m.of][m.side], g) = Place(m.of, m.side, g)
    BY <1>3, <1>7
  <2>2. Value(Const(m.at), g) = 2 * Fraction(m.at)
    BY DEF Value, SideValue, BasicValue, Const
  <2>3. Holds(p, g) <=> Place(m.of, m.side, g) = 2 * Fraction(m.at)
    BY <1>7, <2>1, <2>2 DEF Holds, Compares, RealCmp
  <2>4. m.at \in Int
    <3>1. p.right = Const(m.at)
      BY <1>7 DEF RealCmp
    <3>2. Const(m.at) # Const(NotReal)
      BY <3>1 DEF Refused, p, RequestInv, LayoutTypeOK
    <3> QED  BY <1>7, <3>2
  <2>5. Fraction(m.at) = IF m.at >= 0 THEN m.at ELSE -m.at
    BY <2>4 DEF Fraction
  <2>6. Meant(c, g) <=> Place(m.of, m.side, g) = 2 * Fraction(m.at)
    BY <1>7, <2>5 DEF Meant
  <2> QED  BY <2>3, <2>6 DEF p
<1>8. CASE /\ m.kind = "apart" /\ m.of[1] \in 1 .. Len(objs) /\ m.of[2] \in 1 .. Len(objs)
           /\ p = PropLogic("or", RealCmp("le", objs[m.of[1]].right, objs[m.of[2]].left),
                                  RealCmp("le", objs[m.of[2]].right, objs[m.of[1]].left))
  <2> DEFINE a == m.of[1]
             b == m.of[2]
  <2>1. ASSUME NEW x, NEW y
        PROVE  Compares(RealCmp("le", x, y), g) <=> Value(x, g) <= Value(y, g)
    BY DEF Compares, RealCmp
  <2>2. Holds(p, g) <=> \/ Compares(RealCmp("le", objs[a].right, objs[b].left), g)
                        \/ Compares(RealCmp("le", objs[b].right, objs[a].left), g)
    BY <1>8 DEF Holds, PropLogic
  <2>3. Meant(c, g) <=> \/ Place(a, "right", g) <= Place(b, "left", g)
                        \/ Place(b, "right", g) <= Place(a, "left", g)
    BY <1>8 DEF Meant
  <2> HIDE DEF m
  <2> QED  BY <1>4, <1>8, <2>1, <2>2, <2>3 DEF p
<1> QED  BY <1>1, <1>5, <1>6, <1>7, <1>8 DEF Expresses

LEMMA AnswerIsMeant == LayoutInv => AnswerIsWhatWasMeant
<1> SUFFICES ASSUME LayoutInv, result.status = "sat", NEW c \in DOMAIN constraints
             PROVE  /\ constraints[c].weight = 0 => Meant(c, result.boxes)
                    /\ constraints[c] \in result.unsat <=> ~Meant(c, result.boxes)
  BY DEF AnswerIsWhatWasMeant
<1> DEFINE g == result.boxes
<1>1. RequestInv /\ ~Refused /\ g \in Feasible /\ result.unsat = Unsat(Sat(g))
  BY DEF LayoutInv, ResultInv
<1>2. DOMAIN constraints = 1 .. Len(constraints)
  BY <1>1 DEF RequestInv, LayoutTypeOK
<1>3. g \in Geometry /\ \A d \in DOMAIN constraints : Hard(d) => Holds(constraints[d].prop, g)
  BY <1>1 DEF Feasible
<1> HIDE DEF g
<1>4. \A d \in DOMAIN constraints : Holds(constraints[d].prop, g) <=> Meant(d, g)
  BY <1>1, <1>2, <1>3, HoldsMeans
<1>5. constraints[c].weight = 0 => Meant(c, g)
  BY <1>3, <1>4 DEF Hard
<1>6. \A d \in DOMAIN constraints : Sat(g)[d] <=> Holds(constraints[d].prop, g)
  BY DEF Sat
<1>7. DOMAIN Sat(g) = DOMAIN constraints
  BY DEF Sat
<1>8. constraints[c] \in Unsat(Sat(g)) <=> ~Meant(c, g)
  <2>1. constraints[c] \in Unsat(Sat(g)) <=>
           \E d \in DOMAIN constraints : constraints[d] = constraints[c] /\ ~Holds(constraints[d].prop, g)
    BY <1>6, <1>7 DEF Unsat
  <2> QED  BY <1>4, <2>1
<1> QED  BY <1>1, <1>5, <1>8 DEF g

-----------------------------------------------------------------------------
(* A request grows.                                                        *)

Grows(s, t) == Len(s) <= Len(t) /\ \A i \in 1 .. Len(s) : t[i] = s[i]

LEMMA AppendGrows ==
    ASSUME NEW S, NEW s \in Seq(S), NEW x \in S
    PROVE  /\ Append(s, x) \in Seq(S) /\ Grows(s, Append(s, x))
           /\ Len(Append(s, x)) = Len(s) + 1 /\ Append(s, x)[Len(s) + 1] = x
           /\ \A i \in 1 .. Len(s) + 1 : i \in 1 .. Len(s) \/ i = Len(s) + 1
BY DEF Grows

LEMMA ConcatGrows ==
    ASSUME NEW S, NEW s \in Seq(S), NEW t \in Seq(S)
    PROVE  /\ s \o t \in Seq(S) /\ Grows(s, s \o t) /\ Len(s \o t) = Len(s) + Len(t)
           /\ \A i \in 1 .. Len(s) + Len(t) :
                 i \in 1 .. Len(s) \/ (i - Len(s) \in 1 .. Len(t) /\ (s \o t)[i] = t[i - Len(s)])
BY DEF Grows

LEMMA ObjectFacts ==
    ASSUME RequestInv, NEW o \in 1 .. Len(objs)
    PROVE  /\ objs[o].children \in Seq(1 .. Len(objs))
           /\ \A i \in 1 .. Len(objs[o].children) : objs[o].children[i] \in 1 .. o - 1
           /\ \A side \in Sides : objs[o][side] \in SideReals
<1>1. Len(objs) \in Nat /\ objs[o].left \in SideReals /\ objs[o].right \in SideReals
  <2> DEFINE S == [children : Seq(Nat), index : Nat, left : SideReals, right : SideReals]
  <2>1. objs \in Seq(S)
    BY DEF RequestInv, LayoutTypeOK
  <2>2. Len(objs) \in Nat /\ objs[o] \in S
    <3> HIDE DEF S
    <3> QED  BY <2>1
  <2> HIDE DEF SideReals
  <2> QED  BY <2>2
<1>2. Plain(o) \/ Combination(o)
  BY DEF RequestInv, ObjsInv
<1>3. objs[o].children \in Seq(1 .. o - 1)
  <2>1. CASE Plain(o)
    BY <2>1 DEF Plain
  <2>2. CASE Combination(o)
    BY <2>2 DEF Combination
  <2> QED  BY <1>2, <2>1, <2>2
<1>4. 1 .. o - 1 \subseteq 1 .. Len(objs)
  BY <1>1
<1>5. objs[o].children \in Seq(1 .. Len(objs))
  BY <1>3, <1>4
<1>6. \A i \in 1 .. Len(objs[o].children) : objs[o].children[i] \in 1 .. o - 1
  BY <1>3
<1> QED  BY <1>1, <1>5, <1>6 DEF Sides

\* What stands for what was meant goes on to do so.
LEMMA GoesOnExpressing ==
    ASSUME RequestInv, Grows(objs, objs'), Len(objs') \in Nat, NEW p, NEW m, Expresses(p, m)
    PROVE  Expresses(p, m)'
<1>1. \A o \in 1 .. Len(objs) : o \in 1 .. Len(objs') /\ objs'[o] = objs[o]
  BY DEF Grows, RequestInv, LayoutTypeOK
<1>2. \A o \in 1 .. Len(objs) : \A axis : Axis(o, axis)' = Axis(o, axis)
  BY <1>1 DEF Axis
<1>3. CASE /\ m.kind = "ordered" /\ m.of \in 1 .. Len(objs)
           /\ p = RealCmp("ge", objs[m.of].right, objs[m.of].left)
  BY <1>1, <1>3 DEF Expresses
<1>4. CASE /\ m.kind = "aligned" /\ m.of[1] \in 1 .. Len(objs) /\ m.of[2] \in 1 .. Len(objs)
           /\ m.axis \in Axes
           /\ p = RealCmp("eq", Axis(m.of[1], m.axis), Axis(m.of[2], m.axis))
  BY <1>1, <1>2, <1>4 DEF Expresses
<1>5. CASE /\ m.kind = "pinned" /\ m.of \in 1 .. Len(objs) /\ m.side \in Sides /\ m.at \in Int \cup {NotReal}
           /\ p = RealCmp("eq", objs[m.of][m.side], Const(m.at))
  BY <1>1, <1>5 DEF Expresses
<1>6. CASE /\ m.kind = "apart" /\ m.of[1] \in 1 .. Len(objs) /\ m.of[2] \in 1 .. Len(objs)
           /\ p = PropLogic("or", RealCmp("le", objs[m.of[1]].right, objs[m.of[2]].left),
                                  RealCmp("le", objs[m.of[2]].right, objs[m.of[1]].left))
  BY <1>1, <1>6 DEF Expresses
<1> QED  BY <1>3, <1>4, <1>5, <1>6 DEF Expresses

\* An object stays what it is.
LEMMA ObjectStays ==
    ASSUME RequestInv, Grows(objs, objs'), Grows(metrics, metrics'), Len(metrics') \in Nat,
           boxes' \in Nat, boxes <= boxes', NEW o \in 1 .. Len(objs)
    PROVE  Plain(o)' \/ Combination(o)'
<1>1. objs'[o] = objs[o] /\ Len(objs) \in Nat /\ Len(metrics) \in Nat /\ boxes \in Nat
  BY DEF Grows, RequestInv, LayoutTypeOK
<1>2. CASE Plain(o)
  <2>1. 1 .. boxes \subseteq 1 .. boxes'
    BY <1>1
  <2> QED  BY <1>1, <1>2, <2>1 DEF Plain
<1>3. CASE Combination(o)
  <2> DEFINE ch == objs[o].children
  <2>1. /\ DOMAIN ch = 1 .. Len(ch)
        /\ \A i \in 1 .. Len(ch) : ch[i] \in 1 .. Len(objs)
    <3>1. ch \in Seq(1 .. Len(objs))
      BY ObjectFacts
    <3> HIDE DEF ch
    <3> QED  BY <3>1
  <2>2. \A i \in DOMAIN ch : objs'[ch[i]] = objs[ch[i]]
    BY <2>1 DEF Grows
  <2>3. ASSUME NEW side, NEW cmp
        PROVE  Extent(ch, side, cmp) = [type |-> "reduce", cmp |-> cmp,
                                        of |-> [i \in DOMAIN ch |-> objs'[ch[i]][side]]]
    <3> HIDE DEF ch
    <3> QED  BY <2>2 DEF Extent
  <2>4. PICK k \in 1 .. Len(metrics) :
          /\ k + 1 \in 1 .. Len(metrics)
          /\ objs[o].left = MetricRef(k) /\ objs[o].right = MetricRef(k + 1)
          /\ metrics[k] = Extent(ch, "left", "lt")
          /\ metrics[k + 1] = Extent(ch, "right", "gt")
    BY <1>3 DEF Combination
  <2>5. /\ k \in 1 .. Len(metrics') /\ k + 1 \in 1 .. Len(metrics')
        /\ metrics'[k] = metrics[k] /\ metrics'[k + 1] = metrics[k + 1]
    BY <1>1, <2>4 DEF Grows
  <2>6. /\ metrics'[k] = [type |-> "reduce", cmp |-> "lt", of |-> [i \in DOMAIN ch |-> objs'[ch[i]]["left"]]]
        /\ metrics'[k + 1] = [type |-> "reduce", cmp |-> "gt", of |-> [i \in DOMAIN ch |-> objs'[ch[i]]["right"]]]
    <3> HIDE DEF ch
    <3> QED  BY <2>3, <2>4, <2>5
  <2>7. ch \in Seq(1 .. o - 1) \ {<<>>}
    BY <1>3 DEF Combination
  <2>8. Combination(o)'
    BY <1>1, <2>4, <2>5, <2>6, <2>7 DEF Combination, Extent
  <2> QED  BY <2>8
<1> QED  BY <1>2, <1>3 DEF RequestInv, ObjsInv

\* Another constraint that stands for what was meant by it.
LEMMA OneMoreConstraint ==
    ASSUME RequestInv, Grows(objs, objs'), Len(objs') \in Nat,
           NEW w \in Weights \cup {0}, NEW p \in Props, NEW m \in Intents, Expresses(p, m)',
           constraints' = Append(constraints, [weight |-> w, prop |-> p]), intent' = Append(intent, m)
    PROVE  /\ constraints' \in Seq([weight : Weights \cup {0}, prop : Props]) /\ intent' \in Seq(Intents)
           /\ ConstraintsInv'
<1> DEFINE S == [weight : Weights \cup {0}, prop : Props]
           x == [weight |-> w, prop |-> p]
           n == Len(constraints)
<1>1. constraints \in Seq(S) /\ intent \in Seq(Intents) /\ Len(intent) = n /\ x \in S
  BY DEF RequestInv, LayoutTypeOK, ConstraintsInv
<1>2. /\ constraints' \in Seq(S) /\ Grows(constraints, constraints') /\ Len(constraints') = n + 1
      /\ constraints'[n + 1] = x /\ \A i \in 1 .. n + 1 : i \in 1 .. n \/ i = n + 1
  <2> HIDE DEF S, x
  <2> QED  BY <1>1, AppendGrows DEF x
<1>3. /\ intent' \in Seq(Intents) /\ Grows(intent, intent') /\ Len(intent') = n + 1
      /\ intent'[n + 1] = m
  <2> HIDE DEF n
  <2> QED  BY <1>1, AppendGrows
<1>4. ASSUME NEW c \in 1 .. Len(constraints')
      PROVE  Expresses(constraints[c].prop, intent[c])'
  <2>1. CASE c \in 1 .. n
    <3>1. constraints'[c] = constraints[c] /\ intent'[c] = intent[c]
      BY <1>1, <1>2, <1>3, <2>1 DEF Grows
    <3>2. Expresses(constraints[c].prop, intent[c])
      BY <2>1 DEF RequestInv, ConstraintsInv
    <3> DEFINE q == constraints[c].prop
               k == intent[c]
    <3>3. \A y, z : Expresses(y, z) => Expresses(y, z)'
      BY GoesOnExpressing
    <3> QED  BY <3>1, <3>2, <3>3
  <2>2. CASE c = n + 1
    BY <1>2, <1>3, <2>2
  <2> QED  BY <1>2, <2>1, <2>2
<1> HIDE DEF S, x, n
<1>5. ConstraintsInv'
  BY <1>2, <1>3, <1>4 DEF ConstraintsInv
<1> QED  BY <1>2, <1>3, <1>5 DEF S

ObjectRecords == [children : Seq(Nat), index : Nat, left : SideReals, right : SideReals]

MetricRecords == [type : {"reduce"}, cmp : Cmps, of : Seq(SideReals)]

LEMMA SidesAreReals ==
    ASSUME RequestInv, NEW o \in 1 .. Len(objs)
    PROVE  /\ objs[o].left \in Reals /\ objs[o].right \in Reals
           /\ \A axis \in Axes : Axis(o, axis) \in Reals
<1>1. objs[o].left \in SideReals /\ objs[o].right \in SideReals
  BY ObjectFacts DEF Sides
<1>2. SideReals \subseteq Reals
  BY DEF Reals
<1>3. RealAvg(objs[o].left, objs[o].right) \in Reals
  <2> HIDE DEF SideReals
  <2> QED  BY <1>1 DEF RealAvg, Reals
<1>4. \A axis \in Axes : Axis(o, axis) \in Reals
  BY <1>1, <1>2, <1>3 DEF Axis, Axes
<1> QED  BY <1>1, <1>2, <1>4

LEMMA CmpIsProp ==
    ASSUME NEW op \in {"eq", "le", "ge"}, NEW a \in Reals, NEW b \in Reals
    PROVE  RealCmp(op, a, b) \in Comparisons /\ RealCmp(op, a, b) \in Props
BY DEF RealCmp, Comparisons, Props

LEMMA NewBoxInv == ASSUME RequestInv, NewBox PROVE RequestInv'
<1>0. PICK i, n, box, p, m :
         /\ i = boxes + 1 /\ n = Len(objs)
         /\ box = [children |-> <<>>, index |-> i,
                   left |-> BoxProperty(i, "left"), right |-> BoxProperty(i, "right")]
         /\ p = RealCmp("ge", BoxProperty(i, "right"), BoxProperty(i, "left"))
         /\ m = [kind |-> "ordered", of |-> n + 1]
  OBVIOUS
<1>1. /\ objs' = Append(objs, box) /\ constraints' = Append(constraints, [weight |-> 0, prop |-> p])
      /\ intent' = Append(intent, m) /\ boxes' = i /\ metrics' = metrics
  BY <1>0 DEF NewBox
<1>2. objs \in Seq(ObjectRecords) /\ boxes \in Nat /\ i \in Nat /\ n \in Nat /\ metrics \in Seq(MetricRecords)
  BY <1>0 DEF RequestInv, LayoutTypeOK, ObjectRecords, MetricRecords
<1>3. BoxProperty(i, "left") \in SideReals /\ BoxProperty(i, "right") \in SideReals
  BY <1>2 DEF BoxProperty, SideReals, Sides
<1>4. box \in ObjectRecords
  BY <1>0, <1>2, <1>3 DEF ObjectRecords
<1>5. /\ objs' \in Seq(ObjectRecords) /\ Grows(objs, objs') /\ Len(objs') = n + 1 /\ objs'[n + 1] = box
      /\ \A o \in 1 .. n + 1 : o \in 1 .. n \/ o = n + 1
  BY <1>0, <1>1, <1>2, <1>4, AppendGrows
<1>6. Len(objs') \in Nat /\ n + 1 \in 1 .. Len(objs')
  BY <1>2, <1>5
<1>7. p \in Props /\ m \in Intents
  <2>1. SideReals \subseteq Reals
    BY DEF Reals
  <2>2. p \in Props
    BY <1>0, <1>3, <2>1, CmpIsProp
  <2>3. m \in Intents
    BY <1>0, <1>2 DEF Intents
  <2> QED  BY <2>2, <2>3
<1>8. Expresses(p, m)'
  <2>1. p = RealCmp("ge", objs'[n + 1].right, objs'[n + 1].left)
    BY <1>0, <1>5
  <2> QED  BY <1>0, <1>6, <2>1 DEF Expresses
<1>9. /\ constraints' \in Seq([weight : Weights \cup {0}, prop : Props]) /\ intent' \in Seq(Intents)
      /\ ConstraintsInv'
  BY <1>1, <1>5, <1>6, <1>7, <1>8, OneMoreConstraint
<1>10. ObjsInv'
  <2> SUFFICES ASSUME NEW o \in 1 .. Len(objs') PROVE Plain(o)' \/ Combination(o)'
    BY DEF ObjsInv
  <2>1. CASE o \in 1 .. n
    <3>1. Grows(metrics, metrics') /\ Len(metrics') \in Nat /\ boxes' \in Nat /\ boxes <= boxes'
      BY <1>0, <1>1, <1>2 DEF Grows
    <3> QED  BY <1>0, <1>5, <2>1, <3>1, ObjectStays
  <2>2. CASE o = n + 1
    <3>1. i \in 1 .. boxes'
      BY <1>0, <1>1, <1>2
    <3> QED  BY <1>0, <1>5, <2>2, <3>1 DEF Plain
  <2> QED  BY <1>5, <2>1, <2>2
<1> QED  BY <1>1, <1>2, <1>5, <1>9, <1>10 DEF RequestInv, LayoutTypeOK, ObjectRecords, MetricRecords

LEMMA CombineInv ==
    ASSUME RequestInv, NEW children \in Seq(1 .. Len(objs)) \ {<<>>}, Combine(children)
    PROVE  RequestInv'
<1>0. PICK n, k, mleft, mright, more, o :
         /\ n = Len(objs) /\ k = Len(metrics)
         /\ mleft = Extent(children, "left", "lt") /\ mright = Extent(children, "right", "gt")
         /\ more = <<mleft, mright>>
         /\ o = [children |-> children, index |-> 0,
                 left |-> MetricRef(k + 1), right |-> MetricRef(k + 2)]
  OBVIOUS
<1>1. /\ metrics' = metrics \o more /\ objs' = Append(objs, o)
      /\ boxes' = boxes /\ constraints' = constraints /\ intent' = intent
  BY <1>0 DEF Combine
<1>2. objs \in Seq(ObjectRecords) /\ boxes \in Nat /\ n \in Nat /\ metrics \in Seq(MetricRecords) /\ k \in Nat
  BY <1>0 DEF RequestInv, LayoutTypeOK, ObjectRecords, MetricRecords
<1>3. ASSUME NEW side \in Sides, NEW cmp \in Cmps
      PROVE  Extent(children, side, cmp) \in MetricRecords
  <2>1. DOMAIN children = 1 .. Len(children) /\ \A i \in 1 .. Len(children) : children[i] \in 1 .. n
    BY <1>0
  <2>2. \A i \in 1 .. Len(children) : objs[children[i]][side] \in SideReals
    BY <1>0, <2>1, ObjectFacts
  <2> HIDE DEF SideReals
  <2>3. [i \in 1 .. Len(children) |-> objs[children[i]][side]] \in Seq(SideReals)
    BY <2>2
  <2> QED  BY <2>1, <2>3 DEF Extent, MetricRecords
<1>4. mleft \in MetricRecords /\ mright \in MetricRecords
  BY <1>0, <1>3 DEF Sides, Cmps
<1>5. /\ metrics' \in Seq(MetricRecords) /\ Grows(metrics, metrics') /\ Len(metrics') = k + 2
      /\ metrics'[k + 1] = mleft /\ metrics'[k + 2] = mright
  <2>1. more \in Seq(MetricRecords) /\ Len(more) = 2 /\ more[1] = mleft /\ more[2] = mright
    BY <1>0, <1>4
  <2>2. metrics' \in Seq(MetricRecords) /\ Grows(metrics, metrics') /\ Len(metrics') = k + 2
    <3>1. /\ metrics \o more \in Seq(MetricRecords) /\ Grows(metrics, metrics \o more)
          /\ Len(metrics \o more) = Len(metrics) + Len(more)
      <4> HIDE DEF MetricRecords
      <4> QED  BY <1>2, <2>1, ConcatGrows
    <3> QED  BY <1>0, <1>1, <2>1, <3>1
  <2>3. metrics'[k + 1] = more[1] /\ metrics'[k + 2] = more[2]
    BY <1>0, <1>1, <1>2, <2>1
  <2> QED  BY <2>1, <2>2, <2>3
<1>6. o \in ObjectRecords
  <2>1. MetricRef(k + 1) \in SideReals /\ MetricRef(k + 2) \in SideReals
    BY <1>2 DEF MetricRef, SideReals
  <2>2. children \in Seq(Nat)
    BY <1>0, <1>2
  <2> QED  BY <1>0, <2>1, <2>2 DEF ObjectRecords
<1>7. /\ objs' \in Seq(ObjectRecords) /\ Grows(objs, objs') /\ Len(objs') = n + 1 /\ objs'[n + 1] = o
      /\ \A j \in 1 .. n + 1 : j \in 1 .. n \/ j = n + 1
  BY <1>0, <1>1, <1>2, <1>6, AppendGrows
<1>8. ConstraintsInv'
  <2>1. Len(objs') \in Nat
    BY <1>2, <1>7
  <2>2. \A y, z : Expresses(y, z) => Expresses(y, z)'
    BY <1>7, <2>1, GoesOnExpressing
  <2> QED  BY <1>1, <2>2 DEF ConstraintsInv, RequestInv
<1>9. Combination(n + 1)'
  <2>1. /\ objs'[n + 1].children = children /\ objs'[n + 1].left = MetricRef(k + 1)
        /\ objs'[n + 1].right = MetricRef(k + 2)
    BY <1>0, <1>7
  <2>2. children \in Seq(1 .. (n + 1) - 1) \ {<<>>}
    <3>1. (n + 1) - 1 = Len(objs)
      BY <1>0, <1>2
    <3> QED  BY <3>1
  <2>3. k + 1 \in 1 .. Len(metrics') /\ (k + 1) + 1 \in 1 .. Len(metrics') /\ (k + 1) + 1 = k + 2
    BY <1>2, <1>5
  <2>4. \A i \in DOMAIN children : objs'[children[i]] = objs[children[i]]
    <3>1. DOMAIN children = 1 .. Len(children) /\ \A i \in 1 .. Len(children) : children[i] \in 1 .. Len(objs)
      OBVIOUS
    <3> QED  BY <1>7, <3>1 DEF Grows
  <2>5. ASSUME NEW side, NEW cmp PROVE Extent(children, side, cmp)' = Extent(children, side, cmp)
    BY <2>4 DEF Extent
  <2>6. mleft = Extent(children, "left", "lt")' /\ mright = Extent(children, "right", "gt")'
    BY <1>0, <2>5
  <2> QED  BY <1>5, <2>1, <2>2, <2>3, <2>6 DEF Combination
<1>10. ObjsInv'
  <2> SUFFICES ASSUME NEW j \in 1 .. Len(objs') PROVE Plain(j)' \/ Combination(j)'
    BY DEF ObjsInv
  <2>1. CASE j \in 1 .. n
    <3>1. Len(metrics') \in Nat /\ boxes' \in Nat /\ boxes <= boxes'
      BY <1>1, <1>2, <1>5
    <3> QED  BY <1>0, <1>5, <1>7, <2>1, <3>1, ObjectStays
  <2>2. CASE j = n + 1
    BY <1>9, <2>2
  <2> QED  BY <1>7, <2>1, <2>2
<1>11. LayoutTypeOK'
  BY <1>1, <1>2, <1>5, <1>7 DEF RequestInv, LayoutTypeOK, ObjectRecords, MetricRecords
<1> QED  BY <1>8, <1>10, <1>11 DEF RequestInv

LEMMA AskInv ==
    ASSUME RequestInv, UNCHANGED <<objs, boxes, metrics>>,
           constraints' \in Seq([weight : Weights \cup {0}, prop : Props]), intent' \in Seq(Intents),
           ConstraintsInv'
    PROVE  RequestInv'
<1>1. LayoutTypeOK'
  BY DEF RequestInv, LayoutTypeOK
<1>2. ObjsInv'
  <2> SUFFICES ASSUME NEW o \in 1 .. Len(objs') PROVE Plain(o)' \/ Combination(o)'
    BY DEF ObjsInv
  <2>1. o \in 1 .. Len(objs) /\ boxes \in Nat /\ Len(metrics) \in Nat
    BY DEF RequestInv, LayoutTypeOK
  <2> QED  BY <2>1, ObjectStays DEF Grows
<1> QED  BY <1>1, <1>2 DEF RequestInv

LEMMA StillExpresses ==
    ASSUME UNCHANGED objs, NEW p, NEW m, Expresses(p, m)
    PROVE  Expresses(p, m)'
BY DEF Expresses, Axis

LEMMA PinInv ==
    ASSUME RequestInv, NEW o \in DOMAIN objs, NEW pin \in Pins, NEW w \in Weights,
           Pin(o, pin[1], pin[2], w)
    PROVE  RequestInv'
<1> DEFINE side == pin[1]
           v == pin[2]
<1>0. PICK p, m : /\ p = RealCmp("eq", objs[o][side], Const(v))
                  /\ m = [kind |-> "pinned", of |-> o, side |-> side, at |-> v]
  OBVIOUS
<1>1. side \in Sides /\ v \in Int \cup {NotReal}
  BY PinsAssumption DEF Sides
<1>2. o \in 1 .. Len(objs) /\ Len(objs) \in Nat /\ o \in Nat
  BY DEF RequestInv, LayoutTypeOK
<1> HIDE DEF side, v
<1>3. p \in Props /\ m \in Intents
  <2>1. objs[o][side] \in Reals
    BY <1>1, <1>2, ObjectFacts DEF Reals
  <2>2. Const(v) \in Reals
    BY <1>1 DEF Const, Reals
  <2>3. p \in Props
    BY <1>0, <2>1, <2>2, CmpIsProp
  <2>4. m \in Intents
    BY <1>0, <1>1, <1>2 DEF Intents
  <2> QED  BY <2>3, <2>4
<1>4. /\ constraints' = Append(constraints, [weight |-> w, prop |-> p]) /\ intent' = Append(intent, m)
      /\ UNCHANGED <<objs, boxes, metrics>>
  BY <1>0 DEF Pin, side, v
<1>5. Expresses(p, m)
  BY <1>0, <1>1, <1>2 DEF Expresses
<1>6. Expresses(p, m)'
  BY <1>4, <1>5, StillExpresses
<1>7. Grows(objs, objs') /\ Len(objs') \in Nat
  BY <1>2, <1>4 DEF Grows
<1> QED  BY <1>3, <1>4, <1>6, <1>7, OneMoreConstraint, AskInv

LEMMA KeepApartInv ==
    ASSUME RequestInv, NEW b \in DOMAIN objs, NEW a \in 1 .. (b - 1), NEW w \in Weights,
           KeepApart(a, b, w)
    PROVE  RequestInv'
<1>0. PICK p, m : /\ p = PropLogic("or", RealCmp("le", objs[a].right, objs[b].left),
                                          RealCmp("le", objs[b].right, objs[a].left))
                  /\ m = [kind |-> "apart", of |-> <<a, b>>]
  OBVIOUS
<1>1. Len(objs) \in Nat /\ b \in 1 .. Len(objs) /\ a \in 1 .. Len(objs) /\ a \in Nat /\ b \in Nat
  BY DEF RequestInv, LayoutTypeOK
<1>2. p \in Props /\ m \in Intents
  <2>1. /\ RealCmp("le", objs[a].right, objs[b].left) \in Comparisons
        /\ RealCmp("le", objs[b].right, objs[a].left) \in Comparisons
    BY <1>1, SidesAreReals, CmpIsProp
  <2>2. p \in Props
    <3> HIDE DEF Comparisons
    <3> QED  BY <1>0, <2>1 DEF PropLogic, Props
  <2>3. m \in Intents
    BY <1>0, <1>1 DEF Intents
  <2> QED  BY <2>2, <2>3
<1>3. /\ constraints' = Append(constraints, [weight |-> w, prop |-> p]) /\ intent' = Append(intent, m)
      /\ UNCHANGED <<objs, boxes, metrics>>
  BY <1>0 DEF KeepApart
<1>4. Expresses(p, m)
  BY <1>0, <1>1 DEF Expresses
<1>5. Expresses(p, m)'
  BY <1>3, <1>4, StillExpresses
<1>6. Grows(objs, objs') /\ Len(objs') \in Nat
  BY <1>1, <1>3 DEF Grows
<1> QED  BY <1>2, <1>3, <1>5, <1>6, OneMoreConstraint, AskInv

LEMMA AlignInv ==
    ASSUME RequestInv, NEW o \in DOMAIN objs, NEW axis \in Axes, NEW w \in Weights,
           VerticallyAlign(o, axis, w)
    PROVE  RequestInv'
<1> DEFINE S == [weight : Weights \cup {0}, prop : Props]
           pairs == [i \in 1 .. (Len(objs[o].children) - 1) |->
                        <<objs[o].children[i], objs[o].children[i + 1]>>]
<1>0. PICK ch, n, k, cs, ms :
         /\ ch = objs[o].children /\ n = (IF Len(ch) > 0 THEN Len(ch) - 1 ELSE 0) /\ k = Len(constraints)
         /\ cs = [i \in 1 .. n |->
                     [weight |-> w, prop |-> RealCmp("eq", Axis(ch[i], axis), Axis(ch[i + 1], axis))]]
         /\ ms = [i \in 1 .. n |->
                     [kind |-> "aligned", of |-> <<ch[i], ch[i + 1]>>, axis |-> axis]]
  OBVIOUS
<1>1. /\ constraints \in Seq(S) /\ intent \in Seq(Intents) /\ Len(intent) = k /\ k = Len(constraints) /\ k \in Nat
      /\ Len(objs) \in Nat /\ o \in 1 .. Len(objs)
  BY <1>0 DEF RequestInv, LayoutTypeOK, ConstraintsInv
<1>2. /\ ch \in Seq(1 .. Len(objs)) /\ n \in Nat /\ 1 .. n = 1 .. (Len(ch) - 1)
      /\ \A i \in 1 .. n : ch[i] \in 1 .. Len(objs) /\ ch[i + 1] \in 1 .. Len(objs)
  <2>1. ch \in Seq(1 .. Len(objs))
    BY <1>0, <1>1, ObjectFacts
  <2>2. Len(ch) \in Nat
    BY <2>1
  <2>3. n \in Nat /\ 1 .. n = 1 .. (Len(ch) - 1) /\ n <= Len(ch)
    BY <1>0, <2>2
  <2>4. \A i \in 1 .. n : i \in 1 .. Len(ch) /\ i + 1 \in 1 .. Len(ch)
    BY <1>0, <2>2
  <2>5. \A i \in 1 .. Len(ch) : ch[i] \in 1 .. Len(objs)
    BY <2>1
  <2> QED  BY <2>1, <2>3, <2>4, <2>5
<1>3. /\ UNCHANGED <<objs, boxes, metrics>>
      /\ constraints' = constraints \o cs /\ intent' = intent \o ms
  <2>1. /\ UNCHANGED <<objs, boxes, metrics>>
        /\ constraints' = constraints \o [i \in DOMAIN pairs |->
              [weight |-> w, prop |-> RealCmp("eq", Axis(pairs[i][1], axis), Axis(pairs[i][2], axis))]]
        /\ intent' = intent \o [i \in DOMAIN pairs |-> [kind |-> "aligned", of |-> pairs[i], axis |-> axis]]
    BY DEF VerticallyAlign
  <2>2. pairs = [i \in 1 .. n |-> <<ch[i], ch[i + 1]>>]
    BY <1>0, <1>2
  <2>3. DOMAIN pairs = 1 .. n /\ \A i \in 1 .. n : pairs[i] = <<ch[i], ch[i + 1]>>
    BY <2>2
  <2> HIDE DEF pairs
  <2>4. [i \in DOMAIN pairs |->
           [weight |-> w, prop |-> RealCmp("eq", Axis(pairs[i][1], axis), Axis(pairs[i][2], axis))]] = cs
    BY <1>0, <2>3
  <2>5. [i \in DOMAIN pairs |-> [kind |-> "aligned", of |-> pairs[i], axis |-> axis]] = ms
    BY <1>0, <2>3
  <2> QED  BY <2>1, <2>4, <2>5
<1>4. ASSUME NEW i \in 1 .. n PROVE cs[i] \in S /\ ms[i] \in Intents
  <2>1. Axis(ch[i], axis) \in Reals /\ Axis(ch[i + 1], axis) \in Reals
    BY <1>2, SidesAreReals
  <2>2. RealCmp("eq", Axis(ch[i], axis), Axis(ch[i + 1], axis)) \in Props
    BY <2>1, CmpIsProp
  <2>3. cs[i] = [weight |-> w, prop |-> RealCmp("eq", Axis(ch[i], axis), Axis(ch[i + 1], axis))]
    BY <1>0
  <2>4. ms[i] = [kind |-> "aligned", of |-> <<ch[i], ch[i + 1]>>, axis |-> axis]
    BY <1>0
  <2>5. ch[i] \in Nat /\ ch[i + 1] \in Nat
    BY <1>2
  <2> QED  BY <2>2, <2>3, <2>4, <2>5 DEF Intents
<1>5. cs \in Seq(S) /\ ms \in Seq(Intents) /\ Len(cs) = n /\ Len(ms) = n
  <2> HIDE DEF S
  <2>1. cs \in [1 .. n -> S] /\ ms \in [1 .. n -> Intents]
    BY <1>0, <1>4
  <2> QED  BY <1>2, <2>1
<1> HIDE DEF S
<1>6. /\ constraints' \in Seq(S) /\ Grows(constraints, constraints') /\ Len(constraints') = k + n
      /\ \A i \in 1 .. k + n : i \in 1 .. k \/ (i - k \in 1 .. n /\ constraints'[i] = cs[i - k])
  <2>1. /\ constraints \o cs \in Seq(S) /\ Grows(constraints, constraints \o cs)
        /\ Len(constraints \o cs) = Len(constraints) + Len(cs)
        /\ \A i \in 1 .. Len(constraints) + Len(cs) :
              i \in 1 .. Len(constraints) \/ (i - Len(constraints) \in 1 .. Len(cs)
                                             /\ (constraints \o cs)[i] = cs[i - Len(constraints)])
    BY <1>1, <1>5, ConcatGrows
  <2> QED  BY <1>1, <1>3, <1>5, <2>1
<1>7. /\ intent' \in Seq(Intents) /\ Grows(intent, intent') /\ Len(intent') = k + n
      /\ \A i \in 1 .. k + n : i \in 1 .. k \/ (i - k \in 1 .. n /\ intent'[i] = ms[i - k])
  <2>1. /\ intent \o ms \in Seq(Intents) /\ Grows(intent, intent \o ms)
        /\ Len(intent \o ms) = Len(intent) + Len(ms)
        /\ \A i \in 1 .. Len(intent) + Len(ms) :
              i \in 1 .. Len(intent) \/ (i - Len(intent) \in 1 .. Len(ms)
                                             /\ (intent \o ms)[i] = ms[i - Len(intent)])
    <3> HIDE DEF Intents
    <3> QED  BY <1>1, <1>5, ConcatGrows
  <2> QED  BY <1>1, <1>3, <1>5, <2>1
<1>8. ASSUME NEW c \in 1 .. k + n
      PROVE  Expresses(constraints[c].prop, intent[c])'
  <2>1. CASE c \in 1 .. k
    <3>1. constraints'[c] = constraints[c] /\ intent'[c] = intent[c]
      BY <1>1, <1>6, <1>7, <2>1 DEF Grows
    <3>2. Expresses(constraints[c].prop, intent[c])
      BY <1>1, <2>1 DEF RequestInv, ConstraintsInv
    <3>3. \A y, z : Expresses(y, z) => Expresses(y, z)'
      BY <1>3, StillExpresses
    <3> QED  BY <3>1, <3>2, <3>3
  <2>2. CASE c \notin 1 .. k
    <3>1. PICK i \in 1 .. n : constraints'[c] = cs[i] /\ intent'[c] = ms[i]
      BY <1>6, <1>7, <2>2
    <3>2. /\ cs[i].prop = RealCmp("eq", Axis(ch[i], axis), Axis(ch[i + 1], axis))
          /\ ms[i] = [kind |-> "aligned", of |-> <<ch[i], ch[i + 1]>>, axis |-> axis]
      BY <1>0
    <3>3. Expresses(cs[i].prop, ms[i])
      <4> DEFINE m == ms[i]
      <4>1. m.kind = "aligned" /\ m.of[1] = ch[i] /\ m.of[2] = ch[i + 1] /\ m.axis = axis
        BY <3>2
      <4>2. ch[i] \in 1 .. Len(objs) /\ ch[i + 1] \in 1 .. Len(objs)
        BY <1>2
      <4> HIDE DEF m
      <4>3. Expresses(cs[i].prop, m)
        BY <3>2, <4>1, <4>2 DEF Expresses
      <4> QED  BY <4>3 DEF m
    <3>4. \A y, z : Expresses(y, z) => Expresses(y, z)'
      BY <1>3, StillExpresses
    <3>5. Expresses(cs[i].prop, ms[i])'
      BY <3>3, <3>4
    <3> QED  BY <3>1, <3>5
  <2> QED  BY <2>1, <2>2
<1>9. ConstraintsInv'
  BY <1>6, <1>7, <1>8 DEF ConstraintsInv
<1> QED  BY <1>3, <1>6, <1>7, <1>9, AskInv DEF S

-----------------------------------------------------------------------------
(* The solve.                                                              *)

LEMMA BuildInv == ASSUME RequestInv, Build PROVE RequestInv'
<1>1. DOMAIN objs = 1 .. Len(objs) /\ Len(objs) \in Nat
  BY DEF RequestInv, LayoutTypeOK
<1>2. CASE NewBox
  BY <1>2, NewBoxInv
<1>3. ASSUME NEW n \in 1 .. Len(objs), NEW children \in [1 .. n -> DOMAIN objs], Combine(children)
      PROVE  RequestInv'
  <2>1. children \in Seq(1 .. Len(objs)) /\ children # <<>>
    BY <1>1
  <2> QED  BY <1>3, <2>1, CombineInv
<1>4. CASE \E o \in DOMAIN objs, axis \in Axes, w \in Weights : VerticallyAlign(o, axis, w)
  BY <1>4, AlignInv
<1>5. CASE \E o \in DOMAIN objs, pin \in Pins, w \in Weights : Pin(o, pin[1], pin[2], w)
  BY <1>5, PinInv
<1>6. CASE \E b \in DOMAIN objs, w \in Weights : \E a \in 1 .. (b - 1) : KeepApart(a, b, w)
  BY <1>6, KeepApartInv
<1> QED  BY <1>2, <1>3, <1>4, <1>5, <1>6 DEF Build

\* A request that stays as it is means what it meant.
LEMMA Unbuilt ==
    ASSUME UNCHANGED requestVars
    PROVE  /\ RequestInv => RequestInv'
           /\ Refused' <=> Refused
           /\ Feasible' = Feasible
           /\ \A g : Unsat(Sat(g))' = Unsat(Sat(g))
<1> USE DEF requestVars
<1>1. RequestInv => RequestInv'
  <2>1. LayoutTypeOK => LayoutTypeOK'
    BY DEF LayoutTypeOK
  <2>2. ObjsInv => ObjsInv'
    <3> SUFFICES ASSUME ObjsInv, NEW o \in 1 .. Len(objs) PROVE Plain(o)' \/ Combination(o)'
      BY DEF ObjsInv
    <3>1. CASE Plain(o)
      BY <3>1 DEF Plain
    <3>2. CASE Combination(o)
      <4>1. \A children, side, cmp : Extent(children, side, cmp)' = Extent(children, side, cmp)
        BY DEF Extent
      <4> QED  BY <3>2, <4>1 DEF Combination
    <3> QED  BY <3>1, <3>2 DEF ObjsInv
  <2>3. ConstraintsInv => ConstraintsInv'
    BY DEF ConstraintsInv, Expresses, Axis
  <2> QED  BY <2>1, <2>2, <2>3 DEF RequestInv
<1>2. Refused' <=> Refused
  BY DEF Refused
<1>3. \A p, g : Holds(p, g)' <=> Holds(p, g)
  BY DEF Holds, Compares, Value, SideValue
<1>4. Feasible' = Feasible
  <2>1. Geometry' = Geometry
    BY DEF Geometry
  <2> QED  BY <1>3, <2>1 DEF Feasible, Hard
<1>5. ASSUME NEW g PROVE Unsat(Sat(g))' = Unsat(Sat(g))
  <2>1. Sat(g)' = Sat(g)
    BY <1>3 DEF Sat
  <2> QED  BY <2>1 DEF Unsat
<1> QED  BY <1>1, <1>2, <1>4, <1>5

LEMMA LayoutInvInit == LayoutInit => LayoutInv
<1> SUFFICES ASSUME LayoutInit PROVE LayoutInv
  OBVIOUS
<1> USE DEF LayoutInit
<1>1. LayoutTypeOK
  BY DEF LayoutTypeOK
<1>2. ObjsInv /\ ConstraintsInv
  BY DEF ObjsInv, ConstraintsInv
<1>3. ResultInv
  BY DEF ResultInv, GuardInit, NoResult
<1> QED  BY <1>1, <1>2, <1>3 DEF LayoutInv, RequestInv

LEMMA LayoutInvNext == LayoutInv /\ [LayoutNext]_layoutVars => LayoutInv'
<1> SUFFICES ASSUME LayoutInv, [LayoutNext]_layoutVars PROVE LayoutInv'
  OBVIOUS
<1>1. RequestInv /\ ResultInv
  BY DEF LayoutInv
<1>2. CASE App(Build)
  <2>1. pc = "app" /\ pc' = "app" /\ Build /\ result' = result
    BY <1>2 DEF App, guardVars
  <2>2. RequestInv'
    BY <1>1, <2>1, BuildInv
  <2>3. ResultInv'
    BY <1>1, <2>1 DEF ResultInv
  <2> QED  BY <2>2, <2>3 DEF LayoutInv
<1>3. ASSUME UNCHANGED requestVars, ResultInv' PROVE LayoutInv'
  BY <1>1, <1>3, Unbuilt DEF LayoutInv
<1>4. ASSUME UNCHANGED <<requestVars, result>>,
             pc' \in {"spawned", "check", "abort", "recv", "answer"} => ~Refused,
             pc = "done" => pc' = "done"
      PROVE  LayoutInv'
  <2>1. UNCHANGED requestVars /\ result' = result
    BY <1>4
  <2>2. /\ Refused' <=> Refused
        /\ Feasible' = Feasible
        /\ \A g : Unsat(Sat(g))' = Unsat(Sat(g))
    BY <2>1, Unbuilt
  <2>3. ResultInv'
    <3>1. pc' \in {"spawned", "check", "abort", "recv", "answer"} => ~Refused'
      BY <1>4, <2>2
    <3>2. ASSUME result.status = "sat"
          PROVE  pc' = "done" /\ ~Refused' /\ result.boxes \in Feasible'
                 /\ result.unsat = Unsat(Sat(result.boxes))'
      <4>1. /\ pc = "done" /\ ~Refused
            /\ result.boxes \in Feasible /\ result.unsat = Unsat(Sat(result.boxes))
        BY <1>1, <3>2 DEF ResultInv
      <4>2. PICK g : g = result.boxes
        OBVIOUS
      <4>3. g = result'.boxes /\ Unsat(Sat(result.boxes))' = Unsat(Sat(g))'
        BY <2>1, <4>2
      <4> QED  BY <1>4, <2>2, <4>1, <4>2, <4>3
    <3> QED  BY <2>1, <3>1, <3>2 DEF ResultInv
  <2> QED  BY <1>3, <2>1, <2>3
<1>5. CASE Solve
  <2>1. pc = "app" /\ pc' = "spawned" /\ ~Refused
    BY <1>5 DEF Solve, Spawn
  <2> QED  BY <1>4, <1>5, <2>1 DEF Solve
<1>6. CASE SolveError
  <2>1. UNCHANGED requestVars /\ pc' = "done" /\ result'.status = "error"
    BY <1>6 DEF SolveError, BuildError, NoResult
  <2>2. ResultInv'
    BY <2>1 DEF ResultInv
  <2> QED  BY <1>3, <2>1, <2>2
<1>7. CASE Z3Returns
  <2>1. pc = "check" /\ UNCHANGED <<requestVars, result>>
    BY <1>7 DEF Z3Returns, CheckReturns
  <2> QED  BY <1>1, <1>4, <2>1 DEF ResultInv
<1>8. CASE Return
  <2>1. UNCHANGED requestVars /\ pc = "answer" /\ pc' = "done" /\ ~Refused
    BY <1>1, <1>8 DEF Return, Answer, ResultInv
  <2>2. Refused' <=> Refused
    BY <2>1, Unbuilt
  <2>3. CASE check_res = "sat"
    <3>1. PICK g \in Models : result' = [status |-> "sat", boxes |-> g, unsat |-> Unsat(Sat(g))]
      BY <1>8, <2>3 DEF Return
    <3>2. g \in Feasible
      BY DEF Models
    <3>3. g \in Feasible' /\ Unsat(Sat(g))' = Unsat(Sat(g))
      BY <2>1, <3>2, Unbuilt
    <3>4. result'.boxes = g /\ result'.unsat = Unsat(Sat(g))'
      BY <3>1, <3>3
    <3>5. ResultInv'
      BY <2>1, <2>2, <3>3, <3>4 DEF ResultInv
    <3> QED  BY <1>3, <2>1, <3>5
  <2>4. CASE check_res # "sat"
    <3>1. result'.status = check_res
      BY <1>8, <2>4 DEF Return, NoResult
    <3>2. ResultInv'
      BY <2>1, <2>4, <3>1 DEF ResultInv
    <3> QED  BY <1>3, <2>1, <3>2
  <2> QED  BY <2>3, <2>4
<1>9. CASE Guarded(Check \/ Abort \/ RecvFence \/ Watcher \/ (pc # "app" /\ CancelRequest))
  <2>1. UNCHANGED <<requestVars, result>>
    BY <1>9 DEF Guarded
  <2>2. /\ pc' \in {"spawned", "check", "abort", "recv", "answer"} =>
             pc \in {"spawned", "check", "abort", "recv", "answer"}
        /\ pc = "done" => pc' = "done"
    BY <1>9 DEF Guarded, Check, Abort, RecvFence, Watcher, Wake, Interrupt, TaskAborted,
                DropHandle, DropFence, CancelRequest
  <2> QED  BY <1>1, <1>4, <2>1, <2>2 DEF ResultInv
<1>10. CASE UNCHANGED layoutVars
  BY <1>1, <1>4, <1>10 DEF layoutVars, guardVars, ResultInv
<1> QED  BY <1>2, <1>5, <1>6, <1>7, <1>8, <1>9, <1>10 DEF LayoutNext

LEMMA LayoutInvariant == LayoutSpec => []LayoutInv
BY LayoutInvInit, LayoutInvNext, PTL DEF LayoutSpec

\* The geometry of a solve fulfils what the application asked for as hard, and
\* misses exactly what it is told is not satisfied: for any boxes, combined
\* boxes, alignments, pins, exclusions and weights, and any model of z3, where a
\* coordinate is meant without its sign. Numbers without a fraction are refused.
THEOREM GeometryIsMeant == LayoutSpec => []AnswerIsWhatWasMeant
BY LayoutInvariant, AnswerIsMeant, PTL

\* With its data, a solve is what SolveGuard says of it.
THEOREM SolveIsGuarded == LayoutSpec => GuardSpec
<1>1. LayoutInit => GuardInit
  BY DEF LayoutInit
<1>2. [LayoutNext]_layoutVars => [GuardNext]_guardVars
  <2> SUFFICES ASSUME [LayoutNext]_layoutVars PROVE [GuardNext]_guardVars
    OBVIOUS
  <2> USE DEF GuardNext, JsThread
  <2>1. CASE App(Build)
    BY <2>1 DEF App
  <2>2. CASE Solve
    BY <2>2 DEF Solve
  <2>3. CASE SolveError
    BY <2>3 DEF SolveError
  <2>4. CASE Z3Returns
    BY <2>4 DEF Z3Returns
  <2>5. CASE Return
    BY <2>5 DEF Return
  <2>6. CASE Guarded(Check \/ Abort \/ RecvFence \/ Watcher \/ (pc # "app" /\ CancelRequest))
    BY <2>6 DEF Guarded
  <2>7. CASE UNCHANGED layoutVars
    BY <2>7 DEF layoutVars
  <2> QED  BY <2>1, <2>2, <2>3, <2>4, <2>5, <2>6, <2>7 DEF LayoutNext
<1> QED  BY <1>1, <1>2, PTL DEF LayoutSpec, GuardSpec

\* The handle never outlives the z3 context, whatever is solved.
THEOREM HandleNeverDanglesInSolve == LayoutSpec => []HandleWithinContext
BY SolveIsGuarded, HandleNeverDangles, PTL

-----------------------------------------------------------------------------
(* Nodes below nodes.                                                      *)

Trees == [Nodes -> SUBSET Nodes]

\* Reach(S, c) is the least set that holds S and the children of its nodes.
LEMMA ReachClosed ==
    ASSUME NEW S \in SUBSET Nodes, NEW c \in Trees
    PROVE  /\ Reach(S, c) \in SUBSET Nodes
           /\ S \subseteq Reach(S, c)
           /\ \A m \in Reach(S, c) : c[m] \subseteq Reach(S, c)
BY DEF Reach, Trees

\* It is in every set that does.
LEMMA ReachLeast ==
    ASSUME NEW S \in SUBSET Nodes, NEW c \in Trees, NEW T \in SUBSET Nodes,
           S \subseteq T, \A m \in T : c[m] \subseteq T
    PROVE  Reach(S, c) \subseteq T
BY DEF Reach, Trees

\* A node is reached since it is in S, or is a child of one that is reached.
LEMMA ReachOrigin ==
    ASSUME NEW S \in SUBSET Nodes, NEW c \in Trees, NEW n \in Reach(S, c)
    PROVE  n \in S \/ \E m \in Reach(S, c) : n \in c[m]
<1> DEFINE R == Reach(S, c)
           T == {x \in R : x \in S \/ \E m \in R : x \in c[m]}
<1>1. R \in SUBSET Nodes /\ S \subseteq R /\ \A m \in R : c[m] \subseteq R
  BY ReachClosed
<1>2. T \in SUBSET Nodes /\ S \subseteq T /\ \A m \in T : c[m] \subseteq T
  BY <1>1
<1>3. R \subseteq T
  <2> HIDE DEF T
  <2> QED  BY <1>2, ReachLeast
<1> QED  BY <1>3

\* What is reached only grows with the set and with the children.
LEMMA ReachGrows ==
    ASSUME NEW S \in SUBSET Nodes, NEW c \in Trees,
           NEW S2 \in SUBSET Nodes, NEW d \in Trees,
           S \subseteq Reach(S2, d), \A n \in Reach(S2, d) : c[n] \subseteq d[n]
    PROVE  Reach(S, c) \subseteq Reach(S2, d)
<1>1. Reach(S2, d) \in SUBSET Nodes /\ \A m \in Reach(S2, d) : d[m] \subseteq Reach(S2, d)
  BY ReachClosed
<1>2. \A m \in Reach(S2, d) : c[m] \subseteq Reach(S2, d)
  BY <1>1
<1> QED  BY <1>1, <1>2, ReachLeast

\* It depends on the children of what is reached only.
LEMMA ReachAgrees ==
    ASSUME NEW S \in SUBSET Nodes, NEW c \in Trees, NEW d \in Trees,
           \A n \in Reach(S, c) : c[n] = d[n]
    PROVE  Reach(S, d) = Reach(S, c)
<1> DEFINE T == Reach(S, c) \cap Reach(S, d)
<1>1. /\ Reach(S, c) \in SUBSET Nodes /\ S \subseteq Reach(S, c)
      /\ \A m \in Reach(S, c) : c[m] \subseteq Reach(S, c)
  BY ReachClosed
<1>2. /\ Reach(S, d) \in SUBSET Nodes /\ S \subseteq Reach(S, d)
      /\ \A m \in Reach(S, d) : d[m] \subseteq Reach(S, d)
  BY ReachClosed
<1>3. Reach(S, d) \subseteq Reach(S, c)
  BY <1>1, ReachGrows
<1>4. T \in SUBSET Nodes /\ S \subseteq T /\ \A m \in T : c[m] \subseteq T
  BY <1>1, <1>2
<1>5. Reach(S, c) \subseteq T
  <2> HIDE DEF T
  <2> QED  BY <1>4, ReachLeast
<1> QED  BY <1>3, <1>5

\* Nothing that is below the root goes when nodes that are not are dropped.
LEMMA ReleaseKeeps ==
    ASSUME NEW S \in SUBSET Nodes, NEW c \in Trees, NEW shp \in Trees,
           IsDocument(shp), \A n \in Nodes : c[n] \subseteq shp[n], Root \in S
    PROVE  /\ Release(c, S) \in Trees
           /\ \A n \in Nodes : Release(c, S)[n] \subseteq c[n]
           /\ \A n \in Reach({Root}, c) : Release(c, S)[n] = c[n]
<1> DEFINE W == Reach({Root}, c)
           C == Nodes \ Reach(S, c)
           U == Nodes \ W
<1>1. Root \in Nodes
  BY DocumentsAssumption DEF Root, Nodes
<1>2. /\ W \in SUBSET Nodes /\ Root \in W
      /\ \A m \in W : c[m] \subseteq W
  BY <1>1, ReachClosed
<1>3. W \subseteq Reach(S, c)
  BY <1>1, ReachClosed, ReachGrows
<1>4. ASSUME NEW m \in U, NEW k \in c[m] PROVE k \in U
  <2>1. k \in Nodes /\ k \in shp[m]
    BY <1>4 DEF Trees
  <2>2. SUFFICES ASSUME k \in W PROVE FALSE
    BY <2>1
  <2>3. k # Root
    BY <2>1 DEF IsDocument, Root, Nodes
  <2>4. PICK o \in W : k \in c[o]
    BY <1>1, <2>2, <2>3, ReachOrigin
  <2>5. o \in Nodes /\ k \in shp[o] /\ m \in Nodes
    BY <1>2, <2>4
  <2>6. o = m
    BY <2>1, <2>5 DEF IsDocument
  <2> QED  BY <2>4, <2>6
<1>5. C \subseteq U /\ C \in SUBSET Nodes /\ U \in SUBSET Nodes
  BY <1>3
<1>6. Reach(C, c) \subseteq U
  <2>1. \A m \in U : c[m] \subseteq U
    BY <1>4
  <2> HIDE DEF U, C
  <2> QED  BY <1>5, <2>1, ReachLeast
<1>7. Release(c, S) = [n \in Nodes |-> IF n \in Reach(C, c) THEN {} ELSE c[n]]
  BY DEF Release
<1> HIDE DEF C
<1> QED  BY <1>2, <1>6, <1>7 DEF Trees

-----------------------------------------------------------------------------
(* Types.                                                                  *)

\* A set of nodes has a first one in document order.
LEMMA LeastFacts ==
    ASSUME NEW S \in SUBSET Nodes, S # {}
    PROVE  Least(S) \in S /\ \A m \in S : Least(S) <= m
<1>1. S \subseteq Nat
  BY DocumentsAssumption DEF Nodes
<1>2. PICK n \in S : \A m \in S : ~(<<m, n>> \in OpToRel(<, Nat))
  BY <1>1, NatLessThanWellFounded, WFMin
<1>3. \A m \in S : n <= m
  <2>1. ASSUME NEW m \in S PROVE ~(m < n)
    BY <1>1, <1>2 DEF OpToRel
  <2> QED  BY <1>1, <2>1
<1> QED  BY <1>3 DEF Least

\* What a query that calls back is at
AtWork(w) == w.phase = "callback" => w.levels # <<>> /\ Level(w).left # {}

CallbacksAtNode == \A i \in DOMAIN walks : AtWork(walks[i])

TypeInv == ObjectTypeOK /\ CallbacksAtNode

\* A query that goes on below a node is well-formed,
LEMMA DescendType ==
    ASSUME NEW w \in Walks, w.levels # <<>>, Level(w).left # {}, tree \in [Nodes -> SUBSET Nodes]
    PROVE  /\ At(w) \in Level(w).left /\ At(w) \in Nodes
           /\ Level(w) \in Levels
           /\ Descend(w) \in Walks /\ AtWork(Descend(w))
           /\ Descend(w).root = w.root
<1>1. w.levels \in Seq(Levels)
  BY DEF Walks
<1>2. Level(w) \in Levels
  BY <1>1 DEF Level
<1>3. Level(w).left \in SUBSET Nodes
  BY <1>2 DEF Levels
<1>4. At(w) \in Level(w).left /\ At(w) \in Nodes
  BY <1>3, LeastFacts DEF At
<1>5. [copy |-> tree[At(w)], left |-> tree[At(w)]] \in Levels
  BY <1>4 DEF Levels
<1>6. Append(w.levels, [copy |-> tree[At(w)], left |-> tree[At(w)]]) \in Seq(Levels)
  BY <1>1, <1>5
<1> QED  BY <1>2, <1>4, <1>6 DEF Descend, Walks, AtWork

\* and so are the levels when it goes on to the next sibling.
LEMMA AdvanceType ==
    ASSUME NEW levels \in Seq(Levels)
    PROVE  Advance(levels) \in Seq(Levels)
<1>1. CASE levels = <<>>
  BY <1>1 DEF Advance
<1>2. CASE levels # <<>>
  <2> DEFINE l == levels[Len(levels)]
  <2>1. l \in Levels /\ Len(levels) \in DOMAIN levels
    BY <1>2
  <2>2. Following(l) \in SUBSET Nodes
    BY <2>1 DEF Levels, Following
  <2>3. [l EXCEPT !.left = Following(l)] \in Levels
    BY <2>1, <2>2 DEF Levels
  <2>4. Advance(levels) = [levels EXCEPT ![Len(levels)] = [l EXCEPT !.left = Following(l)]]
    BY <1>2 DEF Advance
  <2> HIDE DEF l
  <2> QED  BY <2>1, <2>3, <2>4
<1> QED  BY <1>1, <1>2

\* The innermost query is the last one on the stack,
LEMMA InnerFacts ==
    ASSUME ObjectTypeOK, walks # <<>>
    PROVE  /\ walks \in Seq(Walks)
           /\ Len(walks) \in DOMAIN walks /\ Len(walks) \in Nat \ {0}
           /\ Inner = walks[Len(walks)] /\ Inner \in Walks
BY DEF ObjectTypeOK, Inner

\* and the only one that a step of it changes.
LEMMA SetInnerFacts ==
    ASSUME ObjectTypeOK, walks # <<>>, NEW w \in Walks, SetInner(w)
    PROVE  /\ walks' \in Seq(Walks) /\ Len(walks') = Len(walks)
           /\ DOMAIN walks' = DOMAIN walks
           /\ walks'[Len(walks)] = w
           /\ \A i \in DOMAIN walks : i # Len(walks) => walks'[i] = walks[i]
BY InnerFacts DEF SetInner

LEMMA SetInnerType ==
    ASSUME TypeInv, walks # <<>>, NEW w \in Walks, SetInner(w), AtWork(w)
    PROVE  walks' \in Seq(Walks) /\ CallbacksAtNode'
<1>1. /\ walks' \in Seq(Walks) /\ DOMAIN walks' = DOMAIN walks
      /\ walks'[Len(walks)] = w
      /\ \A i \in DOMAIN walks : i # Len(walks) => walks'[i] = walks[i]
  BY SetInnerFacts DEF TypeInv
<1>2. ASSUME NEW i \in DOMAIN walks' PROVE AtWork(walks'[i])
  BY <1>1, <1>2 DEF TypeInv, CallbacksAtNode
<1>3. CallbacksAtNode' <=> \A i \in DOMAIN walks' : AtWork(walks'[i])
  BY DEF CallbacksAtNode, AtWork, Level
<1> QED  BY <1>1, <1>2, <1>3

\* put_new keeps the registry and the wrappers well-typed, as do the others below.
LEMMA PutNewType ==
    ASSUME ObjectTypeOK, NEW e \in Entries, PutNew(e)
    PROVE  /\ DOMAIN registry' \subseteq Symbols /\ registry' \in [DOMAIN registry' -> Entries]
           /\ wrapper' \in [Symbols -> {"none", "held", "stale", "gone"}]
           /\ home' \in [Symbols -> Nat]
BY DEF ObjectTypeOK, PutNew

\* What a handle is
LEMMA HandleType ==
    ASSUME NEW r \in Nodes, NEW n \in Nodes
    PROVE  /\ DomHandle(r, n) \in Entries
           /\ DomHandle(r, n) = [type |-> "dom", root |-> r, node |-> n]
BY DEF DomHandle, Entries

\* What cast_and_get finds is a node with its root.
LEMMA GetFacts ==
    ASSUME ObjectTypeOK, NEW s \in Symbols, Get(s, "dom")
    PROVE  /\ s \in DOMAIN registry /\ registry[s].type = "dom"
           /\ registry[s].root \in Nodes /\ registry[s].node \in Nodes
<1>1. s \in DOMAIN registry /\ registry[s] \in Entries /\ registry[s].type = "dom"
  BY DEF Get, ObjectTypeOK
<1> QED  BY <1>1 DEF Entries

LEMMA WithoutType ==
    ASSUME ObjectTypeOK, NEW S, registry' = Without(S)
    PROVE  /\ DOMAIN registry' = DOMAIN registry \ S
           /\ \A s \in DOMAIN registry' : registry'[s] = registry[s]
           /\ DOMAIN registry' \subseteq Symbols /\ registry' \in [DOMAIN registry' -> Entries]
BY DEF ObjectTypeOK, Without, Restrict

LEMMA DropType ==
    ASSUME ObjectTypeOK, NEW S, Drop(S)
    PROVE  /\ wrapper' \in [Symbols -> {"none", "held", "stale", "gone"}]
           /\ home' \in [Symbols -> Nat]
BY DEF ObjectTypeOK, Drop

LEMMA ReleaseType ==
    ASSUME ObjectTypeOK, ReleaseNodes(tree)
    PROVE  tree' \in [Nodes -> SUBSET Nodes]
BY DEF ObjectTypeOK, ReleaseNodes, Release

\* What is left of the queries is as they were.
LEMMA FewerQueries ==
    ASSUME TypeInv, walks # <<>>, walks' = SubSeq(walks, 1, Len(walks) - 1)
    PROVE  /\ walks' \in Seq(Walks) /\ CallbacksAtNode'
           /\ DOMAIN walks' \subseteq DOMAIN walks
           /\ \A i \in DOMAIN walks' : walks'[i] = walks[i]
<1>1. /\ walks \in Seq(Walks) /\ Len(walks) \in Nat \ {0}
  BY InnerFacts DEF TypeInv
<1>2. /\ walks' \in Seq(Walks) /\ DOMAIN walks' \subseteq DOMAIN walks
      /\ \A i \in DOMAIN walks' : walks'[i] = walks[i]
  BY <1>1
<1>3. CallbacksAtNode' <=> \A i \in DOMAIN walks' : AtWork(walks'[i])
  BY DEF CallbacksAtNode, AtWork, Level
<1> QED  BY <1>2, <1>3 DEF TypeInv, CallbacksAtNode

\* One lemma per operation: types are kept.
LEMMA TypeInit == ObjectInit => TypeInv
<1> SUFFICES ASSUME ObjectInit PROVE TypeInv
  OBVIOUS
<1>1. IsDocument([n \in Nodes |-> {}])
  BY DEF IsDocument
<1>2. registry \in [DOMAIN registry -> Entries] /\ DOMAIN registry = {}
  BY DEF ObjectInit
<1>3. walks \in Seq(Walks) /\ CallbacksAtNode
  BY DEF ObjectInit, CallbacksAtNode
<1> QED
  BY <1>1, <1>2, <1>3, DocumentsAssumption DEF ObjectInit, TypeInv, ObjectTypeOK

LEMMA SameCallbacks == walks' = walks => (CallbacksAtNode' <=> CallbacksAtNode)
BY DEF CallbacksAtNode, AtWork, Level

LEMMA ParseType == ASSUME TypeInv, Parse PROVE TypeInv'
<1>1. Root \in Nodes
  BY DocumentsAssumption DEF Root, Nodes
<1>2. PutNew(DomHandle(Root, Root)) /\ DomHandle(Root, Root) \in Entries
  BY <1>1, HandleType DEF Parse
<1>3. shape' \in Shapes /\ tree' = shape' /\ IsDocument(shape')
  BY DocumentsAssumption DEF Parse
<1>4. shape' \in [Nodes -> SUBSET Nodes]
  BY <1>3 DEF IsDocument
<1>5. parent' \in [Nodes -> Nodes \cup {Nobody}]
  <2>1. ASSUME NEW n \in Nodes
        PROVE  (IF \E m \in Nodes : n \in shape'[m]
                THEN CHOOSE m \in Nodes : n \in shape'[m] ELSE Nobody) \in Nodes \cup {Nobody}
    OBVIOUS
  <2> QED  BY <2>1 DEF Parse
<1>6. content' \in [Nodes -> Data]
  BY DocumentsAssumption DEF Parse
<1>7. UNCHANGED <<ctx, open, js, walks>> /\ CallbacksAtNode'
  BY SameCallbacks DEF Parse, contexts, TypeInv
<1> QED
  BY <1>2, <1>3, <1>4, <1>5, <1>6, <1>7, PutNewType DEF TypeInv, ObjectTypeOK

LEMMA LoadSchemaType == ASSUME TypeInv, LoadSchema PROVE TypeInv'
<1>1. PutNew([type |-> "schema"]) /\ [type |-> "schema"] \in Entries
  BY DEF LoadSchema, Entries
<1>2. UNCHANGED <<shape, tree, parent, content, ctx, open, js, walks>> /\ CallbacksAtNode'
  BY SameCallbacks DEF LoadSchema, contexts, document, TypeInv
<1> QED
  BY <1>1, <1>2, PutNewType DEF TypeInv, ObjectTypeOK

\* update() marks its node in every query.
LEMMA UpdateWalks ==
    ASSUME TypeInv, NEW n \in Nodes,
           walks' = [i \in DOMAIN walks |->
                       [walks[i] EXCEPT !.touched = walks[i].touched \cup {n}]]
    PROVE  /\ walks' \in Seq(Walks) /\ CallbacksAtNode'
           /\ DOMAIN walks' = DOMAIN walks
           /\ \A i \in DOMAIN walks :
                 walks'[i] = [walks[i] EXCEPT !.touched = walks[i].touched \cup {n}]
<1>1. walks \in Seq(Walks)
  BY DEF TypeInv, ObjectTypeOK
<1>2. DOMAIN walks = 1 .. Len(walks) /\ Len(walks) \in Nat
  BY <1>1
<1>3. DOMAIN walks' = DOMAIN walks
  OBVIOUS
<1>4. ASSUME NEW i \in DOMAIN walks
      PROVE  walks'[i] \in Walks /\ AtWork(walks'[i])
  <2>1. walks[i] \in Walks /\ AtWork(walks[i])
    BY <1>1, <1>4 DEF TypeInv, CallbacksAtNode
  <2>2. walks'[i] = [walks[i] EXCEPT !.touched = walks[i].touched \cup {n}]
    BY <1>4
  <2>3. walks[i].touched \cup {n} \in SUBSET Nodes
    BY <2>1 DEF Walks
  <2>4. walks'[i] \in Walks
    BY <2>1, <2>2, <2>3 DEF Walks
  <2>5. walks'[i].phase = walks[i].phase /\ walks'[i].levels = walks[i].levels
    BY <2>1, <2>2 DEF Walks
  <2> QED  BY <2>1, <2>4, <2>5 DEF AtWork, Level
<1>5. walks' \in Seq(Walks)
  BY <1>2, <1>4
<1>6. CallbacksAtNode' <=> \A i \in DOMAIN walks' : AtWork(walks'[i])
  BY DEF CallbacksAtNode, AtWork, Level
<1> QED  BY <1>3, <1>4, <1>5, <1>6

LEMMA UpdateType ==
    ASSUME TypeInv, NEW s \in Symbols, NEW value \in Updates, Update(s, value) PROVE TypeInv'
<1> DEFINE n == registry[s].node
<1>1. n \in Nodes
  BY GetFacts DEF Update, TypeInv
<1>2. content' = [content EXCEPT ![n] = value] /\ value \in Data
  BY DocumentsAssumption DEF Update
<1>3. content' \in [Nodes -> Data]
  BY <1>1, <1>2 DEF TypeInv, ObjectTypeOK
<1>4. walks' \in Seq(Walks) /\ CallbacksAtNode'
  BY <1>1, UpdateWalks DEF Update
<1>5. UNCHANGED <<shape, tree, parent, registry, wrapper, home, ctx, open, js>>
  BY DEF Update, handles, contexts
<1> QED
  BY <1>3, <1>4, <1>5 DEF TypeInv, ObjectTypeOK

LEMMA RemoveType ==
    ASSUME TypeInv, NEW s \in Symbols, Remove(s) PROVE TypeInv'
<1> DEFINE n == registry[s].node
           p == parent[n]
<1>1. n \in Nodes /\ p \in Nodes \cup {Nobody}
  BY GetFacts DEF Remove, TypeInv, ObjectTypeOK
<1>2. parent' \in [Nodes -> Nodes \cup {Nobody}]
  BY <1>1 DEF Remove, TypeInv, ObjectTypeOK
<1>3. tree' \in [Nodes -> SUBSET Nodes]
  BY <1>1 DEF Remove, TypeInv, ObjectTypeOK
<1>4. /\ UNCHANGED <<shape, content, registry, wrapper, home, ctx, open, js, walks>>
      /\ CallbacksAtNode'
  BY SameCallbacks DEF Remove, handles, contexts, TypeInv
<1> QED
  BY <1>2, <1>3, <1>4 DEF TypeInv, ObjectTypeOK

\* A query that begins joins the stack.
LEMMA QueryWalks ==
    ASSUME TypeInv, NEW s \in Symbols, NEW filter \in Queries, Query(s, filter)
    PROVE  /\ walks' \in Seq(Walks) /\ CallbacksAtNode'
           /\ Len(walks') = Len(walks) + 1
           /\ DOMAIN walks' = DOMAIN walks \cup {Len(walks) + 1}
           /\ \A i \in DOMAIN walks : walks'[i] = walks[i]
           /\ walks'[Len(walks) + 1] =
                 [root |-> registry[s].root, start |-> registry[s].node, filter |-> filter,
                  levels |-> <<[copy |-> {registry[s].node}, left |-> {registry[s].node}]>>,
                  phase |-> "walking", calls |-> <<>>, refused |-> {}, touched |-> {}]
<1> DEFINE e == registry[s]
           w == [root |-> e.root, start |-> e.node, filter |-> filter,
                 levels |-> <<[copy |-> {e.node}, left |-> {e.node}]>>,
                 phase |-> "walking", calls |-> <<>>, refused |-> {}, touched |-> {}]
<1>1. e.root \in Nodes /\ e.node \in Nodes
  BY GetFacts DEF Query, TypeInv
<1>2. <<[copy |-> {e.node}, left |-> {e.node}]>> \in Seq(Levels)
  BY <1>1 DEF Levels
<1>3. filter \in Filters
  BY FiltersAssumption
<1>4. w \in Walks
  BY <1>1, <1>2, <1>3 DEF Walks
<1>5. AtWork(w)
  BY DEF AtWork
<1>6. walks \in Seq(Walks) /\ walks' = Append(walks, w)
  BY DEF Query, TypeInv, ObjectTypeOK
<1>7. /\ walks' \in Seq(Walks) /\ Len(walks') = Len(walks) + 1
      /\ DOMAIN walks' = DOMAIN walks \cup {Len(walks) + 1}
      /\ \A i \in DOMAIN walks : walks'[i] = walks[i]
      /\ walks'[Len(walks) + 1] = w
  <2> HIDE DEF w
  <2> QED  BY <1>4, <1>6
<1>8. ASSUME NEW i \in DOMAIN walks' PROVE AtWork(walks'[i])
  <2> HIDE DEF w
  <2> QED  BY <1>5, <1>7, <1>8 DEF TypeInv, CallbacksAtNode
<1>9. CallbacksAtNode' <=> \A i \in DOMAIN walks' : AtWork(walks'[i])
  BY DEF CallbacksAtNode, AtWork, Level
<1> QED  BY <1>7, <1>8, <1>9

LEMMA QueryType ==
    ASSUME TypeInv, NEW s \in Symbols, NEW filter \in Queries, Query(s, filter) PROVE TypeInv'
<1>1. walks' \in Seq(Walks) /\ CallbacksAtNode'
  BY QueryWalks
<1>2. UNCHANGED <<document, handles, contexts>>
  BY DEF Query
<1> QED
  BY <1>1, <1>2 DEF TypeInv, ObjectTypeOK, document, handles, contexts

LEMMA DestroyType ==
    ASSUME TypeInv, NEW s \in Symbols, Destroy(s) PROVE TypeInv'
<1>1. registry' = Without({s}) /\ Drop({s}) /\ ReleaseNodes(tree)
  BY DEF Destroy
<1>2. UNCHANGED <<shape, parent, content, ctx, open, js, walks>> /\ CallbacksAtNode'
  BY SameCallbacks DEF Destroy, contexts, TypeInv
<1> QED
  BY <1>1, <1>2, WithoutType, DropType, ReleaseType DEF TypeInv, ObjectTypeOK

LEMMA PassType == ASSUME TypeInv, Pass PROVE TypeInv'
<1>1. /\ walks # <<>> /\ Inner.levels # <<>> /\ Level(Inner).left # {}
      /\ SetInner(Descend(Inner)) /\ UNCHANGED <<document, handles, contexts>>
  BY DEF Pass, AtNode, Walking
<1>2. Inner \in Walks /\ tree \in [Nodes -> SUBSET Nodes]
  BY <1>1, InnerFacts DEF TypeInv, ObjectTypeOK
<1>3. Descend(Inner) \in Walks /\ AtWork(Descend(Inner))
  BY <1>1, <1>2, DescendType
<1>4. walks' \in Seq(Walks) /\ CallbacksAtNode'
  BY <1>1, <1>3, SetInnerType
<1> QED
  BY <1>1, <1>4 DEF TypeInv, ObjectTypeOK, document, handles, contexts

\* A query that calls back is at the node it calls back for.
LEMMA CallWalk ==
    ASSUME TypeInv, Call
    PROVE  LET w == [Inner EXCEPT !.phase = "callback", !.calls = Append(Inner.calls, At(Inner))]
           IN  /\ w \in Walks /\ AtWork(w)
               /\ At(Inner) \in Nodes /\ Inner.root \in Nodes
<1> DEFINE w == [Inner EXCEPT !.phase = "callback", !.calls = Append(Inner.calls, At(Inner))]
<1>1. walks # <<>> /\ Inner.levels # <<>> /\ Level(Inner).left # {}
  BY DEF Call, AtNode, Walking
<1>2. Inner \in Walks /\ tree \in [Nodes -> SUBSET Nodes]
  BY <1>1, InnerFacts DEF TypeInv, ObjectTypeOK
<1>3. At(Inner) \in Nodes
  BY <1>1, <1>2, DescendType
<1>4. Inner.calls \in Seq(Nodes) /\ Inner.root \in Nodes
  BY <1>2 DEF Walks
<1>5. Append(Inner.calls, At(Inner)) \in Seq(Nodes)
  BY <1>3, <1>4
<1>6. w \in Walks
  BY <1>2, <1>5 DEF Walks
<1>7. w.levels = Inner.levels
  BY <1>2 DEF Walks
<1> QED  BY <1>1, <1>3, <1>4, <1>6, <1>7 DEF AtWork, Level

LEMMA CallType == ASSUME TypeInv, Call PROVE TypeInv'
<1> DEFINE w == [Inner EXCEPT !.phase = "callback", !.calls = Append(Inner.calls, At(Inner))]
<1>1. /\ walks # <<>> /\ PutNew(DomHandle(Inner.root, At(Inner)))
      /\ SetInner(w) /\ UNCHANGED <<document, contexts>>
  BY DEF Call, AtNode, Walking
<1>2. w \in Walks /\ AtWork(w) /\ At(Inner) \in Nodes /\ Inner.root \in Nodes
  BY CallWalk
<1>3. walks' \in Seq(Walks) /\ CallbacksAtNode'
  BY <1>1, <1>2, SetInnerType
<1>4. DomHandle(Inner.root, At(Inner)) \in Entries
  BY <1>2, HandleType
<1> HIDE DEF w
<1> QED
  BY <1>1, <1>3, <1>4, PutNewType DEF TypeInv, ObjectTypeOK, document, contexts

\* Whether it is to go on below the node or not, it does so with its root.
LEMMA ReturnWalk ==
    ASSUME TypeInv, NEW recursive \in BOOLEAN, CallbackReturns(recursive)
    PROVE  \E w \in Walks : SetInner(w) /\ AtWork(w) /\ w.root = Inner.root
<1>1. /\ walks # <<>> /\ Inner.phase = "callback"
      /\ SetInner(IF recursive THEN Descend(Inner)
                  ELSE [Inner EXCEPT !.levels = Advance(Inner.levels), !.phase = "walking",
                                     !.refused = Inner.refused \cup {At(Inner)}])
  BY DEF CallbackReturns, JsRuns
<1>2. Inner \in Walks /\ tree \in [Nodes -> SUBSET Nodes] /\ AtWork(Inner)
  BY <1>1, InnerFacts DEF TypeInv, ObjectTypeOK, CallbacksAtNode
<1>3. Inner.levels # <<>> /\ Level(Inner).left # {}
  BY <1>1, <1>2 DEF AtWork
<1>4. /\ At(Inner) \in Nodes /\ Descend(Inner) \in Walks /\ AtWork(Descend(Inner))
      /\ Descend(Inner).root = Inner.root
  BY <1>2, <1>3, DescendType
<1>5. CASE recursive
  BY <1>1, <1>4, <1>5
<1>6. CASE ~recursive
  <2> DEFINE w == [Inner EXCEPT !.levels = Advance(Inner.levels), !.phase = "walking",
                                !.refused = Inner.refused \cup {At(Inner)}]
  <2>1. Inner.levels \in Seq(Levels) /\ Inner.refused \in SUBSET Nodes
    BY <1>2 DEF Walks
  <2>2. Advance(Inner.levels) \in Seq(Levels) /\ Inner.refused \cup {At(Inner)} \in SUBSET Nodes
    BY <1>4, <2>1, AdvanceType
  <2>3. w \in Walks
    BY <1>2, <2>2 DEF Walks
  <2>4. w.phase = "walking" /\ w.root = Inner.root
    BY <1>2 DEF Walks
  <2>5. AtWork(w)
    BY <2>4 DEF AtWork
  <2>6. SetInner(w)
    BY <1>1, <1>6
  <2> QED  BY <2>3, <2>4, <2>5, <2>6
<1> QED  BY <1>5, <1>6

LEMMA ReturnType ==
    ASSUME TypeInv, NEW recursive \in BOOLEAN, CallbackReturns(recursive) PROVE TypeInv'
<1>1. walks # <<>> /\ UNCHANGED <<document, handles, contexts>>
  BY DEF CallbackReturns
<1>2. PICK w \in Walks : SetInner(w) /\ AtWork(w)
  BY ReturnWalk
<1>3. walks' \in Seq(Walks) /\ CallbacksAtNode'
  BY <1>1, <1>2, SetInnerType
<1> QED
  BY <1>1, <1>3 DEF TypeInv, ObjectTypeOK, document, handles, contexts

\* When a level ends, the query is still about the same document.
LEMMA EndLevelWalk ==
    ASSUME TypeInv, EndLevel
    PROVE  LET w == [Inner EXCEPT !.levels =
                         Advance(SubSeq(Inner.levels, 1, Len(Inner.levels) - 1))]
           IN  w \in Walks /\ AtWork(w) /\ SetInner(w) /\ w.root = Inner.root
<1> DEFINE upper == SubSeq(Inner.levels, 1, Len(Inner.levels) - 1)
           w == [Inner EXCEPT !.levels = Advance(upper)]
<1>1. walks # <<>> /\ Inner.phase = "walking" /\ Inner.levels # <<>> /\ SetInner(w)
  BY DEF EndLevel, Walking
<1>2. Inner \in Walks
  BY <1>1, InnerFacts DEF TypeInv
<1>3. Inner.levels \in Seq(Levels)
  BY <1>2 DEF Walks
<1>4. upper \in Seq(Levels)
  BY <1>1, <1>3
<1>5. Advance(upper) \in Seq(Levels)
  <2> HIDE DEF upper
  <2> QED  BY <1>4, AdvanceType
<1>6. w \in Walks
  <2> HIDE DEF upper
  <2> QED  BY <1>2, <1>5 DEF Walks
<1>7. w.phase = "walking" /\ w.root = Inner.root
  BY <1>1, <1>2 DEF Walks
<1> QED  BY <1>1, <1>6, <1>7 DEF AtWork

LEMMA EndLevelType == ASSUME TypeInv, EndLevel PROVE TypeInv'
<1>1. /\ walks # <<>> /\ registry' = registry /\ ReleaseNodes(tree)
      /\ UNCHANGED <<shape, parent, content, wrapper, home, contexts>>
  BY DEF EndLevel, Walking
<1>2. walks' \in Seq(Walks) /\ CallbacksAtNode'
  BY <1>1, EndLevelWalk, SetInnerType
<1>3. tree' \in [Nodes -> SUBSET Nodes]
  BY <1>1, ReleaseType DEF TypeInv
<1> QED
  BY <1>1, <1>2, <1>3 DEF TypeInv, ObjectTypeOK, contexts

LEMMA QueryEndsType == ASSUME TypeInv, QueryEnds PROVE TypeInv'
<1>1. /\ walks # <<>> /\ walks' = SubSeq(walks, 1, Len(walks) - 1)
      /\ registry' = registry /\ ReleaseNodes(tree)
      /\ UNCHANGED <<shape, parent, content, wrapper, home, contexts>>
  BY DEF QueryEnds
<1>2. walks' \in Seq(Walks) /\ CallbacksAtNode'
  BY <1>1, FewerQueries
<1>3. tree' \in [Nodes -> SUBSET Nodes]
  BY <1>1, ReleaseType DEF TypeInv
<1> QED
  BY <1>1, <1>2, <1>3 DEF TypeInv, ObjectTypeOK, contexts

LEMMA EnterType == ASSUME TypeInv, NEW c \in 1 .. MaxContexts, Enter(c) PROVE TypeInv'
<1>1. js' = [ctx |-> c, building |-> FALSE] /\ c \in Nat
  BY BoundsAssumption DEF Enter
<1>2. UNCHANGED <<document, handles, ctx, open, walks>> /\ CallbacksAtNode'
  BY SameCallbacks DEF Enter, TypeInv
<1> QED
  BY <1>1, <1>2 DEF TypeInv, ObjectTypeOK, document, handles

LEMMA LeaveType == ASSUME TypeInv, Leave PROVE TypeInv'
<1>1. PICK collected \in SUBSET {s \in Symbols : wrapper[s] \in {"held", "stale"}} :
         registry' = Without(collected) /\ Drop(collected)
  BY DEF Leave
<1>2. /\ ReleaseNodes(tree) /\ js' = [js EXCEPT !.ctx = 0]
      /\ UNCHANGED <<shape, parent, content, ctx, open, walks>> /\ CallbacksAtNode'
  BY SameCallbacks DEF Leave, TypeInv
<1>3. js' \in [ctx : Nat, building : BOOLEAN]
  BY <1>2 DEF TypeInv, ObjectTypeOK
<1> QED
  BY <1>1, <1>2, <1>3, WithoutType, DropType, ReleaseType DEF TypeInv, ObjectTypeOK

LEMMA TerminateType == ASSUME TypeInv, Terminate PROVE TypeInv'
<1>1. /\ registry' = Without(Symbols) /\ walks' = <<>> /\ ReleaseNodes(tree)
      /\ js' = [ctx |-> ctx + 1, building |-> TRUE] /\ open' = open \cup {ctx + 1}
      /\ UNCHANGED <<shape, parent, content, home, ctx>>
  BY DEF Terminate
<1>2. walks' \in Seq(Walks) /\ CallbacksAtNode'
  BY <1>1 DEF CallbacksAtNode
<1>3. wrapper' \in [Symbols -> {"none", "held", "stale", "gone"}]
  <2>1. ASSUME NEW s \in Symbols
        PROVE  wrapper'[s] = IF wrapper[s] = "held" THEN "stale"
                             ELSE IF wrapper[s] = "gone" THEN "none" ELSE wrapper[s]
    BY <2>1, Zenon DEF Terminate
  <2> QED  BY <2>1 DEF Terminate, TypeInv, ObjectTypeOK
<1>4. ctx + 1 \in Nat
  BY DEF TypeInv, ObjectTypeOK
<1> QED
  BY <1>1, <1>2, <1>3, <1>4, WithoutType, ReleaseType DEF TypeInv, ObjectTypeOK

LEMMA BuiltType == ASSUME TypeInv, Built PROVE TypeInv'
<1>1. UNCHANGED <<document, handles, open, walks>> /\ CallbacksAtNode'
  BY SameCallbacks DEF Built, TypeInv
<1> QED
  BY <1>1 DEF Built, TypeInv, ObjectTypeOK, document, handles

LEMMA CloseType == ASSUME TypeInv, NEW c \in 1 .. MaxContexts, Close(c) PROVE TypeInv'
<1>1. UNCHANGED <<document, registry, ctx, js, walks>> /\ CallbacksAtNode'
  BY SameCallbacks DEF Close, TypeInv
<1>2. /\ wrapper' \in [Symbols -> {"none", "held", "stale", "gone"}]
      /\ home' \in [Symbols -> Nat] /\ open' \subseteq Nat
  BY DEF Close, TypeInv, ObjectTypeOK
<1> QED
  BY <1>1, <1>2 DEF TypeInv, ObjectTypeOK, document

LEMMA TypeNext == TypeInv /\ [ObjectNext]_objectVars => TypeInv'
<1> SUFFICES ASSUME TypeInv, [ObjectNext]_objectVars PROVE TypeInv'
  OBVIOUS
<1>1. CASE ObjectNext
  BY <1>1, ParseType, LoadSchemaType, UpdateType, QueryType, RemoveType, DestroyType, PassType,
     CallType, EndLevelType, QueryEndsType, ReturnType, LeaveType, TerminateType, BuiltType,
     EnterType, CloseType DEF ObjectNext
<1>2. CASE UNCHANGED objectVars
  BY <1>2, SameCallbacks
     DEF objectVars, document, handles, contexts, TypeInv, ObjectTypeOK
<1> QED  BY <1>1, <1>2

LEMMA TypeInvariant == ObjectSpec => []TypeInv
BY TypeInit, TypeNext, PTL DEF ObjectSpec

\* ObjectTypeOK: the registry, the documents and the queries are well typed.
THEOREM ObjectTypeCorrect == ObjectSpec => []ObjectTypeOK
<1>1. TypeInv => ObjectTypeOK
  BY DEF TypeInv
<1> QED  BY <1>1, TypeInvariant, PTL

-----------------------------------------------------------------------------
(* The registry and the wrappers.                                          *)

\* JS runs in a context that is open, and queries are on the stack of JS.
JsInOpenContext ==
    /\ js.ctx # 0 => js.ctx \in open
    /\ walks # <<>> => js.ctx # 0

RegistryInv == TypeInv /\ RegistryFollowsWrappers /\ JsInOpenContext

\* A new object has a new symbol, and its wrapper is in the context JS runs in.
LEMMA PutNewRegistered ==
    ASSUME ObjectTypeOK, RegistryFollowsWrappers, NEW e, PutNew(e), js.ctx \in open, open' = open
    PROVE  RegistryFollowsWrappers'
BY DEF PutNew, RegistryFollowsWrappers, ObjectTypeOK

\* put_new takes a symbol of its own, and leaves the other objects there.
LEMMA PutNewKeeps ==
    ASSUME ObjectTypeOK, RegistryFollowsWrappers, NEW e, PutNew(e)
    PROVE  \E t \in Symbols :
              /\ t \notin DOMAIN registry /\ DOMAIN registry' = DOMAIN registry \cup {t}
              /\ registry'[t] = e
              /\ \A s \in DOMAIN registry : registry'[s] = registry[s]
BY DEF PutNew, RegistryFollowsWrappers, ObjectTypeOK

\* Wrappers and objects go together.
LEMMA DropRegistered ==
    ASSUME ObjectTypeOK, RegistryFollowsWrappers, NEW S, registry' = Without(S), Drop(S),
           open' = open
    PROVE  RegistryFollowsWrappers'
<1>1. /\ DOMAIN registry' = DOMAIN registry \ S
      /\ \A s \in Symbols : wrapper'[s] = IF s \in S THEN "none" ELSE wrapper[s]
      /\ \A s \in Symbols : home'[s] = IF s \in S THEN 0 ELSE home[s]
  BY WithoutType DEF Drop
<1> QED  BY <1>1 DEF RegistryFollowsWrappers, ObjectTypeOK

\* At first there is neither an object nor a wrapper, and JS is in the first context.
LEMMA RegistryInit == ObjectInit => RegistryFollowsWrappers /\ JsInOpenContext
BY DEF ObjectInit, RegistryFollowsWrappers, JsInOpenContext

\* Steps that change neither objects nor wrappers
LEMMA SameRegistry ==
    ASSUME RegistryFollowsWrappers, UNCHANGED <<handles, open>>
    PROVE  RegistryFollowsWrappers'
BY DEF RegistryFollowsWrappers, handles

\* What JS calls, and the walk, leave the context alone.
LEMMA SameContext ==
    ASSUME RegistryInv, JsRuns \/ walks # <<>>, UNCHANGED contexts
    PROVE  JsInOpenContext' /\ js.ctx \in open
BY DEF RegistryInv, JsInOpenContext, JsRuns, contexts

\* Calls of JS keep the registry and the wrappers together.
LEMMA CallsRegistered ==
    ASSUME RegistryInv,
           \/ Parse \/ LoadSchema \/ Pass \/ Call \/ EndLevel \/ QueryEnds
           \/ \E recursive \in BOOLEAN : CallbackReturns(recursive)
           \/ \E s \in Symbols : Remove(s) \/ Destroy(s)
           \/ \E s \in Symbols, value \in Updates : Update(s, value)
           \/ \E s \in Symbols, filter \in Queries : Query(s, filter)
    PROVE  RegistryFollowsWrappers' /\ JsInOpenContext'
<1>1. /\ JsRuns \/ walks # <<>>
      /\ UNCHANGED contexts
  BY DEF Parse, LoadSchema, Pass, Call, EndLevel, QueryEnds, CallbackReturns, Remove, Destroy,
         Update, Query, AtNode, Walking
<1>2. JsInOpenContext' /\ js.ctx \in open /\ open' = open
  BY <1>1, SameContext DEF contexts
<1>3. CASE \E e : PutNew(e)
  BY <1>2, <1>3, PutNewRegistered DEF RegistryInv, TypeInv
<1>4. CASE UNCHANGED handles
  BY <1>2, <1>4, SameRegistry DEF RegistryInv
<1>5. CASE \E s \in Symbols : registry' = Without({s}) /\ Drop({s})
  BY <1>2, <1>5, DropRegistered DEF RegistryInv, TypeInv
<1>6. \/ \E e : PutNew(e)
      \/ UNCHANGED handles
      \/ \E s \in Symbols : registry' = Without({s}) /\ Drop({s})
  BY DEF Parse, LoadSchema, Pass, Call, EndLevel, QueryEnds, CallbackReturns, Remove, Destroy,
         Update, Query, handles
<1> QED  BY <1>2, <1>3, <1>4, <1>5, <1>6

\* So do enter(), the finalizers, and the replacement of a context.
LEMMA RegistryNext ==
    RegistryInv /\ [ObjectNext]_objectVars => RegistryFollowsWrappers' /\ JsInOpenContext'
<1> SUFFICES ASSUME RegistryInv, [ObjectNext]_objectVars
             PROVE  RegistryFollowsWrappers' /\ JsInOpenContext'
  OBVIOUS
<1>1. CASE \/ Parse \/ LoadSchema \/ Pass \/ Call \/ EndLevel \/ QueryEnds
           \/ \E recursive \in BOOLEAN : CallbackReturns(recursive)
           \/ \E s \in Symbols : Remove(s) \/ Destroy(s)
           \/ \E s \in Symbols, value \in Updates : Update(s, value)
           \/ \E s \in Symbols, filter \in Queries : Query(s, filter)
  BY <1>1, CallsRegistered
<1>2. ASSUME NEW c \in 1 .. MaxContexts, Enter(c)
      PROVE  RegistryFollowsWrappers' /\ JsInOpenContext'
  <2>1. RegistryFollowsWrappers'
    BY <1>2, SameRegistry DEF Enter, RegistryInv
  <2>2. js'.ctx = c /\ c \in open /\ open' = open
    BY <1>2 DEF Enter
  <2> QED  BY <1>2, <2>1, <2>2 DEF Enter, JsInOpenContext, RegistryInv
<1>3. ASSUME Leave PROVE RegistryFollowsWrappers' /\ JsInOpenContext'
  <2>1. \E S : registry' = Without(S) /\ Drop(S)
    BY <1>3 DEF Leave
  <2>2. RegistryFollowsWrappers'
    BY <1>3, <2>1, DropRegistered DEF Leave, RegistryInv, TypeInv
  <2>3. js'.ctx = 0 /\ walks' = <<>>
    BY <1>3 DEF Leave, RegistryInv, TypeInv, ObjectTypeOK
  <2> QED  BY <2>2, <2>3 DEF JsInOpenContext
<1>4. ASSUME Terminate PROVE RegistryFollowsWrappers' /\ JsInOpenContext'
  <2>1. DOMAIN registry' = {}
    <3>1. registry' = Without(Symbols)
      BY <1>4, Zenon DEF Terminate
    <3>2. DOMAIN registry' = DOMAIN registry \ Symbols /\ DOMAIN registry \subseteq Symbols
      BY <3>1, WithoutType DEF RegistryInv, TypeInv, ObjectTypeOK
    <3> QED  BY <3>2
  <2>2. ASSUME NEW s \in Symbols
        PROVE  wrapper'[s] = IF wrapper[s] = "held" THEN "stale"
                             ELSE IF wrapper[s] = "gone" THEN "none" ELSE wrapper[s]
    BY <1>4, <2>2, Zenon DEF Terminate
  <2>3. home' = home /\ open' = open \cup {ctx + 1} /\ js'.ctx = ctx + 1 /\ walks' = <<>>
    BY <1>4 DEF Terminate
  <2>4. RegistryFollowsWrappers'
    BY <2>1, <2>2, <2>3 DEF RegistryFollowsWrappers, RegistryInv, TypeInv, ObjectTypeOK
  <2> QED  BY <2>3, <2>4 DEF JsInOpenContext
<1>5. ASSUME Built PROVE RegistryFollowsWrappers' /\ JsInOpenContext'
  <2>1. RegistryFollowsWrappers'
    BY <1>5, SameRegistry DEF Built, RegistryInv
  <2>2. js'.ctx = 0 /\ walks' = <<>>
    BY <1>5 DEF Built
  <2> QED  BY <2>1, <2>2 DEF JsInOpenContext
<1>6. ASSUME NEW c \in 1 .. MaxContexts, Close(c)
      PROVE  RegistryFollowsWrappers' /\ JsInOpenContext'
  <2>1. /\ registry' = registry /\ open' = open \ {c}
        /\ \A s \in Symbols :
              /\ home[s] = c => wrapper'[s] = IF s \in DOMAIN registry THEN "gone" ELSE "none"
              /\ home[s] # c => wrapper'[s] = wrapper[s] /\ home'[s] = home[s]
    BY <1>6 DEF Close
  <2>2. RegistryFollowsWrappers'
    BY <2>1 DEF RegistryFollowsWrappers, RegistryInv, TypeInv, ObjectTypeOK
  <2>3. js'.ctx = 0 /\ walks' = walks
    BY <1>6 DEF Close
  <2>4. walks = <<>>
    BY <1>6 DEF Close, RegistryInv, JsInOpenContext
  <2> QED  BY <2>2, <2>3, <2>4 DEF JsInOpenContext
<1>7. CASE UNCHANGED objectVars
  <2>1. UNCHANGED handles /\ UNCHANGED <<open, js, walks>>
    BY <1>7 DEF objectVars, contexts
  <2> QED  BY <2>1, SameRegistry DEF RegistryInv, JsInOpenContext
<1> QED  BY <1>1, <1>2, <1>3, <1>4, <1>5, <1>6, <1>7 DEF ObjectNext

LEMMA RegistryInvariant == ObjectSpec => []RegistryInv
<1>1. ObjectInit => RegistryInv
  BY TypeInit, RegistryInit DEF RegistryInv
<1>2. RegistryInv /\ [ObjectNext]_objectVars => RegistryInv'
  BY TypeNext, RegistryNext DEF RegistryInv
<1> QED  BY <1>1, <1>2, PTL DEF ObjectSpec

\* RegistryFollowsWrappers: whatever contexts are replaced, entered again and
\* collected, an object JS has and has not destroyed is registered, and what is
\* registered can be taken out by its wrapper or was left behind by a context.
THEOREM RegistryMatchesWrappers == ObjectSpec => []RegistryFollowsWrappers
<1>1. RegistryInv => RegistryFollowsWrappers
  BY DEF RegistryInv
<1> QED  BY <1>1, RegistryInvariant, PTL

-----------------------------------------------------------------------------
(* Documents.                                                              *)

\* All that is held of a document holds its root,
HoldsTheRoot ==
    /\ \A s \in DOMAIN registry : registry[s].type = "dom" => registry[s].root = Root
    /\ \A i \in DOMAIN walks : walks[i].root = Root

\* nodes are where they were parsed, if anywhere,
NodesStay ==
    /\ \A n \in Nodes : tree[n] \subseteq shape[n]
    /\ \A n \in Nodes : parent[n] # Nobody => n \in shape[parent[n]]

\* and while it is held, nothing else has changed below the root.
InUse == walks # <<>> \/ \E s \in DOMAIN registry : registry[s].type = "dom"

Whole == \A n \in Reach({Root}, Intended) : tree[n] = Intended[n]

DocumentInv == RegistryInv /\ HoldsTheRoot /\ NodesStay /\ (InUse => Whole)

\* The root is held as long as anything of its document is,
LEMMA HeldRoot ==
    ASSUME NEW reg, NEW ws, ws \in Seq(Walks),
           \A s \in DOMAIN reg : reg[s].type = "dom" => reg[s].root = Root,
           \A i \in DOMAIN ws : ws[i].root = Root,
           ws # <<>> \/ \E s \in DOMAIN reg : reg[s].type = "dom"
    PROVE  Root \in Held(reg, ws)
<1>1. ASSUME NEW s \in DOMAIN reg, reg[s].type = "dom" PROVE Root \in Held(reg, ws)
  BY <1>1 DEF Held, EntryHolds
<1>2. ASSUME ws # <<>> PROVE Root \in Held(reg, ws)
  <2>1. 1 \in DOMAIN ws
    BY <1>2
  <2>2. Root \in WalkHolds(ws[1])
    BY <2>1 DEF WalkHolds
  <2> QED  BY <2>1, <2>2 DEF Held
<1> QED  BY <1>1, <1>2

\* and what is held are nodes.
LEMMA HeldType ==
    ASSUME NEW reg, NEW ws, ws \in Seq(Walks), reg \in [DOMAIN reg -> Entries]
    PROVE  Held(reg, ws) \in SUBSET Nodes
<1>1. ASSUME NEW s \in DOMAIN reg PROVE EntryHolds(reg[s]) \subseteq Nodes
  <2>1. reg[s] \in Entries
    OBVIOUS
  <2> QED  BY <2>1 DEF Entries, EntryHolds
<1>2. ASSUME NEW i \in DOMAIN ws PROVE WalkHolds(ws[i]) \subseteq Nodes
  <2>1. ws[i] \in Walks
    BY <1>2
  <2>2. ws[i].levels \in Seq(Levels) /\ ws[i].root \in Nodes /\ ws[i].start \in Nodes
    BY <2>1 DEF Walks
  <2>3. \A j \in DOMAIN ws[i].levels : ws[i].levels[j].copy \subseteq Nodes
    <3>1. \A l \in Levels : l.copy \subseteq Nodes
      BY DEF Levels
    <3> QED  BY <2>2, <3>1
  <2> QED  BY <2>2, <2>3 DEF WalkHolds
<1>3. ASSUME NEW x \in Held(reg, ws) PROVE x \in Nodes
  <2>1. \/ \E s \in DOMAIN reg : x \in EntryHolds(reg[s])
        \/ \E i \in DOMAIN ws : x \in WalkHolds(ws[i])
    BY <1>3 DEF Held
  <2> QED  BY <1>1, <1>2, <2>1
<1> QED  BY <1>3

\* The document as it was parsed, as it is, and as it is meant to be
LEMMA IntendedType ==
    ASSUME ObjectTypeOK
    PROVE  Intended \in Trees /\ shape \in Trees /\ tree \in Trees /\ Root \in Nodes
BY DocumentsAssumption DEF ObjectTypeOK, Intended, IsDocument, Trees, Root, Nodes

\* Steps after which the documents are as before
LEMMA SameDocument ==
    ASSUME DocumentInv, RegistryInv', UNCHANGED <<shape, tree, parent>>, HoldsTheRoot',
           InUse' => InUse
    PROVE  DocumentInv'
<1>1. Intended' = Intended
  BY DEF Intended
<1>2. Whole' <=> Whole
  BY <1>1 DEF Whole
<1>3. NodesStay'
  BY DEF DocumentInv, NodesStay
<1> QED  BY <1>2, <1>3 DEF DocumentInv

\* Steps that let go of nodes
LEMMA ReleaseStep ==
    ASSUME DocumentInv, RegistryInv', ReleaseNodes(tree), UNCHANGED <<shape, parent>>,
           HoldsTheRoot', InUse' => InUse
    PROVE  DocumentInv'
<1>1. /\ Intended \in Trees /\ shape \in Trees /\ tree \in Trees /\ Root \in Nodes
      /\ IsDocument(shape) /\ \A n \in Nodes : tree[n] \subseteq shape[n]
  BY IntendedType DEF DocumentInv, RegistryInv, TypeInv, ObjectTypeOK, NodesStay
<1>2. tree' = Release(tree, Held(registry', walks'))
  BY DEF ReleaseNodes
<1>3. NodesStay'
  <2>1. \A n \in Nodes : tree'[n] \subseteq tree[n]
    BY <1>1, <1>2 DEF Release
  <2> QED  BY <1>1, <2>1 DEF DocumentInv, NodesStay
<1>4. ASSUME InUse' PROVE Whole'
  <2>1. Whole
    BY <1>4 DEF DocumentInv
  <2>2. Reach({Root}, tree) = Reach({Root}, Intended)
    BY <1>1, <2>1, ReachAgrees DEF Whole
  <2>3. walks' \in Seq(Walks) /\ registry' \in [DOMAIN registry' -> Entries]
    BY DEF RegistryInv, TypeInv, ObjectTypeOK
  <2>4. Held(registry', walks') \in SUBSET Nodes /\ Root \in Held(registry', walks')
    BY <1>4, <2>3, HeldType, HeldRoot DEF HoldsTheRoot, InUse
  <2>5. \A n \in Reach({Root}, tree) : tree'[n] = tree[n]
    BY <1>1, <1>2, <2>4, ReleaseKeeps
  <2>6. Intended' = Intended
    BY DEF Intended
  <2> QED  BY <2>1, <2>2, <2>5, <2>6 DEF Whole
<1> QED  BY <1>3, <1>4 DEF DocumentInv

\* The node that is removed has one parent, and is all that parent loses.
LEMMA RemoveStep ==
    ASSUME DocumentInv, RegistryInv', NEW s \in Symbols, Remove(s)
    PROVE  DocumentInv'
<1> DEFINE n == registry[s].node
           p == parent[n]
<1>1. /\ n \in Nodes /\ parent' = [parent EXCEPT ![n] = Nobody]
      /\ tree' = IF p = Nobody THEN tree ELSE [tree EXCEPT ![p] = tree[p] \ {n}]
      /\ UNCHANGED <<shape, registry, walks>>
  BY GetFacts DEF Remove, handles, DocumentInv, RegistryInv, TypeInv
<1>2. /\ Intended \in Trees /\ Intended' \in Trees /\ shape \in Trees /\ tree \in Trees
      /\ tree' \in Trees /\ Root \in Nodes /\ IsDocument(shape)
      /\ parent \in [Nodes -> Nodes \cup {Nobody}]
  <2>1. /\ Intended \in Trees /\ shape \in Trees /\ tree \in Trees /\ Root \in Nodes
        /\ IsDocument(shape) /\ parent \in [Nodes -> Nodes \cup {Nobody}]
    BY IntendedType DEF DocumentInv, RegistryInv, TypeInv, ObjectTypeOK
  <2>2. tree' \in Trees
    BY DEF RegistryInv, TypeInv, ObjectTypeOK, Trees
  <2>3. Intended' = [m \in Nodes |-> {k \in shape[m] : parent'[k] # Nobody}]
    BY <1>1 DEF Intended
  <2> QED  BY <2>1, <2>2, <2>3 DEF Trees
<1>3. HoldsTheRoot'
  BY <1>1 DEF DocumentInv, HoldsTheRoot
<1>4. NodesStay'
  <2>1. \A m \in Nodes : tree'[m] \subseteq tree[m]
    BY <1>1, <1>2 DEF Trees
  <2>2. ASSUME NEW m \in Nodes, parent'[m] # Nobody PROVE m \in shape[parent'[m]]
    BY <1>1, <1>2, <2>2 DEF DocumentInv, NodesStay
  <2> QED  BY <1>1, <2>1, <2>2 DEF DocumentInv, NodesStay
<1>5. ASSUME InUse' PROVE Whole'
  <2>1. InUse
    BY <1>1, <1>5 DEF InUse
  <2>2. \A m \in Reach({Root}, Intended) : tree[m] = Intended[m]
    BY <2>1 DEF DocumentInv, Whole
  <2>3. ASSUME NEW m \in Nodes PROVE Intended'[m] = Intended[m] \ {n}
    <3>1. /\ Intended[m] = {k \in shape[m] : parent[k] # Nobody}
          /\ Intended'[m] = {k \in shape[m] : parent'[k] # Nobody}
      BY <1>1, <2>3 DEF Intended
    <3>2. \A k \in shape[m] : k \in Nodes
      BY <1>2, <2>3 DEF Trees
    <3> QED  BY <1>1, <1>2, <3>1, <3>2
  <2>4. ASSUME NEW m \in Nodes, n \in tree[m] PROVE m = p \/ p = Nobody
    <3>1. n \in shape[m]
      BY <2>4 DEF DocumentInv, NodesStay
    <3>2. p # Nobody => n \in shape[p] /\ p \in Nodes
      BY <1>1, <1>2 DEF DocumentInv, NodesStay
    <3> QED  BY <1>1, <1>2, <2>4, <3>1, <3>2 DEF IsDocument
  <2>5. ASSUME NEW m \in Nodes, tree[m] = Intended[m] PROVE tree'[m] = Intended'[m]
    <3>1. CASE p = Nobody
      <4>1. n \notin Intended[m]
        BY <3>1 DEF Intended
      <4> QED  BY <1>1, <2>3, <2>5, <3>1, <4>1
    <3>2. CASE p # Nobody /\ m = p
      BY <1>1, <1>2, <2>3, <2>5, <3>2 DEF Trees
    <3>3. CASE p # Nobody /\ m # p
      <4>1. n \notin tree[m] /\ tree'[m] = tree[m]
        BY <1>1, <1>2, <2>4, <3>3 DEF Trees
      <4> QED  BY <2>3, <2>5, <4>1
    <3> QED  BY <3>1, <3>2, <3>3
  <2>6. /\ Reach({Root}, Intended) \in SUBSET Nodes
        /\ {Root} \subseteq Reach({Root}, Intended)
    BY <1>2, ReachClosed
  <2>7. Reach({Root}, Intended') \subseteq Reach({Root}, Intended)
    <3>1. \A m \in Reach({Root}, Intended) : Intended'[m] \subseteq Intended[m]
      BY <2>3, <2>6
    <3>2. {Root} \in SUBSET Nodes
      BY <1>2
    <3> QED  BY <1>2, <2>6, <3>1, <3>2, ReachGrows
  <2> QED  BY <2>2, <2>5, <2>6, <2>7 DEF Whole
<1> QED  BY <1>3, <1>4, <1>5 DEF DocumentInv

\* A parsed document has what was parsed.
LEMMA ParseStep ==
    ASSUME DocumentInv, RegistryInv', Parse
    PROVE  DocumentInv'
<1>1. /\ Held(registry, walks) = {} /\ shape' \in Shapes /\ tree' = shape'
      /\ PutNew(DomHandle(Root, Root)) /\ walks' = walks
      /\ parent' = [n \in Nodes |-> IF \E m \in Nodes : n \in shape'[m]
                                    THEN CHOOSE m \in Nodes : n \in shape'[m] ELSE Nobody]
  BY DEF Parse
<1>2. walks \in Seq(Walks) /\ Root \in Nodes /\ shape' \in Trees
  BY DocumentsAssumption DEF DocumentInv, RegistryInv, TypeInv, ObjectTypeOK, Root, Nodes,
     IsDocument, Trees
<1>3. ~InUse
  BY <1>1, <1>2, HeldRoot DEF InUse, DocumentInv, HoldsTheRoot
<1>4. HoldsTheRoot'
  <2>1. PICK t \in Symbols :
           /\ t \notin DOMAIN registry /\ DOMAIN registry' = DOMAIN registry \cup {t}
           /\ registry'[t] = DomHandle(Root, Root)
           /\ \A s \in DOMAIN registry : registry'[s] = registry[s]
    BY <1>1, PutNewKeeps DEF DocumentInv, RegistryInv, TypeInv
  <2>2. DomHandle(Root, Root).root = Root
    BY <1>2, HandleType
  <2> QED  BY <1>1, <2>1, <2>2 DEF DocumentInv, HoldsTheRoot
<1>5. ASSUME NEW n \in Nodes
      PROVE  /\ parent'[n] # Nobody => n \in shape'[parent'[n]]
             /\ \A m \in Nodes : n \in shape'[m] => parent'[n] # Nobody
  BY <1>1, NobodyAssumption
<1>6. NodesStay'
  BY <1>1, <1>5 DEF NodesStay
<1>7. Intended' = shape'
  <2>1. Intended' = [n \in Nodes |-> {m \in shape'[n] : parent'[m] # Nobody}]
    BY DEF Intended
  <2>2. ASSUME NEW n \in Nodes PROVE {m \in shape'[n] : parent'[m] # Nobody} = shape'[n]
    BY <1>2, <1>5 DEF Trees
  <2> QED  BY <1>2, <2>1, <2>2 DEF Trees
<1>8. Whole'
  BY <1>1, <1>7 DEF Whole
<1> QED  BY <1>4, <1>6, <1>8 DEF DocumentInv

\* At first there is no document.
LEMMA DocumentInit == ObjectInit => HoldsTheRoot /\ NodesStay /\ ~InUse
<1> SUFFICES ASSUME ObjectInit PROVE HoldsTheRoot /\ NodesStay /\ ~InUse
  OBVIOUS
<1>1. DOMAIN registry = {} /\ walks = <<>> /\ DOMAIN walks = {}
  BY DEF ObjectInit
<1>2. NodesStay
  BY DEF ObjectInit, NodesStay
<1> QED  BY <1>1, <1>2 DEF HoldsTheRoot, InUse

\* A new handle holds the root that what it was made of holds.
LEMMA PutNewHolds ==
    ASSUME DocumentInv, NEW e, PutNew(e), e.type = "dom" => e.root = Root
    PROVE  /\ \A s \in DOMAIN registry' : registry'[s].type = "dom" => registry'[s].root = Root
           /\ (\E s \in DOMAIN registry' : registry'[s].type = "dom")
                 => e.type = "dom" \/ \E s \in DOMAIN registry : registry[s].type = "dom"
<1>1. PICK t \in Symbols :
         /\ t \notin DOMAIN registry /\ DOMAIN registry' = DOMAIN registry \cup {t}
         /\ registry'[t] = e
         /\ \A s \in DOMAIN registry : registry'[s] = registry[s]
  BY PutNewKeeps DEF DocumentInv, RegistryInv, TypeInv
<1> QED  BY <1>1 DEF DocumentInv, HoldsTheRoot

\* Objects that are taken out leave the others as they are.
LEMMA WithoutHolds ==
    ASSUME DocumentInv, NEW S, registry' = Without(S)
    PROVE  /\ \A s \in DOMAIN registry' : registry'[s].type = "dom" => registry'[s].root = Root
           /\ (\E s \in DOMAIN registry' : registry'[s].type = "dom")
                 => \E s \in DOMAIN registry : registry[s].type = "dom"
BY WithoutType DEF DocumentInv, HoldsTheRoot, RegistryInv, TypeInv

\* The queries go on with the roots they had.
LEMMA SetInnerHolds ==
    ASSUME DocumentInv, walks # <<>>, NEW w \in Walks, SetInner(w), w.root = Inner.root
    PROVE  /\ \A i \in DOMAIN walks' : walks'[i].root = Root
           /\ Inner.root = Root
<1>1. /\ Len(walks) \in DOMAIN walks /\ Inner = walks[Len(walks)]
      /\ DOMAIN walks' = DOMAIN walks /\ walks'[Len(walks)] = w
      /\ \A i \in DOMAIN walks : i # Len(walks) => walks'[i] = walks[i]
  BY InnerFacts, SetInnerFacts DEF DocumentInv, RegistryInv, TypeInv
<1> QED  BY <1>1 DEF DocumentInv, HoldsTheRoot

\* One lemma per operation again: what is left of the document is whole.
LEMMA LoadSchemaStep == ASSUME DocumentInv, RegistryInv', LoadSchema PROVE DocumentInv'
<1>1. PutNew([type |-> "schema"]) /\ UNCHANGED <<shape, tree, parent, walks>>
  BY DEF LoadSchema, document
<1> QED  BY <1>1, PutNewHolds, SameDocument DEF DocumentInv, HoldsTheRoot, InUse

\* An update leaves the tree alone,
LEMMA UpdateStep ==
    ASSUME DocumentInv, RegistryInv', NEW s \in Symbols, NEW value \in Updates, Update(s, value)
    PROVE  DocumentInv'
<1> DEFINE n == registry[s].node
<1>1. n \in Nodes
  BY GetFacts DEF Update, DocumentInv, RegistryInv, TypeInv
<1>2. /\ UNCHANGED <<shape, tree, parent, registry>>
      /\ walks' = [i \in DOMAIN walks |->
                      [walks[i] EXCEPT !.touched = walks[i].touched \cup {n}]]
  BY DEF Update, handles
<1>3. /\ walks \in Seq(Walks) /\ walks' \in Seq(Walks) /\ DOMAIN walks' = DOMAIN walks
      /\ \A i \in DOMAIN walks :
            walks'[i] = [walks[i] EXCEPT !.touched = walks[i].touched \cup {n}]
  BY <1>1, <1>2, UpdateWalks DEF DocumentInv, RegistryInv, TypeInv, ObjectTypeOK
<1>4. ASSUME NEW i \in DOMAIN walks' PROVE walks'[i].root = Root
  <2>1. walks[i] \in Walks /\ walks[i].root = Root
    BY <1>3, <1>4 DEF DocumentInv, HoldsTheRoot
  <2>2. walks'[i].root = walks[i].root
    BY <1>3, <1>4, <2>1 DEF Walks
  <2> QED  BY <2>1, <2>2
<1>5. HoldsTheRoot'
  BY <1>2, <1>4 DEF DocumentInv, HoldsTheRoot
<1>6. InUse' => InUse
  BY <1>2, <1>3 DEF InUse
<1> QED  BY <1>2, <1>5, <1>6, SameDocument

\* and a query holds the root of the handle that it is asked of,
LEMMA QueryStep ==
    ASSUME DocumentInv, RegistryInv', NEW s \in Symbols, NEW filter \in Queries, Query(s, filter)
    PROVE  DocumentInv'
<1>1. UNCHANGED <<shape, tree, parent, registry>>
  BY DEF Query, document, handles
<1>2. s \in DOMAIN registry /\ registry[s].type = "dom" /\ registry[s].root = Root
  BY GetFacts DEF Query, DocumentInv, RegistryInv, TypeInv, HoldsTheRoot
<1>3. HoldsTheRoot'
  <2>1. TypeInv
    BY DEF DocumentInv, RegistryInv
  <2>2. /\ DOMAIN walks' = DOMAIN walks \cup {Len(walks) + 1}
        /\ \A i \in DOMAIN walks : walks'[i] = walks[i]
    BY <2>1, QueryWalks
  <2>3. walks'[Len(walks) + 1] =
           [root |-> registry[s].root, start |-> registry[s].node, filter |-> filter,
            levels |-> <<[copy |-> {registry[s].node}, left |-> {registry[s].node}]>>,
            phase |-> "walking", calls |-> <<>>, refused |-> {}, touched |-> {}]
    BY <2>1, QueryWalks
  <2>4. walks'[Len(walks) + 1].root = registry[s].root
    BY <2>3
  <2> QED  BY <1>1, <1>2, <2>2, <2>4 DEF DocumentInv, HoldsTheRoot
<1>4. InUse
  BY <1>2 DEF InUse
<1> QED  BY <1>1, <1>3, <1>4, SameDocument

\* also while it goes on.
LEMMA WalkStep ==
    ASSUME DocumentInv, RegistryInv',
           Pass \/ Call \/ \E recursive \in BOOLEAN : CallbackReturns(recursive)
    PROVE  DocumentInv'
<1>1. walks # <<>> /\ UNCHANGED <<shape, tree, parent>> /\ TypeInv /\ InUse
  BY DEF Pass, Call, CallbackReturns, AtNode, Walking, document, DocumentInv, RegistryInv, InUse
<1>2. \E w \in Walks : SetInner(w) /\ w.root = Inner.root
  <2>1. CASE Pass
    <3>1. /\ Inner.levels # <<>> /\ Level(Inner).left # {} /\ SetInner(Descend(Inner))
      BY <2>1 DEF Pass, AtNode
    <3>2. Inner \in Walks /\ tree \in [Nodes -> SUBSET Nodes]
      BY <1>1, InnerFacts DEF TypeInv, ObjectTypeOK
    <3> QED  BY <3>1, <3>2, DescendType
  <2>2. CASE Call
    <3> DEFINE w == [Inner EXCEPT !.phase = "callback",
                                  !.calls = Append(Inner.calls, At(Inner))]
    <3>1. w \in Walks /\ SetInner(w)
      BY <1>1, <2>2, CallWalk DEF Call
    <3>2. w.root = Inner.root
      BY <1>1, InnerFacts DEF TypeInv, Walks
    <3> QED  BY <3>1, <3>2
  <2>3. CASE \E recursive \in BOOLEAN : CallbackReturns(recursive)
    BY <1>1, <2>3, ReturnWalk
  <2> QED  BY <2>1, <2>2, <2>3
<1>3. Inner.root = Root /\ \A i \in DOMAIN walks' : walks'[i].root = Root
  BY <1>1, <1>2, SetInnerHolds
<1>4. \A s \in DOMAIN registry' : registry'[s].type = "dom" => registry'[s].root = Root
  <2>1. CASE Call
    <3>1. /\ PutNew(DomHandle(Inner.root, At(Inner)))
          /\ DomHandle(Inner.root, At(Inner)).root = Inner.root
      BY <1>1, <2>1, CallWalk, HandleType DEF Call
    <3> QED  BY <1>3, <3>1, PutNewHolds
  <2>2. CASE registry' = registry
    BY <2>2 DEF DocumentInv, HoldsTheRoot
  <2> QED  BY <2>1, <2>2 DEF Pass, CallbackReturns, handles
<1> QED  BY <1>1, <1>3, <1>4, SameDocument DEF HoldsTheRoot

\* Whatever is let go of, the root is held if anything is.
LEMMA LetGoStep ==
    ASSUME DocumentInv, RegistryInv',
           \/ EndLevel \/ QueryEnds \/ Leave \/ Terminate
           \/ \E s \in Symbols : Destroy(s)
    PROVE  DocumentInv'
<1>1. ReleaseNodes(tree) /\ UNCHANGED <<shape, parent>>
  BY Zenon DEF EndLevel, QueryEnds, Leave, Terminate, Destroy
<1>2. registry' = registry \/ \E S : registry' = Without(S)
  BY Zenon DEF EndLevel, QueryEnds, Leave, Terminate, Destroy
<1>3. /\ \A s \in DOMAIN registry' : registry'[s].type = "dom" => registry'[s].root = Root
      /\ (\E s \in DOMAIN registry' : registry'[s].type = "dom")
            => \E s \in DOMAIN registry : registry[s].type = "dom"
  BY <1>2, WithoutHolds DEF DocumentInv, HoldsTheRoot
<1>4. /\ \A i \in DOMAIN walks' : walks'[i].root = Root
      /\ walks' # <<>> => walks # <<>>
  <2>1. CASE EndLevel
    <3>1. walks # <<>> /\ \E w \in Walks : SetInner(w) /\ w.root = Inner.root
      BY <2>1, EndLevelWalk DEF EndLevel, Walking, DocumentInv, RegistryInv
    <3> QED  BY <3>1, SetInnerHolds
  <2>2. CASE QueryEnds
    <3>1. /\ walks # <<>> /\ DOMAIN walks' \subseteq DOMAIN walks
          /\ \A i \in DOMAIN walks' : walks'[i] = walks[i]
      BY <2>2, FewerQueries DEF QueryEnds, DocumentInv, RegistryInv
    <3> QED  BY <3>1 DEF DocumentInv, HoldsTheRoot
  <2>3. CASE walks' = walks
    BY <2>3 DEF DocumentInv, HoldsTheRoot
  <2>4. CASE walks' = <<>>
    BY <2>4
  <2>5. EndLevel \/ QueryEnds \/ walks' = walks \/ walks' = <<>>
    BY Zenon DEF Leave, Terminate, Destroy
  <2> QED  BY <2>1, <2>2, <2>3, <2>4, <2>5
<1>5. HoldsTheRoot' /\ (InUse' => InUse)
  BY <1>3, <1>4 DEF HoldsTheRoot, InUse
<1> QED  BY <1>1, <1>5, ReleaseStep

LEMMA DocumentNext == DocumentInv /\ [ObjectNext]_objectVars /\ RegistryInv' => DocumentInv'
<1> SUFFICES ASSUME DocumentInv, [ObjectNext]_objectVars, RegistryInv' PROVE DocumentInv'
  OBVIOUS
<1>1. CASE UNCHANGED <<document, registry, walks>>
  <2>1. UNCHANGED <<shape, tree, parent>> /\ HoldsTheRoot' /\ (InUse' => InUse)
    BY <1>1 DEF document, DocumentInv, HoldsTheRoot, InUse
  <2> QED  BY <2>1, SameDocument
<1>2. Built \/ (\E c \in 1 .. MaxContexts : Enter(c) \/ Close(c)) \/ UNCHANGED objectVars
      => UNCHANGED <<document, registry, walks>>
  BY Zenon DEF Built, Enter, Close, handles, objectVars
<1> QED
  BY <1>1, <1>2, ParseStep, LoadSchemaStep, UpdateStep, RemoveStep, QueryStep, WalkStep, LetGoStep
     DEF ObjectNext

LEMMA DocumentInvariant == ObjectSpec => []DocumentInv
<1>1. ObjectInit /\ RegistryInv => DocumentInv
  BY DocumentInit DEF DocumentInv
<1> QED  BY <1>1, DocumentNext, RegistryInvariant, PTL DEF ObjectSpec

\* DocumentsAreWhole: for documents of any shape and size, any handles, queries
\* and finalizers, a document that JS has a handle of is what was parsed but for
\* what was removed.
THEOREM DocumentsStayWhole == ObjectSpec => []DocumentsAreWhole
<1>1. ASSUME DocumentInv, NEW s \in DOMAIN registry, registry[s].type = "dom"
      PROVE  LET whole == Reach({registry[s].root}, Intended)
             IN  /\ \A n \in whole : tree[n] = Intended[n]
                 /\ registry[s].node \in whole =>
                       Serialized(s) = Reach({registry[s].node}, Intended)
  <2> DEFINE n == registry[s].node
  <2>1. registry[s].root = Root /\ \A m \in Reach({Root}, Intended) : tree[m] = Intended[m]
    BY <1>1 DEF DocumentInv, HoldsTheRoot, InUse, Whole
  <2>2. Intended \in Trees /\ tree \in Trees /\ Root \in Nodes
    BY <1>1, IntendedType DEF DocumentInv, RegistryInv, TypeInv
  <2>3. ASSUME n \in Reach({Root}, Intended)
        PROVE  Reach({n}, tree) = Reach({n}, Intended)
    <3>1. {n} \in SUBSET Nodes /\ {Root} \in SUBSET Nodes
      BY <2>2, <2>3, ReachClosed
    <3>2. Reach({n}, Intended) \subseteq Reach({Root}, Intended)
      BY <2>2, <2>3, <3>1, ReachGrows
    <3> QED  BY <2>1, <2>2, <3>1, <3>2, ReachAgrees
  <2> QED  BY <2>1, <2>3 DEF Serialized
<1>2. DocumentInv => DocumentsAreWhole
  BY <1>1 DEF DocumentsAreWhole
<1> QED  BY <1>2, DocumentInvariant, PTL

-----------------------------------------------------------------------------
(* Queries.                                                                *)

\* What is below a node of S is below S.
LEMMA ReachTransitive ==
    ASSUME NEW S \in SUBSET Nodes, NEW c \in Trees, NEW m \in Reach(S, c)
    PROVE  Reach({m}, c) \subseteq Reach(S, c)
<1>1. {m} \in SUBSET Nodes /\ {m} \subseteq Reach(S, c)
  BY ReachClosed
<1> QED  BY <1>1, ReachGrows

\* What is below a set is below one of its nodes.
LEMMA ReachSplits ==
    ASSUME NEW S \in SUBSET Nodes, NEW c \in Trees, NEW y \in Reach(S, c)
    PROVE  \E p \in S : y \in Reach({p}, c)
<1> DEFINE T == {x \in Nodes : \E p \in S : x \in Reach({p}, c)}
<1>1. ASSUME NEW p \in S
      PROVE  /\ p \in Reach({p}, c) /\ \A m \in Reach({p}, c) : c[m] \subseteq Reach({p}, c)
             /\ Reach({p}, c) \subseteq Nodes
  <2>1. {p} \in SUBSET Nodes
    OBVIOUS
  <2> QED  BY <2>1, ReachClosed
<1>2. T \in SUBSET Nodes /\ S \subseteq T
  BY <1>1
<1>3. ASSUME NEW m \in T PROVE c[m] \subseteq T
  <2>1. PICK p \in S : m \in Reach({p}, c)
    BY <1>3
  <2>2. c[m] \subseteq Reach({p}, c) /\ Reach({p}, c) \subseteq Nodes
    BY <1>1, <2>1
  <2> QED  BY <2>2
<1>4. Reach(S, c) \subseteq T
  <2> HIDE DEF T
  <2> QED  BY <1>2, <1>3, ReachLeast
<1> QED  BY <1>4

\* What is below a node is the node, or below one of its children.
LEMMA ReachStep ==
    ASSUME NEW a \in Nodes, NEW c \in Trees
    PROVE  /\ Reach({a}, c) \in SUBSET Nodes /\ a \in Reach({a}, c)
           /\ Reach(c[a], c) \subseteq Reach({a}, c)
           /\ \A y \in Reach({a}, c) : y = a \/ y \in Reach(c[a], c)
<1> DEFINE T == {a} \cup Reach(c[a], c)
<1>1. {a} \in SUBSET Nodes /\ c[a] \in SUBSET Nodes
  BY DEF Trees
<1>2. /\ Reach({a}, c) \in SUBSET Nodes /\ {a} \subseteq Reach({a}, c)
      /\ \A m \in Reach({a}, c) : c[m] \subseteq Reach({a}, c)
  BY <1>1, ReachClosed
<1>3. /\ Reach(c[a], c) \in SUBSET Nodes /\ c[a] \subseteq Reach(c[a], c)
      /\ \A m \in Reach(c[a], c) : c[m] \subseteq Reach(c[a], c)
  BY <1>1, ReachClosed
<1>4. Reach(c[a], c) \subseteq Reach({a}, c)
  BY <1>1, <1>2, ReachLeast
<1>5. T \in SUBSET Nodes /\ {a} \subseteq T /\ \A m \in T : c[m] \subseteq T
  BY <1>3
<1>6. Reach({a}, c) \subseteq T
  <2> HIDE DEF T
  <2> QED  BY <1>1, <1>5, ReachLeast
<1> QED  BY <1>2, <1>4, <1>6

\* What is below a node comes after it in document order.
LEMMA ReachAfter ==
    ASSUME NEW d \in Trees, IsDocument(d), NEW a \in Nodes, NEW y \in Reach({a}, d)
    PROVE  y \in Nodes /\ a <= y /\ (y # a => a < y)
<1> DEFINE T == {x \in Nodes : a <= x}
<1>1. Nodes \subseteq Nat
  BY DocumentsAssumption DEF Nodes
<1>2. {a} \in SUBSET Nodes /\ T \in SUBSET Nodes /\ {a} \subseteq T
  BY <1>1
<1>3. ASSUME NEW m \in T, NEW x \in d[m] PROVE x \in T
  <2>1. x \in Nodes /\ x > m
    BY <1>3 DEF IsDocument
  <2> QED  BY <1>1, <2>1
<1>4. Reach({a}, d) \subseteq T
  <2>1. \A m \in T : d[m] \subseteq T
    BY <1>3
  <2> HIDE DEF T
  <2> QED  BY <1>2, <2>1, ReachLeast
<1>5. y \in Nodes /\ a <= y
  BY <1>4
<1>6. y \in Nat /\ a \in Nat
  BY <1>1, <1>5
<1> QED  BY <1>5, <1>6

\* The one way to a node leads through every node above it.
LEMMA PathLemma ==
    ASSUME NEW d \in Trees, IsDocument(d), NEW c \in Trees, \A n \in Nodes : c[n] \subseteq d[n],
           NEW s \in Nodes, NEW p \in Reach({s}, d), NEW y \in Reach({s}, c),
           y \in Reach({p}, d)
    PROVE  y \in Reach({p}, c)
<1> DEFINE T == {x \in Reach({s}, c) : x \in Reach({p}, d) => x \in Reach({p}, c)}
<1>1. p \in Nodes
  BY ReachAfter
<1>2. /\ {s} \in SUBSET Nodes /\ {p} \in SUBSET Nodes
  BY <1>1
<1>3. /\ Reach({s}, c) \in SUBSET Nodes /\ s \in Reach({s}, c)
      /\ \A m \in Reach({s}, c) : c[m] \subseteq Reach({s}, c)
  BY <1>2, ReachClosed
<1>4. /\ p \in Reach({p}, c)
      /\ \A m \in Reach({p}, c) : c[m] \subseteq Reach({p}, c)
  BY <1>2, ReachClosed
<1>5. s \in T
  <2>1. ASSUME s \in Reach({p}, d) PROVE s = p
    <3>1. s <= p /\ p <= s
      BY <1>1, <2>1, ReachAfter
    <3> QED  BY <1>1, <3>1, DocumentsAssumption DEF Nodes
  <2> QED  BY <1>3, <1>4, <2>1
<1>6. ASSUME NEW m \in T, NEW x \in c[m] PROVE x \in T
  <2>1. x \in Reach({s}, c) /\ m \in Nodes /\ x \in Nodes /\ x \in d[m]
    BY <1>3, <1>6 DEF Trees
  <2>2. ASSUME x \in Reach({p}, d), x # p PROVE x \in Reach({p}, c)
    <3>1. PICK o \in Reach({p}, d) : x \in d[o]
      BY <1>2, <2>2, ReachOrigin
    <3>2. o \in Nodes
      BY <1>1, ReachAfter
    <3>3. o = m
      BY <2>1, <3>1, <3>2 DEF IsDocument
    <3>4. m \in Reach({p}, c)
      BY <1>6, <3>1, <3>3
    <3> QED  BY <1>4, <1>6, <3>4
  <2> QED  BY <1>4, <2>1, <2>2
<1>7. Reach({s}, c) \subseteq T
  <2>1. T \in SUBSET Nodes /\ {s} \subseteq T /\ \A m \in T : c[m] \subseteq T
    BY <1>3, <1>5, <1>6
  <2> HIDE DEF T
  <2> QED  BY <1>2, <2>1, ReachLeast
<1> QED  BY <1>7

\* The nodes a query has still to visit, with what is below them: what is left
\* at each level, but for the nodes whose children the next level visits
Pending(w) ==
    {n \in Nodes : \E i \in DOMAIN w.levels :
        /\ n \in w.levels[i].left
        /\ i # Len(w.levels) => n # Least(w.levels[i].left)}

\* What it may still call back for
Todo(w, children) ==
    IF w.phase = "callback" THEN Reach(Pending(w), children) \ {At(w)}
    ELSE Reach(Pending(w), children)

\* Each level is below the node that the one above it is at, and siblings are
\* left in document order.
Chained(w, children) ==
    \A i \in DOMAIN w.levels :
       /\ w.levels[i].left \subseteq Reach({w.start}, children)
       /\ \A a, b \in w.levels[i].left : a < b => \A x \in Reach({a}, children) : x < b
       /\ \A j \in DOMAIN w.levels : i < j =>
             LET at == Least(w.levels[i].left)
             IN  /\ w.levels[i].left # {}
                 /\ w.levels[j].left \subseteq Reach({at}, children) \ {at}

\* What matches was called for, or refused, or is still to come.
Covered(w, children, now, data) ==
    \A n \in Reach({w.start}, now) \ w.touched :
       Eval(w.filter, data[n]) =>
          \/ n \in Range(w.calls)
          \/ \E m \in w.refused : n \in Reach({m}, children) \ {m}
          \/ n \in Reach(Pending(w), now)

\* Calls are in order, and what is still to come comes after all of them
InOrder(w, children) ==
    /\ \A i, j \in DOMAIN w.calls : i < j =>
          /\ w.calls[i] < w.calls[j]
          /\ w.calls[i] \in w.refused =>
                w.calls[j] \notin Reach({w.calls[i]}, children) \ {w.calls[i]}
    /\ \A i \in DOMAIN w.calls : \A m \in Todo(w, children) : w.calls[i] < m
    /\ w.phase = "callback" => w.calls # <<>> /\ w.calls[Len(w.calls)] = At(w)

\* ... and not below what was refused.
Spared(w, children) ==
    \A r \in w.refused : \A x \in Reach(Pending(w), children) : x \notin Reach({r}, children)

Sound(w, children, now, data) ==
    /\ Chained(w, children) /\ Covered(w, children, now, data)
    /\ InOrder(w, children) /\ Spared(w, children)

QueriesSound == \A i \in DOMAIN walks : Sound(walks[i], shape, tree, content)

\* What a query is made of
LEMMA LevelFacts ==
    ASSUME NEW w \in Walks
    PROVE  /\ w.levels \in Seq(Levels) /\ Len(w.levels) \in Nat
           /\ DOMAIN w.levels = 1 .. Len(w.levels)
           /\ \A i \in DOMAIN w.levels : w.levels[i] \in Levels /\ w.levels[i].left \in SUBSET Nodes
           /\ Pending(w) \in SUBSET Nodes /\ w.start \in Nodes
           /\ w.calls \in Seq(Nodes) /\ w.refused \in SUBSET Nodes
<1>1. /\ w.levels \in Seq(Levels) /\ w.start \in Nodes
      /\ w.calls \in Seq(Nodes) /\ w.refused \in SUBSET Nodes
  BY DEF Walks
<1>2. \A l \in Levels : l.left \in SUBSET Nodes
  BY DEF Levels
<1> QED  BY <1>1, <1>2 DEF Pending

\* The node a query is at, with what is below it, comes before all else that
\* the query has still to visit.
LEMMA AtFirst ==
    ASSUME NEW d \in Trees, IsDocument(d), NEW w \in Walks, Chained(w, d),
           w.levels # <<>>, Level(w).left # {},
           NEW i \in DOMAIN w.levels, NEW p \in w.levels[i].left, p # Least(w.levels[i].left)
    PROVE  \A x \in Reach({At(w)}, d) : x < p
<1> DEFINE L == Len(w.levels)
           a == Least(w.levels[i].left)
<1>1. /\ L \in DOMAIN w.levels /\ L \in Nat /\ i \in Nat /\ i <= L
      /\ Level(w) = w.levels[L] /\ At(w) = Least(w.levels[L].left)
  BY LevelFacts DEF Level, At
<1>2. w.levels[i].left \in SUBSET Nodes /\ w.levels[L].left \in SUBSET Nodes
  BY <1>1, LevelFacts
<1>3. a \in w.levels[i].left /\ a <= p /\ a \in Nodes /\ p \in Nodes
  BY <1>2, LeastFacts
<1>4. a < p
  BY <1>3, DocumentsAssumption DEF Nodes
<1>5. \A x \in Reach({a}, d) : x < p
  BY <1>3, <1>4 DEF Chained
<1>6. CASE i = L
  BY <1>1, <1>5, <1>6
<1>7. CASE i # L
  <2>1. w.levels[L].left \subseteq Reach({a}, d) \ {a}
    BY <1>1, <1>7 DEF Chained
  <2>2. At(w) \in w.levels[L].left
    BY <1>1, <1>2, LeastFacts
  <2>3. At(w) \in Reach({a}, d) /\ {a} \in SUBSET Nodes
    BY <1>3, <2>1, <2>2
  <2>4. Reach({At(w)}, d) \subseteq Reach({a}, d)
    BY <2>3, ReachTransitive
  <2> QED  BY <1>5, <2>4
<1> QED  BY <1>6, <1>7

\* So it is the first of them.
LEMMA AtPending ==
    ASSUME NEW d \in Trees, IsDocument(d), NEW w \in Walks, Chained(w, d),
           w.levels # <<>>, Level(w).left # {}
    PROVE  /\ At(w) \in Pending(w) /\ At(w) \in Nodes
           /\ At(w) \in Reach(Pending(w), d)
           /\ \A p \in Pending(w) \ {At(w)} : \A x \in Reach({At(w)}, d) : x < p
           /\ \A i \in DOMAIN w.levels : \A p \in w.levels[i].left :
                 p # Least(w.levels[i].left) => p # At(w)
<1> DEFINE L == Len(w.levels)
<1>1. /\ L \in DOMAIN w.levels /\ At(w) = Least(w.levels[L].left)
      /\ w.levels[L].left \in SUBSET Nodes /\ w.levels[L].left # {}
  BY LevelFacts DEF Level, At
<1>2. At(w) \in w.levels[L].left /\ At(w) \in Nodes
  BY <1>1, LeastFacts
<1>3. At(w) \in Pending(w)
  BY <1>1, <1>2 DEF Pending
<1>4. At(w) \in Reach(Pending(w), d)
  BY <1>3, LevelFacts, ReachClosed
<1>5. ASSUME NEW p \in Pending(w), p # At(w) PROVE \A x \in Reach({At(w)}, d) : x < p
  <2>1. PICK i \in DOMAIN w.levels :
           p \in w.levels[i].left /\ (i # L => p # Least(w.levels[i].left))
    BY DEF Pending
  <2>2. p # Least(w.levels[i].left)
    BY <1>1, <1>5, <2>1
  <2> QED  BY <2>1, <2>2, AtFirst
<1>6. ASSUME NEW i \in DOMAIN w.levels, NEW p \in w.levels[i].left, p # Least(w.levels[i].left)
      PROVE  p # At(w)
  <2>1. At(w) \in Reach({At(w)}, d)
    BY <1>2, ReachStep
  <2>2. At(w) < p
    BY <1>6, <2>1, AtFirst
  <2> QED  BY <1>2, <2>2, DocumentsAssumption DEF Nodes
<1> QED  BY <1>2, <1>3, <1>4, <1>5, <1>6

\* The same of all that is below the others
LEMMA AtBefore ==
    ASSUME NEW d \in Trees, IsDocument(d), NEW w \in Walks, Chained(w, d),
           w.levels # <<>>, Level(w).left # {},
           NEW y \in Reach(Pending(w) \ {At(w)}, d)
    PROVE  /\ y \in Reach(Pending(w), d) /\ y # At(w)
           /\ \A x \in Reach({At(w)}, d) : x < y
<1>1. Pending(w) \in SUBSET Nodes /\ Pending(w) \ {At(w)} \in SUBSET Nodes
  BY LevelFacts
<1>2. PICK p \in Pending(w) \ {At(w)} : y \in Reach({p}, d)
  BY <1>1, ReachSplits
<1>3. p \in Nodes /\ y \in Nodes /\ p <= y
  BY <1>1, <1>2, ReachAfter
<1>4. At(w) \in Nodes /\ \A x \in Reach({At(w)}, d) : x < p
  BY <1>2, AtPending
<1>5. Reach({At(w)}, d) \in SUBSET Nodes /\ At(w) \in Reach({At(w)}, d)
  BY <1>4, ReachStep
<1>6. ASSUME NEW x \in Reach({At(w)}, d) PROVE x < y
  <2>1. Nodes \subseteq Nat
    BY DocumentsAssumption DEF Nodes
  <2>2. x \in Nat /\ p \in Nat /\ y \in Nat
    BY <1>3, <1>5, <2>1
  <2>3. x < p
    BY <1>4
  <2> QED  BY <1>3, <2>2, <2>3
<1>7. y # At(w)
  <2>1. y \in Nat
    BY <1>3, DocumentsAssumption DEF Nodes
  <2>2. At(w) < y
    BY <1>5, <1>6
  <2> QED  BY <2>1, <2>2
<1>8. y \in Reach(Pending(w), d)
  <2>1. p \in Reach(Pending(w), d)
    BY <1>1, <1>2, ReachClosed
  <2> QED  BY <1>1, <1>2, <2>1, ReachTransitive
<1> QED  BY <1>6, <1>7, <1>8

\* What a query has to visit after the node it is at, and what is below that
Later(w) ==
    {n \in Nodes : \E i \in DOMAIN w.levels :
        n \in w.levels[i].left /\ n # Least(w.levels[i].left)}

\* ... is what it has to visit but for that node,
LEMMA LaterPending ==
    ASSUME NEW d \in Trees, IsDocument(d), NEW w \in Walks, Chained(w, d),
           w.levels # <<>>, Level(w).left # {}
    PROVE  Later(w) = Pending(w) \ {At(w)} /\ Later(w) \in SUBSET Nodes
<1>1. /\ Len(w.levels) \in DOMAIN w.levels
      /\ At(w) = Least(w.levels[Len(w.levels)].left)
  BY LevelFacts DEF Level, At
<1>2. \A i \in DOMAIN w.levels : \A p \in w.levels[i].left :
         p # Least(w.levels[i].left) => p # At(w)
  BY AtPending
<1>3. ASSUME NEW n \in Nodes PROVE n \in Later(w) <=> n \in Pending(w) /\ n # At(w)
  BY <1>1, <1>2 DEF Later, Pending
<1> QED  BY <1>3 DEF Later, Pending

\* A level that goes on is done with the first of what it had left.
LEMMA AdvanceFacts ==
    ASSUME NEW levels \in Seq(Levels), levels # <<>>
    PROVE  LET L == Len(levels)
               v == Advance(levels)
           IN  /\ L \in DOMAIN levels /\ DOMAIN levels = 1 .. L /\ L \in Nat \ {0}
               /\ DOMAIN v = 1 .. L /\ Len(v) = L
               /\ v[L].left = levels[L].left \ {Least(levels[L].left)}
               /\ \A i \in 1 .. L : i # L => v[i] = levels[i]
<1> DEFINE L == Len(levels)
           v == Advance(levels)
           l == levels[L]
<1>1. L \in DOMAIN levels /\ DOMAIN levels = 1 .. L /\ L \in Nat \ {0} /\ l \in Levels
  OBVIOUS
<1>2. v = [levels EXCEPT ![L] = [l EXCEPT !.left = Following(l)]]
  BY DEF Advance
<1>3. [l EXCEPT !.left = Following(l)].left = l.left \ {Least(l.left)}
  BY <1>1 DEF Levels, Following
<1>4. DOMAIN v = 1 .. L /\ Len(v) = L
  <2> HIDE DEF l, v
  <2> QED  BY <1>1, <1>2
<1>5. v[L] = [l EXCEPT !.left = Following(l)] /\ \A i \in 1 .. L : i # L => v[i] = levels[i]
  BY <1>1, <1>2
<1> HIDE DEF l, v, L
<1> QED  BY <1>1, <1>3, <1>4, <1>5 DEF l, v, L

\* ... is all that is left when the next sibling comes,
LEMMA AdvancePending ==
    ASSUME NEW w \in Walks, NEW v \in Walks, w.levels # <<>>, Level(w).left # {},
           v.levels = Advance(w.levels)
    PROVE  /\ Pending(v) = Later(w)
           /\ DOMAIN v.levels = DOMAIN w.levels /\ Len(v.levels) = Len(w.levels)
           /\ \A i \in DOMAIN v.levels :
                 /\ v.levels[i].left \subseteq w.levels[i].left
                 /\ i < Len(v.levels) => v.levels[i].left = w.levels[i].left
<1> DEFINE L == Len(w.levels)
<1>1. /\ w.levels \in Seq(Levels) /\ L \in DOMAIN w.levels /\ DOMAIN w.levels = 1 .. L /\ L \in Nat
  BY LevelFacts
<1>3. /\ DOMAIN v.levels = 1 .. L /\ Len(v.levels) = L
      /\ v.levels[L].left = w.levels[L].left \ {Least(w.levels[L].left)}
      /\ \A i \in 1 .. L : i # L => v.levels[i] = w.levels[i]
  BY <1>1, AdvanceFacts
<1>4. v.levels[L].left = w.levels[L].left \ {Least(w.levels[L].left)}
  BY <1>3
<1>5. ASSUME NEW n \in Nodes PROVE n \in Pending(v) <=> n \in Later(w)
  BY <1>1, <1>3, <1>4 DEF Pending, Later
<1>6. Pending(v) = Later(w)
  BY <1>5 DEF Pending, Later
<1>7. \A i \in 1 .. L : v.levels[i].left \subseteq w.levels[i].left
  BY <1>3, <1>4
<1>8. \A i \in 1 .. L : i < L => v.levels[i].left = w.levels[i].left
  BY <1>1, <1>3
<1> QED  BY <1>1, <1>3, <1>6, <1>7, <1>8

\* ... and when a level ends;
LEMMA EndPending ==
    ASSUME NEW w \in Walks, NEW v \in Walks, w.levels # <<>>, Level(w).left = {},
           v.levels = Advance(SubSeq(w.levels, 1, Len(w.levels) - 1))
    PROVE  /\ Pending(v) = Pending(w)
           /\ DOMAIN v.levels \subseteq DOMAIN w.levels
           /\ \A i \in DOMAIN v.levels :
                 /\ v.levels[i].left \subseteq w.levels[i].left
                 /\ i < Len(v.levels) => v.levels[i].left = w.levels[i].left
<1> DEFINE L == Len(w.levels)
           upper == SubSeq(w.levels, 1, L - 1)
           M == L - 1
<1>1. /\ w.levels \in Seq(Levels) /\ L \in DOMAIN w.levels /\ DOMAIN w.levels = 1 .. L
      /\ L \in Nat \ {0} /\ M \in Nat /\ w.levels[L].left = {}
  BY LevelFacts DEF Level
<1>2. /\ upper \in Seq(Levels) /\ Len(upper) = M /\ DOMAIN upper = 1 .. M
      /\ \A i \in 1 .. M : upper[i] = w.levels[i]
  BY <1>1
<1>3. CASE M = 0
  <2>1. upper = <<>>
    BY <1>2, <1>3
  <2>2. v.levels = <<>>
    BY <2>1 DEF Advance
  <2>3. L = 1
    BY <1>1, <1>3
  <2>4. Pending(v) = {} /\ Pending(w) = {}
    BY <1>1, <2>2, <2>3 DEF Pending
  <2> QED  BY <2>2, <2>4
<1>4. CASE M # 0
  <2>1. upper # <<>> /\ M \in 1 .. M
    <3>1. M \in Nat /\ M # 0
      BY <1>1, <1>4
    <3>3. Len(<<>>) = 0
      OBVIOUS
    <3> HIDE DEF upper, M
    <3>2. M \in 1 .. M
      BY <3>1
    <3>4. Len(upper) # 0
      BY <1>2, <1>4
    <3> QED  BY <3>2, <3>3, <3>4
  <2>2. /\ DOMAIN Advance(upper) = 1 .. M /\ Len(Advance(upper)) = M
        /\ Advance(upper)[M].left = upper[M].left \ {Least(upper[M].left)}
        /\ \A i \in 1 .. M : i # M => Advance(upper)[i] = upper[i]
    <3> HIDE DEF upper
    <3> QED  BY <1>2, <2>1, AdvanceFacts
  <2>3. /\ DOMAIN v.levels = 1 .. M /\ Len(v.levels) = M
        /\ \A i \in 1 .. M : i # M => v.levels[i] = w.levels[i]
    BY <1>2, <2>2
  <2>4. v.levels[M].left = w.levels[M].left \ {Least(w.levels[M].left)}
    BY <1>2, <2>1, <2>2
  <2>5. 1 .. L = (1 .. M) \cup {L} /\ L \notin 1 .. M /\ \A i \in 1 .. M : i # M <=> i < M
    BY <1>1
  <2>6. ASSUME NEW n \in Nodes PROVE n \in Pending(v) <=> n \in Pending(w)
    <3>1. n \in Pending(w)
             <=> \E i \in 1 .. M : n \in w.levels[i].left /\ n # Least(w.levels[i].left)
      BY <1>1, <2>5 DEF Pending
    <3>2. n \in Pending(v) <=> \E i \in 1 .. M : /\ n \in v.levels[i].left
                                                 /\ i # M => n # Least(v.levels[i].left)
      BY <2>3 DEF Pending
    <3>3. (\E i \in 1 .. M : n \in v.levels[i].left /\ (i # M => n # Least(v.levels[i].left)))
             <=> \E i \in 1 .. M : n \in w.levels[i].left /\ n # Least(w.levels[i].left)
      BY <2>1, <2>3, <2>4
    <3> QED  BY <3>1, <3>2, <3>3
  <2>7. Pending(v) = Pending(w)
    BY <2>6 DEF Pending
  <2>8. \A i \in 1 .. M : v.levels[i].left \subseteq w.levels[i].left
    BY <2>3, <2>4
  <2>9. \A i \in 1 .. M : i < M => v.levels[i].left = w.levels[i].left
    BY <2>3, <2>5
  <2> QED  BY <1>1, <2>3, <2>5, <2>7, <2>8, <2>9
<1> QED  BY <1>3, <1>4

\* A query that has less left at its last level is still in order.
LEMMA ShrunkChained ==
    ASSUME NEW d \in Trees, NEW w \in Walks, NEW v \in Walks, Chained(w, d), v.start = w.start,
           DOMAIN v.levels \subseteq DOMAIN w.levels,
           \A i \in DOMAIN v.levels :
              /\ v.levels[i].left \subseteq w.levels[i].left
              /\ i < Len(v.levels) => v.levels[i].left = w.levels[i].left
    PROVE  Chained(v, d)
<1>1. DOMAIN v.levels = 1 .. Len(v.levels) /\ Len(v.levels) \in Nat
  BY LevelFacts
<1>2. ASSUME NEW i \in DOMAIN v.levels
      PROVE  /\ v.levels[i].left \subseteq Reach({v.start}, d)
             /\ \A a, b \in v.levels[i].left : a < b => \A x \in Reach({a}, d) : x < b
  BY <1>2 DEF Chained
<1>3. ASSUME NEW i \in DOMAIN v.levels, NEW j \in DOMAIN v.levels, i < j
      PROVE  /\ v.levels[i].left # {}
             /\ v.levels[j].left \subseteq
                   Reach({Least(v.levels[i].left)}, d) \ {Least(v.levels[i].left)}
  <2>1. v.levels[i].left = w.levels[i].left
    BY <1>1, <1>3
  <2>2. /\ w.levels[i].left # {}
        /\ w.levels[j].left \subseteq
              Reach({Least(w.levels[i].left)}, d) \ {Least(w.levels[i].left)}
    BY <1>3 DEF Chained
  <2> QED  BY <1>3, <2>1, <2>2
<1> QED  BY <1>2, <1>3 DEF Chained

\* Below a node, the query visits the children that it has now.
LEMMA DescendFacts ==
    ASSUME NEW d \in Trees, IsDocument(d), NEW w \in Walks, Chained(w, d),
           w.levels # <<>>, Level(w).left # {},
           tree \in Trees, \A n \in Nodes : tree[n] \subseteq d[n]
    PROVE  LET v == Descend(w)
           IN  /\ v \in Walks
               /\ v.start = w.start /\ v.filter = w.filter /\ v.phase = "walking"
               /\ v.calls = w.calls /\ v.refused = w.refused /\ v.touched = w.touched
               /\ Pending(v) = Later(w) \cup tree[At(w)]
               /\ Chained(v, d)
<1> DEFINE L == Len(w.levels)
           at == At(w)
           K == tree[at]
           v == Descend(w)
<1>1. /\ w.levels \in Seq(Levels) /\ L \in Nat \ {0} /\ DOMAIN w.levels = 1 .. L
      /\ \A i \in 1 .. L : w.levels[i].left \in SUBSET Nodes
      /\ w.start \in Nodes /\ L \in 1 .. L
  BY LevelFacts
<1>2. /\ at = Least(w.levels[L].left) /\ w.levels[L].left # {}
  BY DEF At, Level
<1>3. at \in w.levels[L].left /\ at \in Nodes
  BY <1>1, <1>2, LeastFacts
<1>4. K \in SUBSET Nodes /\ K \subseteq d[at]
  BY <1>3 DEF Trees
<1>5. v \in Walks
  BY DescendType DEF Trees
<1>6. /\ v.levels = Append(w.levels, [copy |-> K, left |-> K])
      /\ v.start = w.start /\ v.filter = w.filter /\ v.phase = "walking"
      /\ v.calls = w.calls /\ v.refused = w.refused /\ v.touched = w.touched
  BY DEF Descend, Walks
<1>7. /\ Len(v.levels) = L + 1 /\ DOMAIN v.levels = 1 .. (L + 1)
      /\ v.levels[L + 1].left = K
      /\ \A i \in 1 .. L : v.levels[i] = w.levels[i]
  <2> HIDE DEF K, v
  <2> QED  BY <1>1, <1>6
<1>8. /\ 1 .. (L + 1) = (1 .. L) \cup {L + 1} /\ \A i \in 1 .. L : i # L + 1 /\ ~(L + 1 < i)
      /\ ~(L + 1 < L + 1)
  BY <1>1
<1>9. Pending(v) = Later(w) \cup K
  <2>1. ASSUME NEW n \in Nodes PROVE n \in Pending(v) <=> n \in Later(w) \/ n \in K
    <3> HIDE DEF K, v
    <3> QED  BY <1>1, <1>7, <1>8 DEF Pending, Later
  <2>2. Pending(v) \in SUBSET Nodes /\ Later(w) \in SUBSET Nodes
    BY DEF Pending, Later
  <2> HIDE DEF K, v
  <2> QED  BY <1>4, <2>1, <2>2
<1>10. Reach({w.start}, d) \in SUBSET Nodes /\ at \in Reach({w.start}, d)
       /\ \A m \in Reach({w.start}, d) : d[m] \subseteq Reach({w.start}, d)
  <2>1. {w.start} \in SUBSET Nodes
    BY <1>1
  <2>2. at \in Reach({w.start}, d)
    BY <1>1, <1>3 DEF Chained
  <2> QED  BY <2>1, <2>2, ReachClosed
<1>11. K \subseteq Reach({w.start}, d)
  BY <1>4, <1>10
<1>12. \A a, b \in K : a < b => \A x \in Reach({a}, d) : x < b
  <2> HIDE DEF K
  <2> QED  BY <1>3, <1>4 DEF IsDocument
<1>13. ASSUME NEW i \in 1 .. L
       PROVE  /\ w.levels[i].left # {}
              /\ K \subseteq Reach({Least(w.levels[i].left)}, d) \ {Least(w.levels[i].left)}
  <2> DEFINE a == Least(w.levels[i].left)
  <2>1. w.levels[i].left # {}
    <3>1. i # L => i < L
      BY <1>1, <1>13
    <3> QED  BY <1>1, <1>2, <3>1 DEF Chained
  <2>2. a \in Nodes
    BY <1>1, <2>1, LeastFacts
  <2>3. at \in Reach({a}, d)
    <3>1. CASE i = L
      BY <1>2, <2>2, <3>1, ReachStep
    <3>2. CASE i # L
      <4>1. i < L
        BY <1>1, <1>13, <3>2
      <4> QED  BY <1>1, <1>3, <4>1 DEF Chained
    <3> QED  BY <3>1, <3>2
  <2>4. \A m \in Reach({a}, d) : d[m] \subseteq Reach({a}, d)
    <3>1. {a} \in SUBSET Nodes
      BY <2>2
    <3> QED  BY <3>1, ReachClosed
  <2>5. a <= at
    BY <2>2, <2>3, ReachAfter
  <2>6. ASSUME NEW k \in K PROVE k # a
    <3>1. k > at /\ k \in Nodes
      BY <1>3, <1>4, <2>6 DEF IsDocument
    <3>2. Nodes \subseteq Nat
      BY DocumentsAssumption DEF Nodes
    <3>3. k \in Nat /\ at \in Nat /\ a \in Nat
      BY <1>3, <2>2, <3>1, <3>2
    <3> HIDE DEF a, at, K
    <3> QED  BY <2>5, <3>1, <3>3
  <2>7. K \subseteq Reach({a}, d)
    BY <1>4, <2>3, <2>4
  <2> HIDE DEF a, K
  <2>8. K \subseteq Reach({a}, d) \ {a}
    BY <2>6, <2>7
  <2> QED  BY <2>1, <2>8 DEF a
<1>14. Chained(v, d)
  <2>1. ASSUME NEW i \in 1 .. (L + 1)
        PROVE  /\ v.levels[i].left \subseteq Reach({v.start}, d)
               /\ \A a, b \in v.levels[i].left : a < b => \A x \in Reach({a}, d) : x < b
    <3>1. CASE i \in 1 .. L
      <4>1. /\ w.levels[i].left \subseteq Reach({w.start}, d)
            /\ \A a, b \in w.levels[i].left : a < b => \A x \in Reach({a}, d) : x < b
        BY <1>1, <3>1 DEF Chained
      <4> HIDE DEF v
      <4> QED  BY <1>6, <1>7, <3>1, <4>1
    <3>2. CASE i = L + 1
      <4> HIDE DEF v, K
      <4> QED  BY <1>6, <1>7, <1>11, <1>12, <3>2
    <3> QED  BY <1>8, <3>1, <3>2
  <2>2. ASSUME NEW i \in 1 .. (L + 1), NEW j \in 1 .. (L + 1), i < j
        PROVE  /\ v.levels[i].left # {}
               /\ v.levels[j].left \subseteq
                     Reach({Least(v.levels[i].left)}, d) \ {Least(v.levels[i].left)}
    <3>1. i \in 1 .. L
      BY <1>1, <2>2
    <3>2. CASE j \in 1 .. L
      <4>1. /\ w.levels[i].left # {}
            /\ w.levels[j].left \subseteq
                  Reach({Least(w.levels[i].left)}, d) \ {Least(w.levels[i].left)}
        BY <1>1, <2>2, <3>1, <3>2 DEF Chained
      <4> HIDE DEF v
      <4> QED  BY <1>7, <3>1, <3>2, <4>1
    <3>3. CASE j = L + 1
      <4> HIDE DEF v, K
      <4> QED  BY <1>7, <1>13, <3>1, <3>3
    <3> QED  BY <1>8, <3>2, <3>3
  <2> HIDE DEF v
  <2> QED  BY <1>7, <2>1, <2>2 DEF Chained
<1> HIDE DEF v
<1> QED  BY <1>5, <1>6, <1>9, <1>14 DEF v

\* What is left comes after all that is below the node,
LEMMA LaterReach ==
    ASSUME NEW d \in Trees, IsDocument(d), NEW w \in Walks, Chained(w, d),
           w.levels # <<>>, Level(w).left # {}
    PROVE  \A y \in Reach(Later(w), d) :
              /\ y \in Reach(Pending(w), d) /\ y # At(w) /\ y \in Nodes
              /\ y \notin Reach({At(w)}, d)
<1>1. ASSUME NEW y \in Reach(Later(w), d)
      PROVE  /\ y \in Reach(Pending(w), d) /\ y # At(w) /\ y \in Nodes
             /\ y \notin Reach({At(w)}, d)
  <2>1. y \in Reach(Pending(w) \ {At(w)}, d) /\ Later(w) \in SUBSET Nodes
    BY <1>1, LaterPending
  <2>2. /\ y \in Reach(Pending(w), d) /\ y # At(w)
        /\ \A x \in Reach({At(w)}, d) : x < y
    BY <2>1, AtBefore
  <2>3. y \in Nodes
    BY <1>1, <2>1, ReachClosed
  <2>4. y \in Nat /\ ~(y < y)
    BY <2>3, DocumentsAssumption DEF Nodes
  <2> QED  BY <2>2, <2>3, <2>4
<1> QED  BY <1>1

\* ... and so does what is below it, after the node itself.
LEMMA DescendReach ==
    ASSUME NEW d \in Trees, IsDocument(d), NEW w \in Walks, Chained(w, d),
           w.levels # <<>>, Level(w).left # {},
           NEW K, K \subseteq d[At(w)]
    PROVE  \A y \in Reach(Later(w) \cup K, d) :
              y \in Reach(Pending(w), d) /\ y # At(w) /\ y \in Nodes
<1> DEFINE at == At(w)
<1>1. /\ at \in Nodes /\ at \in Pending(w) /\ Pending(w) \in SUBSET Nodes
      /\ at \in Reach(Pending(w), d)
  BY AtPending, LevelFacts
<1>2. K \in SUBSET Nodes /\ Later(w) \in SUBSET Nodes
  BY <1>1, LaterPending DEF Trees
<1>3. ASSUME NEW y \in Reach(Later(w) \cup K, d)
      PROVE  y \in Reach(Pending(w), d) /\ y # at /\ y \in Nodes
  <2>1. Later(w) \cup K \in SUBSET Nodes
    BY <1>2
  <2>2. PICK p \in Later(w) \cup K : y \in Reach({p}, d)
    BY <1>3, <2>1, ReachSplits
  <2>3. CASE p \in Later(w)
    <3>1. p \in Reach(Later(w), d)
      BY <1>2, <2>3, ReachClosed
    <3>2. y \in Reach(Later(w), d)
      BY <1>2, <2>2, <3>1, ReachTransitive
    <3> QED  BY <3>2, LaterReach
  <2>4. CASE p \in K
    <3>1. p \in Nodes /\ p \in d[at] /\ p > at
      BY <1>1, <1>2, <2>4 DEF IsDocument
    <3>2. y \in Nodes /\ p <= y
      BY <2>2, <3>1, ReachAfter
    <3>3. p \in Nat /\ y \in Nat /\ at \in Nat
      <4>1. Nodes \subseteq Nat
        BY DocumentsAssumption DEF Nodes
      <4> QED  BY <1>1, <3>1, <3>2, <4>1
    <3>4. y # at
      <4> HIDE DEF at
      <4> QED  BY <3>1, <3>2, <3>3
    <3>5. p \in Reach(Pending(w), d)
      BY <1>1, <3>1, ReachClosed
    <3>6. y \in Reach(Pending(w), d)
      BY <1>1, <2>2, <3>5, ReachTransitive
    <3> QED  BY <3>2, <3>4, <3>6
  <2> QED  BY <2>2, <2>3, <2>4
<1> QED  BY <1>3

\* What is covered when the query goes on: the node it was at need not be, if it
\* was called for or does not match.
LEMMA DescendCovered ==
    ASSUME NEW d \in Trees, IsDocument(d), NEW w \in Walks, NEW v \in Walks, NEW data,
           NEW c \in Trees, \A n \in Nodes : c[n] \subseteq d[n],
           Chained(w, d), w.levels # <<>>, Level(w).left # {},
           Covered(w, d, c, data),
           Eval(w.filter, data[At(w)]) => At(w) \in Range(w.calls),
           v.start = w.start, v.filter = w.filter, v.touched = w.touched, v.calls = w.calls,
           \/ v.refused = w.refused /\ Pending(v) = Later(w) \cup c[At(w)]
           \/ v.refused = w.refused \cup {At(w)} /\ Pending(v) = Later(w)
    PROVE  Covered(v, d, c, data)
<1> DEFINE at == At(w)
<1>1. /\ at \in Nodes /\ at \in Pending(w) /\ Pending(w) \in SUBSET Nodes
      /\ Pending(v) \in SUBSET Nodes
      /\ Later(w) = Pending(w) \ {at} /\ Later(w) \in SUBSET Nodes
  BY AtPending, LevelFacts, LaterPending
<1>2. {at} \in SUBSET Nodes /\ c[at] \in SUBSET Nodes
  BY <1>1 DEF Trees
<1>3. ASSUME NEW n \in Reach({w.start}, c) \ w.touched, Eval(w.filter, data[n])
      PROVE  \/ n \in Range(w.calls)
             \/ \E m \in v.refused : n \in Reach({m}, d) \ {m}
             \/ n \in Reach(Pending(v), c)
  <2>1. CASE n \in Reach(Pending(w), c)
    <3>1. PICK p \in Pending(w) : n \in Reach({p}, c)
      BY <1>1, <2>1, ReachSplits
    <3>2. CASE p # at
      <4>1. p \in Pending(v)
        BY <1>1, <3>2
      <4>2. p \in Reach(Pending(v), c)
        BY <1>1, <4>1, ReachClosed
      <4>3. n \in Reach(Pending(v), c)
        BY <1>1, <3>1, <4>2, ReachTransitive
      <4> QED  BY <4>3
    <3>3. CASE p = at /\ n = at
      BY <1>3, <3>3
    <3>4. CASE p = at /\ n # at /\ Pending(v) = Later(w) \cup c[at]
      <4>1. n \in Reach(c[at], c)
        BY <1>1, <3>1, <3>4, ReachStep
      <4>2. c[at] \subseteq Reach(Pending(v), c)
        BY <1>1, <3>4, ReachClosed
      <4>3. Reach(c[at], c) \subseteq Reach(Pending(v), c)
        BY <1>1, <1>2, <4>2, ReachGrows
      <4> QED  BY <4>1, <4>3
    <3>5. CASE p = at /\ n # at /\ v.refused = w.refused \cup {at}
      <4>1. Reach({at}, d) \in SUBSET Nodes /\ {at} \subseteq Reach({at}, d)
            /\ \A m \in Reach({at}, d) : d[m] \subseteq Reach({at}, d)
        BY <1>2, ReachClosed
      <4>2. \A m \in Reach({at}, d) : c[m] \subseteq Reach({at}, d)
        BY <4>1
      <4>3. Reach({at}, c) \subseteq Reach({at}, d)
        BY <1>2, <4>1, <4>2, ReachLeast
      <4>4. n \in Reach({at}, d) \ {at} /\ at \in v.refused
        BY <3>1, <3>5, <4>3
      <4> QED  BY <4>4
    <3> QED  BY <3>2, <3>3, <3>4, <3>5
  <2>2. CASE \E m \in w.refused : n \in Reach({m}, d) \ {m}
    <3>1. w.refused \subseteq v.refused
      OBVIOUS
    <3> QED  BY <2>2, <3>1
  <2> QED  BY <1>3, <2>1, <2>2 DEF Covered
<1> QED  BY <1>3 DEF Covered

\* A query that goes on, below the node or not, is as sound as before.
LEMMA GoesOnSound ==
    ASSUME NEW d \in Trees, IsDocument(d), NEW w \in Walks, NEW v \in Walks, NEW data,
           NEW c \in Trees, \A n \in Nodes : c[n] \subseteq d[n],
           w.levels # <<>>, Level(w).left # {}, Sound(w, d, c, data),
           w.phase = "walking" => ~Eval(w.filter, data[At(w)]),
           v.start = w.start, v.filter = w.filter, v.touched = w.touched, v.calls = w.calls,
           v.phase = "walking", Chained(v, d),
           \/ v.refused = w.refused /\ Pending(v) = Later(w) \cup c[At(w)]
           \/ /\ v.refused = w.refused \cup {At(w)} /\ Pending(v) = Later(w)
              /\ w.phase = "callback"
    PROVE  Sound(v, d, c, data)
<1> DEFINE at == At(w)
<1>1. Chained(w, d) /\ Covered(w, d, c, data) /\ InOrder(w, d) /\ Spared(w, d)
  BY DEF Sound
<1>2. /\ at \in Nodes /\ c[at] \subseteq d[at] /\ w.calls \in Seq(Nodes)
      /\ w.phase \in {"walking", "callback"}
  <2>1. at \in Nodes
    BY <1>1, AtPending
  <2> QED  BY <2>1 DEF Walks
<1>3. \A y \in Reach(Pending(v), d) : y \in Reach(Pending(w), d) /\ y # at
  <2>1. \A y \in Reach(Later(w) \cup c[at], d) : y \in Reach(Pending(w), d) /\ y # at
    BY <1>1, <1>2, DescendReach
  <2>2. \A y \in Reach(Later(w), d) : y \in Reach(Pending(w), d) /\ y # at
    BY <1>1, LaterReach
  <2> QED  BY <2>1, <2>2
<1>4. \A y \in Reach(Pending(v), d) : y \in Todo(w, d)
  BY <1>3 DEF Todo
<1>5. w.phase = "callback" => /\ w.calls # <<>> /\ w.calls[Len(w.calls)] = at
                              /\ Len(w.calls) \in DOMAIN w.calls /\ Len(w.calls) \in Nat
                              /\ DOMAIN w.calls = 1 .. Len(w.calls)
  BY <1>1, <1>2 DEF InOrder
<1>6. Covered(v, d, c, data)
  <2>1. Eval(w.filter, data[At(w)]) => At(w) \in Range(w.calls)
    BY <1>2, <1>5 DEF Range
  <2> QED  BY <1>1, <2>1, DescendCovered
<1>7. InOrder(v, d)
  <2>1. ASSUME NEW i \in DOMAIN v.calls, NEW j \in DOMAIN v.calls, i < j
        PROVE  /\ v.calls[i] < v.calls[j]
               /\ v.calls[i] \in v.refused =>
                     v.calls[j] \notin Reach({v.calls[i]}, d) \ {v.calls[i]}
    <3>1. /\ w.calls[i] < w.calls[j]
          /\ w.calls[i] \in w.refused => w.calls[j] \notin Reach({w.calls[i]}, d) \ {w.calls[i]}
      BY <1>1, <2>1 DEF InOrder
    <3>2. ASSUME w.phase = "callback", w.calls[i] = at PROVE FALSE
      <4> DEFINE last == Len(w.calls)
      <4>1. i \in Nat /\ j \in Nat /\ last \in Nat /\ i < last /\ i \in DOMAIN w.calls
            /\ last \in DOMAIN w.calls /\ w.calls[last] = at
        BY <1>5, <2>1, <3>2
      <4>2. w.calls[i] < w.calls[last]
        BY <1>1, <4>1 DEF InOrder
      <4>3. at < at /\ at \in Nat
        BY <1>2, <3>2, <4>1, <4>2, DocumentsAssumption DEF Nodes
      <4> QED  BY <4>3
    <3>3. w.calls[i] \in v.refused => w.calls[i] \in w.refused
      BY <3>2
    <3> QED  BY <3>1, <3>3
  <2>2. ASSUME NEW i \in DOMAIN v.calls, NEW m \in Todo(v, d) PROVE v.calls[i] < m
    <3>1. m \in Todo(w, d)
      BY <1>4, <2>2 DEF Todo
    <3> QED  BY <1>1, <2>2, <3>1 DEF InOrder
  <2> QED  BY <2>1, <2>2 DEF InOrder
<1>8. Spared(v, d)
  <2>1. ASSUME NEW r \in v.refused, NEW x \in Reach(Pending(v), d) PROVE x \notin Reach({r}, d)
    <3>1. CASE r \in w.refused
      BY <1>1, <1>3, <2>1, <3>1 DEF Spared
    <3>2. CASE r = at /\ Pending(v) = Later(w)
      BY <1>1, <2>1, <3>2, LaterReach
    <3> QED  BY <2>1, <3>1, <3>2
  <2> QED  BY <2>1 DEF Spared
<1> QED  BY <1>6, <1>7, <1>8 DEF Sound

\* So is one that calls back.
LEMMA CallSound ==
    ASSUME NEW d \in Trees, IsDocument(d), NEW w \in Walks, NEW v \in Walks, NEW data,
           NEW c \in Trees,
           w.levels # <<>>, Level(w).left # {}, Sound(w, d, c, data), w.phase = "walking",
           v.start = w.start, v.filter = w.filter, v.touched = w.touched,
           v.refused = w.refused, v.levels = w.levels,
           v.phase = "callback", v.calls = Append(w.calls, At(w))
    PROVE  Sound(v, d, c, data)
<1> DEFINE at == At(w)
           K == Len(w.calls) + 1
<1>1. Chained(w, d) /\ Covered(w, d, c, data) /\ InOrder(w, d) /\ Spared(w, d)
  BY DEF Sound
<1>2. /\ at \in Nodes /\ at \in Pending(w) /\ at \in Reach(Pending(w), d)
      /\ w.calls \in Seq(Nodes) /\ Pending(w) \in SUBSET Nodes
  BY <1>1, AtPending, LevelFacts
<1>3. Pending(v) = Pending(w) /\ At(v) = at
  BY DEF Pending, At, Level
<1>4. /\ DOMAIN v.calls = DOMAIN w.calls \cup {K} /\ v.calls[K] = at
      /\ \A i \in DOMAIN w.calls : v.calls[i] = w.calls[i] /\ i < K /\ ~(K < i)
      /\ ~(K < K) /\ K \notin DOMAIN w.calls
      /\ v.calls # <<>> /\ Len(v.calls) = K
  <2>1. w.calls \in Seq(Nodes) /\ v.calls = Append(w.calls, at) /\ at \in Nodes
    BY <1>2
  <2> HIDE DEF at
  <2> QED  BY <2>1
<1>5. Chained(v, d)
  BY <1>1 DEF Chained
<1>6. Covered(v, d, c, data)
  <2>1. Range(w.calls) \subseteq Range(v.calls)
    BY <1>4 DEF Range
  <2> QED  BY <1>1, <1>3, <2>1 DEF Covered
<1>7. Spared(v, d)
  BY <1>1, <1>3 DEF Spared
<1>8. Todo(w, d) = Reach(Pending(w), d) /\ Todo(v, d) = Reach(Pending(w), d) \ {at}
  BY <1>3 DEF Todo
<1>9. ASSUME NEW m \in Todo(v, d) PROVE at < m
  <2>1. m \in Reach(Pending(w), d) /\ m # at
    BY <1>8, <1>9
  <2>2. PICK p \in Pending(w) : m \in Reach({p}, d)
    BY <1>2, <2>1, ReachSplits
  <2>3. CASE p = at
    BY <1>2, <2>1, <2>2, <2>3, ReachAfter
  <2>4. CASE p # at
    <3>1. p \in Pending(w) \ {at} /\ Pending(w) \ {at} \in SUBSET Nodes
      BY <1>2, <2>4
    <3>2. p \in Reach(Pending(w) \ {at}, d)
      BY <3>1, ReachClosed
    <3>3. m \in Reach(Pending(w) \ {at}, d)
      BY <2>2, <3>1, <3>2, ReachTransitive
    <3>4. \A x \in Reach({at}, d) : x < m
      BY <1>1, <3>3, AtBefore
    <3>5. at \in Reach({at}, d)
      BY <1>2, ReachStep
    <3> QED  BY <3>4, <3>5
  <2> QED  BY <2>3, <2>4
<1>10. InOrder(v, d)
  <2>1. ASSUME NEW i \in DOMAIN v.calls, NEW j \in DOMAIN v.calls, i < j
        PROVE  /\ v.calls[i] < v.calls[j]
               /\ v.calls[i] \in v.refused =>
                     v.calls[j] \notin Reach({v.calls[i]}, d) \ {v.calls[i]}
    <3>1. i \in DOMAIN w.calls /\ v.calls[i] = w.calls[i]
      BY <1>4, <2>1
    <3>2. CASE j \in DOMAIN w.calls
      <4>1. /\ w.calls[i] < w.calls[j]
            /\ w.calls[i] \in w.refused => w.calls[j] \notin Reach({w.calls[i]}, d) \ {w.calls[i]}
        BY <1>1, <2>1, <3>1, <3>2 DEF InOrder
      <4>2. v.calls[j] = w.calls[j]
        BY <1>4, <3>2
      <4> QED  BY <3>1, <4>1, <4>2
    <3>3. CASE j = K
      <4>1. w.calls[i] < at
        BY <1>1, <1>2, <1>8, <3>1 DEF InOrder
      <4>2. w.calls[i] \in w.refused => at \notin Reach({w.calls[i]}, d)
        BY <1>1, <1>2 DEF Spared
      <4> QED  BY <1>4, <3>1, <3>3, <4>1, <4>2
    <3> QED  BY <1>4, <2>1, <3>2, <3>3
  <2>2. ASSUME NEW i \in DOMAIN v.calls, NEW m \in Todo(v, d) PROVE v.calls[i] < m
    <3>1. CASE i \in DOMAIN w.calls
      <4>1. m \in Todo(w, d)
        BY <1>8, <2>2
      <4>2. w.calls[i] < m
        BY <1>1, <3>1, <4>1 DEF InOrder
      <4> QED  BY <1>4, <3>1, <4>2
    <3>2. CASE i = K
      BY <1>4, <1>9, <2>2, <3>2
    <3> QED  BY <1>4, <2>2, <3>1, <3>2
  <2>3. v.calls # <<>> /\ v.calls[Len(v.calls)] = At(v)
    BY <1>3, <1>4
  <2> QED  BY <2>1, <2>2, <2>3 DEF InOrder
<1> QED  BY <1>5, <1>6, <1>7, <1>10 DEF Sound

\* A level that ends changes nothing of it.
LEMMA EndSound ==
    ASSUME NEW d \in Trees, NEW w \in Walks, NEW v \in Walks, NEW data, NEW c,
           w.levels # <<>>, Level(w).left = {}, Sound(w, d, c, data),
           w.phase = "walking", v.phase = "walking",
           v.start = w.start, v.filter = w.filter, v.touched = w.touched,
           v.refused = w.refused, v.calls = w.calls,
           v.levels = Advance(SubSeq(w.levels, 1, Len(w.levels) - 1))
    PROVE  Sound(v, d, c, data)
<1>1. Chained(w, d) /\ Covered(w, d, c, data) /\ InOrder(w, d) /\ Spared(w, d)
  BY DEF Sound
<1>2. /\ Pending(v) = Pending(w)
      /\ DOMAIN v.levels \subseteq DOMAIN w.levels
      /\ \A i \in DOMAIN v.levels :
            /\ v.levels[i].left \subseteq w.levels[i].left
            /\ i < Len(v.levels) => v.levels[i].left = w.levels[i].left
  BY EndPending
<1>3. Chained(v, d)
  BY <1>1, <1>2, ShrunkChained
<1>4. Todo(v, d) = Todo(w, d)
  BY <1>2 DEF Todo
<1>5. InOrder(v, d)
  BY <1>1, <1>4 DEF InOrder
<1>6. Covered(v, d, c, data) /\ Spared(v, d)
  BY <1>1, <1>2 DEF Covered, Spared
<1> QED  BY <1>3, <1>5, <1>6 DEF Sound

\* A document that loses children takes nothing of what is to be visited from
\* above it: what is still below the start is still below what is left.
LEMMA LossSound ==
    ASSUME NEW d \in Trees, IsDocument(d), NEW w \in Walks, NEW data,
           NEW c \in Trees, NEW c2 \in Trees, \A n \in Nodes : c[n] \subseteq d[n],
           \A n \in Nodes : c2[n] \subseteq c[n], Sound(w, d, c, data)
    PROVE  Sound(w, d, c2, data)
<1>1. Chained(w, d) /\ Covered(w, d, c, data) /\ InOrder(w, d) /\ Spared(w, d)
  BY DEF Sound
<1>2. /\ Pending(w) \in SUBSET Nodes /\ w.start \in Nodes /\ {w.start} \in SUBSET Nodes
      /\ \A n \in Nodes : c2[n] \subseteq d[n]
  BY LevelFacts
<1>3. Pending(w) \subseteq Reach({w.start}, d)
  BY <1>1 DEF Pending, Chained
<1>4. ASSUME NEW S \in SUBSET Nodes PROVE Reach(S, c2) \subseteq Reach(S, c)
  <2>1. Reach(S, c) \in SUBSET Nodes /\ S \subseteq Reach(S, c)
    BY ReachClosed
  <2>2. \A n \in Reach(S, c) : c2[n] \subseteq c[n]
    BY <2>1
  <2> QED  BY <2>1, <2>2, ReachGrows
<1>5. ASSUME NEW n \in Reach({w.start}, c2) \ w.touched, Eval(w.filter, data[n])
      PROVE  \/ n \in Range(w.calls)
             \/ \E m \in w.refused : n \in Reach({m}, d) \ {m}
             \/ n \in Reach(Pending(w), c2)
  <2>1. n \in Reach({w.start}, c)
    BY <1>2, <1>4, <1>5
  <2>2. CASE n \in Reach(Pending(w), c)
    <3>1. PICK p \in Pending(w) : n \in Reach({p}, c)
      BY <1>2, <2>2, ReachSplits
    <3>2. p \in Nodes /\ {p} \in SUBSET Nodes /\ p \in Reach({w.start}, d)
      BY <1>2, <1>3, <3>1
    <3>3. n \in Reach({p}, d)
      <4>1. Reach({p}, d) \in SUBSET Nodes /\ {p} \subseteq Reach({p}, d)
        BY <3>2, ReachClosed
      <4>2. \A m \in Reach({p}, d) : c[m] \subseteq d[m]
        BY <4>1
      <4>3. Reach({p}, c) \subseteq Reach({p}, d)
        BY <3>2, <4>1, <4>2, ReachGrows
      <4> QED  BY <3>1, <4>3
    <3>4. n \in Reach({p}, c2)
      BY <1>2, <1>5, <3>2, <3>3, PathLemma
    <3>5. p \in Reach(Pending(w), c2)
      BY <1>2, <3>1, ReachClosed
    <3>6. n \in Reach(Pending(w), c2)
      BY <1>2, <3>4, <3>5, ReachTransitive
    <3> QED  BY <3>6
  <2> QED  BY <1>1, <1>5, <2>1, <2>2 DEF Covered
<1>6. Covered(w, d, c2, data)
  BY <1>5 DEF Covered
<1> QED  BY <1>1, <1>6 DEF Sound

\* update() changes what matches, but of a node that no query answers for then.
LEMMA TouchedSound ==
    ASSUME NEW d \in Trees, NEW w \in Walks, NEW v \in Walks,
           NEW data, NEW data2, NEW n \in Nodes, NEW c \in Trees,
           \A m \in Nodes : m # n => data2[m] = data[m], Sound(w, d, c, data),
           v.start = w.start, v.filter = w.filter, v.touched = w.touched \cup {n},
           v.refused = w.refused, v.calls = w.calls, v.levels = w.levels, v.phase = w.phase
    PROVE  Sound(v, d, c, data2)
<1>1. Chained(w, d) /\ Covered(w, d, c, data) /\ InOrder(w, d) /\ Spared(w, d)
  BY DEF Sound
<1>2. Pending(v) = Pending(w) /\ Todo(v, d) = Todo(w, d) /\ At(v) = At(w)
  BY DEF Pending, Todo, At, Level
<1>3. Chained(v, d) /\ InOrder(v, d) /\ Spared(v, d)
  BY <1>1, <1>2 DEF Chained, InOrder, Spared
<1>4. Reach({w.start}, c) \in SUBSET Nodes
  <2>1. {w.start} \in SUBSET Nodes
    BY LevelFacts
  <2> QED  BY <2>1, ReachClosed
<1>5. Covered(v, d, c, data2)
  <2>1. ASSUME NEW m \in Reach({w.start}, c) \ v.touched, Eval(w.filter, data2[m])
        PROVE  \/ m \in Range(w.calls)
               \/ \E r \in w.refused : m \in Reach({r}, d) \ {r}
               \/ m \in Reach(Pending(w), c)
    <3>1. data2[m] = data[m] /\ m \in Reach({w.start}, c) \ w.touched
      BY <1>4, <2>1
    <3>2. Eval(w.filter, data[m])
      BY <2>1, <3>1
    <3> QED  BY <1>1, <3>1, <3>2 DEF Covered
  <2> QED  BY <1>2, <2>1 DEF Covered
<1> QED  BY <1>3, <1>5 DEF Sound

\* A query has to visit all that is below its node at first.
LEMMA NewSound ==
    ASSUME NEW d \in Trees, NEW w \in Walks, NEW n \in Nodes, NEW c, NEW data,
           w.start = n, w.levels = <<[copy |-> {n}, left |-> {n}]>>, w.phase = "walking",
           w.calls = <<>>, w.refused = {}
    PROVE  Sound(w, d, c, data)
<1>1. /\ DOMAIN w.levels = {1} /\ Len(w.levels) = 1 /\ w.levels[1].left = {n}
      /\ n \in Nat
  BY DocumentsAssumption DEF Nodes
<1>2. Pending(w) = {n}
  BY <1>1 DEF Pending
<1>3. Covered(w, d, c, data)
  BY <1>2 DEF Covered
<1>4. {n} \subseteq Reach({n}, d)
  BY ReachStep
<1>5. ~(1 < 1) /\ ~(n < n)
  BY <1>1
<1>6. Chained(w, d)
  BY <1>1, <1>4, <1>5 DEF Chained
<1>7. InOrder(w, d) /\ Spared(w, d)
  BY DEF InOrder, Spared
<1> QED  BY <1>3, <1>6, <1>7 DEF Sound

\* The document and the queries of a state
QueryInv == DocumentInv /\ QueriesSound

\* What the lemmas above are applied to
LEMMA QueryFacts ==
    ASSUME DocumentInv
    PROVE  /\ TypeInv /\ shape \in Trees /\ IsDocument(shape) /\ tree \in Trees
           /\ walks \in Seq(Walks)
           /\ \A n \in Nodes : tree[n] \subseteq shape[n]
           /\ \A i \in DOMAIN walks : walks[i] \in Walks
BY IntendedType DEF DocumentInv, RegistryInv, TypeInv, ObjectTypeOK, NodesStay

\* Whether the document and what a query knows of it are as before is all that
\* the queries that do not run depend on.
LEMMA OthersSound ==
    ASSUME QueryInv, DocumentInv', UNCHANGED <<shape, content>>,
           \A n \in Nodes : tree'[n] \subseteq tree[n],
           NEW w \in Walks, Sound(w, shape, tree, content)
    PROVE  Sound(w, shape', tree', content')
<1>1. /\ shape \in Trees /\ IsDocument(shape) /\ tree \in Trees /\ tree' \in Trees
      /\ \A n \in Nodes : tree[n] \subseteq shape[n]
  <2>1. tree' \in Trees
    BY DEF DocumentInv, RegistryInv, TypeInv, ObjectTypeOK, Trees
  <2> QED  BY <2>1, QueryFacts DEF QueryInv
<1>2. Sound(w, shape, tree', content)
  BY <1>1, LossSound
<1> QED  BY <1>2

\* Steps of the innermost query, and that let go of nodes or not
LEMMA InnerStep ==
    ASSUME QueryInv, DocumentInv', UNCHANGED <<shape, content>>, walks # <<>>,
           \A n \in Nodes : tree'[n] \subseteq tree[n],
           NEW w \in Walks, SetInner(w), Sound(w, shape, tree, content)
    PROVE  QueriesSound'
<1>1. /\ DOMAIN walks' = DOMAIN walks /\ walks'[Len(walks)] = w
      /\ \A i \in DOMAIN walks : i # Len(walks) => walks'[i] = walks[i]
  BY QueryFacts, SetInnerFacts DEF QueryInv, TypeInv
<1>2. ASSUME NEW i \in DOMAIN walks' PROVE Sound(walks'[i], shape', tree', content')
  <2>1. CASE i = Len(walks)
    <3>1. Sound(w, shape', tree', content')
      BY OthersSound
    <3> QED  BY <1>1, <2>1, <3>1
  <2>2. CASE i # Len(walks)
    <3>1. walks[i] \in Walks /\ Sound(walks[i], shape, tree, content)
      BY <1>1, <1>2, QueryFacts DEF QueryInv, QueriesSound
    <3>2. Sound(walks[i], shape', tree', content')
      BY <3>1, OthersSound
    <3> QED  BY <1>1, <1>2, <2>2, <3>2
  <2> QED  BY <2>1, <2>2
<1> QED  BY <1>2 DEF QueriesSound

\* Steps that end queries, or leave them as they are
LEMMA FewerStep ==
    ASSUME QueryInv, DocumentInv', UNCHANGED <<shape, content>>,
           \A n \in Nodes : tree'[n] \subseteq tree[n],
           DOMAIN walks' \subseteq DOMAIN walks, \A i \in DOMAIN walks' : walks'[i] = walks[i]
    PROVE  QueriesSound'
<1>1. ASSUME NEW i \in DOMAIN walks' PROVE Sound(walks'[i], shape', tree', content')
  <2>1. walks[i] \in Walks /\ Sound(walks[i], shape, tree, content)
    BY <1>1, QueryFacts DEF QueryInv, QueriesSound
  <2>2. Sound(walks[i], shape', tree', content')
    BY <2>1, OthersSound
  <2> QED  BY <1>1, <2>2
<1> QED  BY <1>1 DEF QueriesSound

\* What a step of the innermost query starts from
LEMMA InnerSound ==
    ASSUME QueryInv, walks # <<>>
    PROVE  /\ Inner \in Walks /\ Sound(Inner, shape, tree, content)
           /\ Chained(Inner, shape) /\ AtWork(Inner)
<1>1. /\ Len(walks) \in DOMAIN walks /\ Inner = walks[Len(walks)] /\ Inner \in Walks
      /\ CallbacksAtNode
  BY InnerFacts, QueryFacts DEF QueryInv, TypeInv
<1>2. Sound(Inner, shape, tree, content) /\ AtWork(Inner)
  BY <1>1 DEF QueryInv, QueriesSound, CallbacksAtNode
<1> QED  BY <1>1, <1>2 DEF Sound

\* One lemma per operation: the queries stay sound.
LEMMA PassSound == ASSUME QueryInv, DocumentInv', Pass PROVE QueriesSound'
<1>1. /\ walks # <<>> /\ Inner.phase = "walking" /\ Inner.levels # <<>> /\ Level(Inner).left # {}
      /\ ~Eval(Inner.filter, content[At(Inner)]) /\ SetInner(Descend(Inner))
      /\ UNCHANGED <<shape, tree, content>>
  BY DEF Pass, AtNode, Walking, document
<1>2. /\ Inner \in Walks /\ Sound(Inner, shape, tree, content) /\ Chained(Inner, shape)
      /\ shape \in Trees /\ IsDocument(shape) /\ tree \in Trees
      /\ \A n \in Nodes : tree[n] \subseteq shape[n]
  BY <1>1, InnerSound, QueryFacts DEF QueryInv
<1> DEFINE v == Descend(Inner)
<1>3. /\ v \in Walks /\ v.start = Inner.start /\ v.filter = Inner.filter /\ v.phase = "walking"
      /\ v.calls = Inner.calls /\ v.refused = Inner.refused /\ v.touched = Inner.touched
      /\ Pending(v) = Later(Inner) \cup tree[At(Inner)] /\ Chained(v, shape)
  BY <1>1, <1>2, DescendFacts
<1> HIDE DEF v
<1>4. Sound(v, shape, tree, content)
  BY <1>1, <1>2, <1>3, GoesOnSound
<1>5. SetInner(v)
  BY <1>1 DEF v
<1> QED  BY <1>1, <1>3, <1>4, <1>5, InnerStep

LEMMA CallsSound == ASSUME QueryInv, DocumentInv', Call PROVE QueriesSound'
<1> DEFINE v == [Inner EXCEPT !.phase = "callback", !.calls = Append(Inner.calls, At(Inner))]
<1>1. /\ walks # <<>> /\ Inner.phase = "walking" /\ Inner.levels # <<>> /\ Level(Inner).left # {}
      /\ SetInner(v) /\ UNCHANGED <<shape, tree, content>>
  BY DEF Call, AtNode, Walking, document
<1>2. /\ Inner \in Walks /\ Sound(Inner, shape, tree, content) /\ Chained(Inner, shape)
      /\ shape \in Trees /\ IsDocument(shape) /\ tree \in Trees
  BY <1>1, InnerSound, QueryFacts DEF QueryInv
<1>3. v \in Walks
  BY CallWalk, QueryFacts DEF QueryInv
<1>4. /\ v.start = Inner.start /\ v.filter = Inner.filter /\ v.phase = "callback"
      /\ v.calls = Append(Inner.calls, At(Inner)) /\ v.refused = Inner.refused
      /\ v.touched = Inner.touched /\ v.levels = Inner.levels
  BY <1>2 DEF Walks
<1> HIDE DEF v
<1>5. Sound(v, shape, tree, content)
  BY <1>1, <1>2, <1>3, <1>4, CallSound
<1> QED  BY <1>1, <1>3, <1>5, InnerStep

LEMMA ReturnsSound ==
    ASSUME QueryInv, DocumentInv', NEW recursive \in BOOLEAN, CallbackReturns(recursive)
    PROVE  QueriesSound'
<1>1. /\ walks # <<>> /\ Inner.phase = "callback"
      /\ SetInner(IF recursive THEN Descend(Inner)
                  ELSE [Inner EXCEPT !.levels = Advance(Inner.levels), !.phase = "walking",
                                     !.refused = Inner.refused \cup {At(Inner)}])
      /\ UNCHANGED <<shape, tree, content>>
  BY DEF CallbackReturns, JsRuns, document
<1>2. /\ Inner \in Walks /\ Sound(Inner, shape, tree, content) /\ Chained(Inner, shape)
      /\ Inner.levels # <<>> /\ Level(Inner).left # {}
      /\ shape \in Trees /\ IsDocument(shape) /\ tree \in Trees
      /\ \A n \in Nodes : tree[n] \subseteq shape[n]
  BY <1>1, InnerSound, QueryFacts DEF QueryInv, AtWork
<1>3. CASE recursive
  <2> DEFINE v == Descend(Inner)
  <2>1. /\ v \in Walks /\ v.start = Inner.start /\ v.filter = Inner.filter /\ v.phase = "walking"
        /\ v.calls = Inner.calls /\ v.refused = Inner.refused /\ v.touched = Inner.touched
        /\ Pending(v) = Later(Inner) \cup tree[At(Inner)] /\ Chained(v, shape)
    BY <1>2, DescendFacts
  <2> HIDE DEF v
  <2>2. Inner.phase # "walking"
    BY <1>1
  <2>3. Sound(v, shape, tree, content)
    BY <1>2, <2>1, <2>2, GoesOnSound
  <2>4. SetInner(v)
    BY <1>1, <1>3 DEF v
  <2> QED  BY <1>1, <2>1, <2>3, <2>4, InnerStep
<1>4. CASE ~recursive
  <2> DEFINE v == [Inner EXCEPT !.levels = Advance(Inner.levels), !.phase = "walking",
                                !.refused = Inner.refused \cup {At(Inner)}]
  <2>1. Advance(Inner.levels) \in Seq(Levels) /\ Inner.refused \cup {At(Inner)} \in SUBSET Nodes
    BY <1>2, AdvanceType, LevelFacts, AtPending
  <2>2. v \in Walks
    BY <1>2, <2>1 DEF Walks
  <2>3. /\ v.start = Inner.start /\ v.filter = Inner.filter /\ v.phase = "walking"
        /\ v.calls = Inner.calls /\ v.refused = Inner.refused \cup {At(Inner)}
        /\ v.touched = Inner.touched /\ v.levels = Advance(Inner.levels)
    BY <1>2 DEF Walks
  <2>4. SetInner(v)
    BY <1>1, <1>4
  <2> HIDE DEF v
  <2>5. /\ Pending(v) = Later(Inner)
        /\ DOMAIN v.levels \subseteq DOMAIN Inner.levels
        /\ \A i \in DOMAIN v.levels :
              /\ v.levels[i].left \subseteq Inner.levels[i].left
              /\ i < Len(v.levels) => v.levels[i].left = Inner.levels[i].left
    BY <1>2, <2>2, <2>3, AdvancePending
  <2>6. Chained(v, shape)
    BY <1>2, <2>2, <2>3, <2>5, ShrunkChained
  <2>7. Inner.phase # "walking"
    BY <1>1
  <2>8. Sound(v, shape, tree, content)
    BY <1>1, <1>2, <2>2, <2>3, <2>5, <2>6, <2>7, GoesOnSound
  <2> QED  BY <1>1, <2>2, <2>4, <2>8, InnerStep
<1> QED  BY <1>3, <1>4

\* Nodes that are let go of lose their children.
LEMMA ReleaseShrinks ==
    ASSUME DocumentInv, ReleaseNodes(tree)
    PROVE  \A n \in Nodes : tree'[n] \subseteq tree[n]
BY QueryFacts DEF ReleaseNodes, Release, Trees

LEMMA EndLevelSound == ASSUME QueryInv, DocumentInv', EndLevel PROVE QueriesSound'
<1> DEFINE v == [Inner EXCEPT !.levels =
                     Advance(SubSeq(Inner.levels, 1, Len(Inner.levels) - 1))]
<1>1. /\ walks # <<>> /\ Inner.phase = "walking" /\ Inner.levels # <<>> /\ Level(Inner).left = {}
      /\ SetInner(v) /\ ReleaseNodes(tree) /\ UNCHANGED <<shape, content>>
  BY DEF EndLevel, Walking
<1>2. /\ Inner \in Walks /\ Sound(Inner, shape, tree, content) /\ shape \in Trees
  BY <1>1, InnerSound, QueryFacts DEF QueryInv
<1>3. v \in Walks
  BY EndLevelWalk, QueryFacts DEF QueryInv
<1>4. /\ v.start = Inner.start /\ v.filter = Inner.filter /\ v.phase = "walking"
      /\ v.calls = Inner.calls /\ v.refused = Inner.refused /\ v.touched = Inner.touched
      /\ v.levels = Advance(SubSeq(Inner.levels, 1, Len(Inner.levels) - 1))
  BY <1>1, <1>2 DEF Walks
<1> HIDE DEF v
<1>5. Sound(v, shape, tree, content)
  BY <1>1, <1>2, <1>3, <1>4, EndSound
<1>6. \A n \in Nodes : tree'[n] \subseteq tree[n]
  BY <1>1, ReleaseShrinks DEF QueryInv
<1> QED  BY <1>1, <1>3, <1>5, <1>6, InnerStep

LEMMA QueryEndsSound == ASSUME QueryInv, DocumentInv', QueryEnds PROVE QueriesSound'
<1>1. /\ walks # <<>> /\ walks' = SubSeq(walks, 1, Len(walks) - 1)
      /\ ReleaseNodes(tree) /\ UNCHANGED <<shape, content>>
  BY DEF QueryEnds
<1>2. /\ DOMAIN walks' \subseteq DOMAIN walks
      /\ \A i \in DOMAIN walks' : walks'[i] = walks[i]
  BY <1>1, FewerQueries, QueryFacts DEF QueryInv
<1>3. \A n \in Nodes : tree'[n] \subseteq tree[n]
  BY <1>1, ReleaseShrinks DEF QueryInv
<1> QED  BY <1>1, <1>2, <1>3, FewerStep

LEMMA NewQuerySound ==
    ASSUME QueryInv, DocumentInv', NEW s \in Symbols, NEW filter \in Queries, Query(s, filter)
    PROVE  QueriesSound'
<1> DEFINE K == Len(walks) + 1
           n == registry[s].node
           first == <<[copy |-> {n}, left |-> {n}]>>
<1>1. UNCHANGED <<shape, tree, content>>
  BY DEF Query, document
<1>2. TypeInv /\ shape \in Trees /\ \A i \in DOMAIN walks : walks[i] \in Walks
  BY QueryFacts DEF QueryInv
<1>3. n \in Nodes
  BY <1>2, GetFacts DEF Query, TypeInv
<1>4. /\ walks' \in Seq(Walks)
      /\ DOMAIN walks' = DOMAIN walks \cup {K}
      /\ \A i \in DOMAIN walks : walks'[i] = walks[i]
  BY <1>2, QueryWalks
<1>5. walks'[K] =
         [root |-> registry[s].root, start |-> n, filter |-> filter,
          levels |-> first, phase |-> "walking", calls |-> <<>>, refused |-> {},
          touched |-> {}]
  BY <1>2, QueryWalks
<1>6. /\ walks'[K].start = n /\ walks'[K].levels = first
      /\ walks'[K].phase = "walking" /\ walks'[K].calls = <<>> /\ walks'[K].refused = {}
  <2> HIDE DEF n, K, first
  <2> QED  BY <1>5
<1>7. walks'[K] \in Walks
  BY <1>4
<1> HIDE DEF n, K
<1>8. Sound(walks'[K], shape, tree, content)
  BY <1>2, <1>3, <1>6, <1>7, NewSound
<1>9. ASSUME NEW i \in DOMAIN walks' PROVE Sound(walks'[i], shape', tree', content')
  <2>1. CASE i = K
    BY <1>1, <1>8, <2>1
  <2>2. CASE i \in DOMAIN walks
    <3>1. Sound(walks[i], shape, tree, content)
      BY <2>2 DEF QueryInv, QueriesSound
    <3> QED  BY <1>1, <1>4, <2>2, <3>1
  <2> QED  BY <1>4, <1>9, <2>1, <2>2
<1> QED  BY <1>9 DEF QueriesSound

\* The node that is updated is touched in all queries.
LEMMA UpdateSound ==
    ASSUME QueryInv, DocumentInv', NEW s \in Symbols, NEW value \in Updates, Update(s, value)
    PROVE  QueriesSound'
<1> DEFINE n == registry[s].node
<1>1. /\ UNCHANGED <<shape, tree>> /\ content' = [content EXCEPT ![n] = value]
      /\ walks' = [i \in DOMAIN walks |->
                      [walks[i] EXCEPT !.touched = walks[i].touched \cup {n}]]
  BY DEF Update
<1>2. /\ TypeInv /\ shape \in Trees /\ tree \in Trees
      /\ \A i \in DOMAIN walks : walks[i] \in Walks
  BY QueryFacts DEF QueryInv
<1>3. n \in Nodes /\ content \in [Nodes -> Data]
  BY <1>2, GetFacts DEF Update, TypeInv, ObjectTypeOK
<1> HIDE DEF n
<1>4. /\ walks' \in Seq(Walks) /\ DOMAIN walks' = DOMAIN walks
      /\ \A i \in DOMAIN walks :
            walks'[i] = [walks[i] EXCEPT !.touched = walks[i].touched \cup {n}]
  BY <1>1, <1>2, <1>3, UpdateWalks
<1>5. \A m \in Nodes : m # n => content'[m] = content[m]
  BY <1>1, <1>3
<1>6. ASSUME NEW i \in DOMAIN walks' PROVE Sound(walks'[i], shape', tree', content')
  <2>1. walks[i] \in Walks /\ walks'[i] \in Walks /\ Sound(walks[i], shape, tree, content)
    BY <1>2, <1>4, <1>6 DEF QueryInv, QueriesSound
  <2>2. walks'[i] = [walks[i] EXCEPT !.touched = walks[i].touched \cup {n}]
    BY <1>4, <1>6
  <2>3. /\ walks'[i].start = walks[i].start /\ walks'[i].filter = walks[i].filter
        /\ walks'[i].touched = walks[i].touched \cup {n}
        /\ walks'[i].refused = walks[i].refused /\ walks'[i].calls = walks[i].calls
        /\ walks'[i].levels = walks[i].levels /\ walks'[i].phase = walks[i].phase
    BY <2>1, <2>2 DEF Walks
  <2>4. Sound(walks'[i], shape, tree, content')
    <3>1. \A v \in Walks : \A w \in Walks : \A d, e :
             (/\ v.start = w.start /\ v.filter = w.filter /\ v.touched = w.touched \cup {n}
              /\ v.refused = w.refused /\ v.calls = w.calls /\ v.levels = w.levels
              /\ v.phase = w.phase /\ Sound(w, shape, tree, d)
              /\ \A m \in Nodes : m # n => e[m] = d[m])
             => Sound(v, shape, tree, e)
      BY <1>2, <1>3, TouchedSound
    <3> QED  BY <1>5, <2>1, <2>3, <3>1
  <2> QED  BY <1>1, <2>4
<1> QED  BY <1>6 DEF QueriesSound

\* A document is parsed when no query runs.
LEMMA ParseSound == ASSUME QueryInv, Parse PROVE QueriesSound'
<1>1. Held(registry, walks) = {} /\ walks' = walks /\ walks \in Seq(Walks)
  BY QueryFacts DEF Parse, QueryInv
<1>2. walks = <<>>
  BY <1>1, HeldRoot DEF QueryInv, DocumentInv, HoldsTheRoot
<1>3. DOMAIN walks' = {}
  BY <1>1, <1>2
<1> QED  BY <1>3 DEF QueriesSound

\* A removed node is only taken from the children of its parent.
LEMMA RemoveSound ==
    ASSUME QueryInv, DocumentInv', NEW s \in Symbols, Remove(s) PROVE QueriesSound'
<1>1. /\ UNCHANGED <<shape, content, walks>>
      /\ \/ tree' = tree
         \/ \E p, n : tree' = [tree EXCEPT ![p] = tree[p] \ {n}]
  BY DEF Remove
<1>2. \A m \in Nodes : tree'[m] \subseteq tree[m]
  BY <1>1, QueryFacts DEF QueryInv, Trees
<1> QED  BY <1>1, <1>2, FewerStep

\* Steps that let go of objects, or replace the context
LEMMA LetGoSound ==
    ASSUME QueryInv, DocumentInv', Leave \/ Terminate \/ \E s \in Symbols : Destroy(s)
    PROVE  QueriesSound'
<1>1. ReleaseNodes(tree) /\ UNCHANGED <<shape, content>> /\ (walks' = walks \/ walks' = <<>>)
  BY Zenon DEF Leave, Terminate, Destroy
<1>2. \A n \in Nodes : tree'[n] \subseteq tree[n]
  BY <1>1, ReleaseShrinks DEF QueryInv
<1>3. DOMAIN walks' \subseteq DOMAIN walks /\ \A i \in DOMAIN walks' : walks'[i] = walks[i]
  BY <1>1
<1> QED  BY <1>1, <1>2, <1>3, FewerStep

LEMMA QueryNext == QueryInv /\ [ObjectNext]_objectVars /\ DocumentInv' => QueriesSound'
<1> SUFFICES ASSUME QueryInv, [ObjectNext]_objectVars, DocumentInv' PROVE QueriesSound'
  OBVIOUS
<1>1. CASE UNCHANGED <<document, walks>>
  BY <1>1, FewerStep DEF document
<1>2. LoadSchema \/ Built \/ (\E c \in 1 .. MaxContexts : Enter(c) \/ Close(c))
         \/ UNCHANGED objectVars
      => UNCHANGED <<document, walks>>
  BY Zenon DEF LoadSchema, Built, Enter, Close, objectVars
<1> QED
  BY <1>1, <1>2, ParseSound, UpdateSound, NewQuerySound, RemoveSound, PassSound, CallsSound,
     ReturnsSound, EndLevelSound, QueryEndsSound, LetGoSound
     DEF ObjectNext

LEMMA QueryInvariant == ObjectSpec => []QueryInv
<1>1. ObjectInit /\ DocumentInv => QueryInv
  BY DEF ObjectInit, QueryInv, QueriesSound
<1> QED  BY <1>1, QueryNext, DocumentInvariant, PTL DEF ObjectSpec, QueryInv

\* QueryFindsAll: for documents of any shape, filters of any kind and queries of
\* any depth within the callbacks of others, a query that ends has called back
\* in order, and for all that it was to.
THEOREM QueriesFindAll == ObjectSpec => []QueryFindsAll
<1>1. ASSUME QueryInv, Walking, Inner.levels = <<>>
      PROVE  /\ \A i, j \in DOMAIN Inner.calls : i < j =>
                   /\ Inner.calls[i] < Inner.calls[j]
                   /\ Inner.calls[i] \in Inner.refused =>
                         Inner.calls[j] \notin Reach({Inner.calls[i]}, shape) \ {Inner.calls[i]}
             /\ \A n \in Reach({Inner.start}, tree) \ Inner.touched :
                   Eval(Inner.filter, content[n]) =>
                       \/ n \in Range(Inner.calls)
                       \/ \E m \in Inner.refused : n \in Reach({m}, shape) \ {m}
  <2>1. Inner \in Walks /\ Sound(Inner, shape, tree, content) /\ tree \in Trees
    BY <1>1, InnerSound, QueryFacts DEF QueryInv, Walking
  <2>2. Pending(Inner) = {}
    BY <1>1 DEF Pending
  <2>3. Reach({}, tree) = {}
    <3>1. {} \in SUBSET Nodes /\ \A m \in {} : tree[m] \subseteq {}
      OBVIOUS
    <3> QED  BY <2>1, <3>1, ReachLeast
  <2> QED  BY <2>1, <2>2, <2>3 DEF Sound, InOrder, Covered
<1>2. QueryInv => QueryFindsAll
  BY <1>1 DEF QueryFindsAll
<1> QED  BY <1>2, QueryInvariant, PTL
=============================================================================

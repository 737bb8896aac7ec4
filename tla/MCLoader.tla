------------------------------ MODULE MCLoader ------------------------------
(***************************************************************************)
(* Finite instances of Loader.  Every graph over three libraries; every    *)
(* kind of file with two; some graphs that load eight or nine.             *)
(***************************************************************************)
EXTENDS Loader, SequencesExt

CONSTANTS a, b, c          \* the libraries of the small instances

Lists(S, n) == UNION {TupleOf(S, k) : k \in 0..n}
DistinctLists(S, n) ==
  {s \in Lists(S, n) : \A j, k \in 1..Len(s) : s[j] = s[k] => j = k}

\* Every program with up to three DT_NEEDED and every three libraries with
\* up to two, cycles and diamonds included.
SmallLib == {a, b, c}
SmallGraphs ==
  {g \in [SmallLib \cup {Root} -> DistinctLists(SmallLib, 3)] :
     \A l \in SmallLib : Len(g[l]) <= 2 /\ l \notin Entries(g[l])}

\* Nine libraries, of which the program needs all or the first eight, on its
\* own or through one another.
NineLib == 1..9
Nothing == [o \in NineLib \cup {Root} |-> <<>>]
Star(n, others) == [others EXCEPT ![Root] = [k \in 1..n |-> k]]
Chain(n) == [o \in NineLib \cup {Root} |->
               IF o = Root THEN <<1>> ELSE IF o < n THEN <<o + 1>> ELSE <<>>]
NineGraphs ==
  {Star(n, Nothing) : n \in {8, 9}} \cup {Chain(n) : n \in {8, 9}} \cup
  {Star(n, [Nothing EXCEPT ![l] = <<k>>]) :
     n \in {4, 7}, l \in {1, 4}, k \in {5, 8}}

\* The first two of them, in every way.
PairGraphs ==
  {[Nothing EXCEPT ![Root] = r, ![1] = s, ![2] = t] :
     r \in DistinctLists({1, 2}, 2), s \in {<<>>, <<2>>}, t \in {<<>>, <<1>>}}
FileGraphs == NineGraphs \cup PairGraphs

\* Good files, and files of which the first two libraries' may be anything,
\* or missing only.
GoodFiles == {[o \in Object |-> "good"]}
SomeFiles(root, kinds) ==
  {[o \in Object |-> IF o = Root THEN f ELSE IF o = 1 THEN g
                     ELSE IF o = 2 THEN h ELSE "good"] :
     f \in root, g \in kinds, h \in kinds}
MixedFiles == SomeFiles({"good", "nodynamic"}, AnyFileKind)
MissingFiles == SomeFiles({"good"}, {"good", "missing"})
=============================================================================

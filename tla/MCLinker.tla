------------------------------ MODULE MCLinker ------------------------------
(***************************************************************************)
(* Finite instances of Linker: three libraries, two symbols, short tables. *)
(***************************************************************************)
EXTENDS Linker

CONSTANTS x, y      \* the dynamic symbols

TwoSym == {x, y}

\* DT_JMPREL alone: the program uses x, or both symbols, and each library
\* uses at most one.
PltTables ==
  {[o \in Object |-> <<<<>>, f[o]>>] :
     f \in {g \in [Object -> {<<>>, <<x>>, <<y>>, <<x, y>>}] :
              /\ g[0] \in {<<x>>, <<x, y>>}
              /\ \A o \in 1..N : Len(g[o]) <= 1}}

\* Both tables, and every kind of relocation in DT_RELA.
MixedTables ==
  {[o \in Object |-> IF o <= 2 THEN <<r[o], IF o = 1 THEN <<>> ELSE <<y>>>>
                    ELSE <<<<>>, <<>>>>] :
     r \in {g \in [0..2 -> {<<>>, <<x>>, <<RELATIVE>>, <<x, NONE>>,
                           <<NONE, x>>}] : \A o \in 1..2 : g[o] # <<x, NONE>>}}

\* Every assignment of the definitions, interposition and duplicates
\* included; all mapped, or library 1 not, or the program's segment_ garbage,
\* or the search list of my_dlopen.
TablePrograms(T) ==
  {[defs |-> d, table |-> t, unmapped |-> s[1], scope |-> s[2]] :
     d \in [1..N -> SUBSET TwoSym],
     t \in T,
     s \in {<<{}, N>>, <<{1}, N>>, <<{0}, N>>, <<{}, 0>>}}

AllPrograms == TablePrograms(PltTables \cup MixedTables)
=============================================================================

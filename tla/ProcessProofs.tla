--------------------------- MODULE ProcessProofs ---------------------------
(***************************************************************************)
(* What holds of module Process for every program, every set of libraries  *)
(* and every content of the disk: the proofs about Loader and Linker,      *)
(* carried over to the two stages of a process, and those about what is    *)
(* between and behind them.                                                *)
(***************************************************************************)
EXTENDS Process, LookupProofs

LP == INSTANCE LoaderProofs
        WITH stack <- loading, status <- load,
             Graphs <- {c.needed : c \in Cases},
             Files <- {c.file : c \in {d \in Cases :
                                         d.file[Root] \in {"good", "nodynamic"}}},
             Roles <- {"main", "debug"}
KP == INSTANCE LinkerProofs
        WITH stack <- linking, status <- link, error <- unresolved,
             N <- Cardinality(Lib), Programs <- {}

-----------------------------------------------------------------------------
(***************************************************************************)
(* A step of loading is a step of module Loader, one of linking is a step  *)
(* of module Linker.                                                       *)
(***************************************************************************)
LEMMA LoadingIsLoader == Loading!Next => LP!Next
  <1> USE DEF Loading!Running, Loading!Resume, Loading!Return, Loading!top,
              Loading!input, Loading!Name, Loading!Needs, Loading!Turn,
              Loading!Entries, Loading!Activation, Loading!RefusedKind,
              Loading!BlockSlots, Loading!UnsplitSlack, Loading!MinSlots,
              Loading!Capacity, Loading!vars,
              LP!Running, LP!Resume, LP!Return, LP!top,
              LP!input, LP!Name, LP!Needs, LP!Turn,
              LP!Entries, LP!Activation, LP!RefusedKind,
              LP!BlockSlots, LP!UnsplitSlack, LP!MinSlots,
              LP!Capacity, LP!vars
  <1>1. Loading!ReadDynamic => LP!ReadDynamic
    BY DEF Loading!ReadDynamic, LP!ReadDynamic
  <1>2. Loading!NoDynamic => LP!NoDynamic
    BY DEF Loading!NoDynamic, LP!NoDynamic
  <1>3. Loading!NullHeader => LP!NullHeader
    BY SMTT(30) DEF Loading!NullHeader, LP!NullHeader
  <1>4. Loading!NewManager => LP!NewManager
    BY DEF Loading!NewManager, LP!NewManager
  <1>5. Loading!AlreadyViewed => LP!AlreadyViewed
    BY DEF Loading!AlreadyViewed, LP!AlreadyViewed
  <1>6. Loading!EndOfTable => LP!EndOfTable
    BY DEF Loading!EndOfTable, LP!EndOfTable
  <1>7. Loading!Descend => LP!Descend
    BY DEF Loading!Descend, LP!Descend
  <1>8. Loading!EmptySlot => LP!EmptySlot
    BY DEF Loading!EmptySlot, LP!EmptySlot
  <1>9. Loading!WildSlot => LP!WildSlot
    BY DEF Loading!WildSlot, LP!WildSlot
  <1>10. Loading!LeaveLoop => LP!LeaveLoop
    BY DEF Loading!LeaveLoop, LP!LeaveLoop
  <1>11. Loading!Stopped => LP!Stopped
    BY DEF Loading!Stopped, LP!Stopped
  <1> QED
    BY <1>1, <1>2, <1>3, <1>4, <1>5, <1>6, <1>7, <1>8, <1>9, <1>10, <1>11
       DEF Loading!Next, LP!Next

LEMMA LinkingIsLinker == Linking!Next => KP!Next
  <1> USE DEF Linking!Running, Linking!Resume, Linking!top, Linking!Relocs,
              Linking!Found, Linking!Here, Linking!Definers, Linking!Provider,
              Linking!Write, Linking!AtSymbol, Linking!LeaveTable,
              Linking!Activation, Linking!vars,
              KP!Running, KP!Resume, KP!top, KP!Relocs,
              KP!Found, KP!Here, KP!Definers, KP!Provider,
              KP!Write, KP!AtSymbol, KP!LeaveTable, KP!Activation, KP!vars
  <1>1. Linking!EndOfTable => KP!EndOfTable
    BY DEF Linking!EndOfTable, KP!EndOfTable
  <1>2. Linking!StopAtNone => KP!StopAtNone
    BY SMTT(30) DEF Linking!StopAtNone, KP!StopAtNone
  <1>3. Linking!NotFound => KP!NotFound
    BY ZenonT(30) DEF Linking!NotFound, KP!NotFound
  <1>4. Linking!BindOwn => KP!BindOwn
    BY ZenonT(30) DEF Linking!BindOwn, KP!BindOwn
  <1>5. Linking!LinkProvider => KP!LinkProvider
    BY ZenonT(30) DEF Linking!LinkProvider, KP!LinkProvider
  <1>6. Linking!BindLinked => KP!BindLinked
    BY DEF Linking!BindLinked, KP!BindLinked
  <1>7. Linking!Stopped => KP!Stopped
    BY DEF Linking!Stopped, KP!Stopped
  <1> QED
    BY <1>1, <1>2, <1>3, <1>4, <1>5, <1>6, <1>7 DEF Linking!Next, KP!Next

-----------------------------------------------------------------------------
(***************************************************************************)
(* The assumptions of the two modules hold here.                           *)
(***************************************************************************)
LEMMA StartableTypes ==
  ASSUME NEW c, Startable(c)
  PROVE  /\ c.args \in Seq(String) /\ Len(c.args) > 0
         /\ c.env \in Seq(String) /\ c.aux \in Seq(Nat)
         /\ c.needed \in [Lib \cup {Root} -> Seq(Lib)]
         /\ c.file \in [Lib \cup {Root} -> Loading!AnyFileKind]
  BY Zenon DEF Startable

LEMMA LoaderAssumed ==
  /\ Root \notin Lib
  /\ {c.needed : c \in Cases} \subseteq [LP!Object -> Seq(Lib)]
  /\ {c.file : c \in {d \in Cases : d.file[Root] \in {"good", "nodynamic"}}}
       \subseteq [LP!Object -> LP!AnyFileKind]
  /\ \A f \in {c.file : c \in {d \in Cases :
                                 d.file[Root] \in {"good", "nodynamic"}}} :
       f[Root] \in {"good", "nodynamic"}
  /\ {"main", "debug"} \subseteq {"main", "debug", "dlopen"}
  <1>1. \A c \in Cases : /\ c.needed \in [Lib \cup {Root} -> Seq(Lib)]
                         /\ c.file \in [Lib \cup {Root} -> Loading!AnyFileKind]
    BY ProcessAssumption, StartableTypes
  <1> QED
    BY <1>1, ProcessAssumption DEF LP!Object, LP!AnyFileKind, Loading!AnyFileKind

LEMMA LinkerAssumed ==
  /\ Cardinality(Lib) \in Nat
  /\ {NONE, RELATIVE} \cap Sym = {}
  /\ NONE # RELATIVE
  /\ {} \subseteq KP!Program
  /\ StackLimit \in Nat \ {0}
  BY ProcessAssumption, FS_CardinalityType

\* The invariants of module Loader, in a process that is loading.
LoadInv ==
  /\ LP!TypeOK /\ LP!OrderInv /\ LP!CoverInv /\ LP!FileInv
  /\ LP!SmallLoadsStayInBlock
  /\ LP!RootInv /\ LP!DepInv /\ LP!CrashInv

LEMMA LoadInvStep ==
  LoadInv /\ (Loading!Next \/ UNCHANGED loaderVars) => LoadInv'
  <1> SUFFICES ASSUME LoadInv, Loading!Next \/ UNCHANGED loaderVars
               PROVE  LoadInv'
    OBVIOUS
  <1>1. [LP!Next]_(LP!vars)
    BY LoadingIsLoader DEF loaderVars, LP!vars
  <1>2. (LP!TypeOK /\ LP!OrderInv /\ LP!CoverInv /\ LP!FileInv)'
    BY <1>1, LoaderAssumed, LP!FilesStep DEF LoadInv
  <1>3. LP!SmallLoadsStayInBlock'
    BY <1>1, LoaderAssumed, LP!BlockStep DEF LoadInv
  <1>4. LP!RootInv'
    BY <1>1, LoaderAssumed, LP!RootStep DEF LoadInv
  <1>5. LP!DepInv'
    BY <1>1, LoaderAssumed, LP!DepStep DEF LoadInv
  <1>6. LP!CrashInv'
    BY <1>1, LoaderAssumed, LP!CrashStep DEF LoadInv
  <1> QED
    BY <1>2, <1>3, <1>4, <1>5, <1>6 DEF LoadInv

-----------------------------------------------------------------------------
(***************************************************************************)
(* Where the words of the initial stack are, and what get_env, get_auxv    *)
(* and read_auxv find among them.                                          *)
(***************************************************************************)
StackWord == [number : Nat, text : String]

LEMMA WordsLie ==
  ASSUME Startable(input)
  PROVE  LET a == Len(input.args)
             e == Len(input.env)
             x == Len(input.aux)
         IN  /\ a \in Nat \ {0} /\ e \in Nat /\ x \in Nat
             /\ DOMAIN input.aux = 1..x /\ \A i \in 1..x : input.aux[i] \in Nat
             /\ Words \in Seq(StackWord) /\ Len(Words) = a + e + x + 2
             /\ \A i \in 1..a : Words[i] = Pointer(input.args[i])
             /\ Words[a + 1] = Null
             /\ \A i \in 1..e : Words[a + 1 + i] = Pointer(input.env[i])
             /\ Words[a + e + 2] = Null
             /\ \A i \in 1..x : Words[a + e + 2 + i] = Number(input.aux[i])
  <1> DEFINE a == Len(input.args)
             e == Len(input.env)
             x == Len(input.aux)
             A == [i \in DOMAIN input.args |-> Pointer(input.args[i])]
             E == [i \in DOMAIN input.env |-> Pointer(input.env[i])]
             X == [i \in DOMAIN input.aux |-> Number(input.aux[i])]
             N == <<Null>>
  <1>1. /\ a \in Nat \ {0} /\ e \in Nat /\ x \in Nat
        /\ DOMAIN input.args = 1..a /\ DOMAIN input.env = 1..e
        /\ DOMAIN input.aux = 1..x
        /\ \A i \in 1..a : input.args[i] \in String
        /\ \A i \in 1..e : input.env[i] \in String
        /\ \A i \in 1..x : input.aux[i] \in Nat
    BY StartableTypes
  <1>2. /\ A \in Seq(StackWord) /\ Len(A) = a
        /\ \A i \in 1..a : A[i] = Pointer(input.args[i])
    <2>1. A \in [1..a -> StackWord]
      BY <1>1 DEF Pointer, StackWord
    <2> QED
      BY <1>1, <2>1, FunctionIsSeq
  <1>3. /\ E \in Seq(StackWord) /\ Len(E) = e
        /\ \A i \in 1..e : E[i] = Pointer(input.env[i])
    <2>1. E \in [1..e -> StackWord]
      BY <1>1 DEF Pointer, StackWord
    <2> QED
      BY <1>1, <2>1, FunctionIsSeq
  <1>4. /\ X \in Seq(StackWord) /\ Len(X) = x
        /\ \A i \in 1..x : X[i] = Number(input.aux[i])
    <2>1. X \in [1..x -> StackWord]
      <3>1. <<>> \in String
        BY DEF String
      <3> QED
        BY <1>1, <3>1 DEF Number, StackWord
    <2> QED
      BY <1>1, <2>1, FunctionIsSeq
  <1>5. N \in Seq(StackWord) /\ Len(N) = 1 /\ N[1] = Null
    <2>1. Null \in StackWord
      BY DEF Null, StackWord, String
    <2> QED
      BY <2>1
  <1>6. Words = A \o N \o E \o N \o X
    BY DEF Words
  <1> DEFINE B == A \o N
             C == B \o E
             D == C \o N
             W == D \o X
  <1>7. Words = W
    BY <1>6
  <1> HIDE DEF A, E, X, N, a, e, x
  <1>8. \A p, q \in Seq(StackWord) :
          /\ p \o q \in Seq(StackWord) /\ Len(p \o q) = Len(p) + Len(q)
          /\ \A k \in 1..Len(p) : (p \o q)[k] = p[k]
          /\ \A k \in 1..Len(q) : (p \o q)[Len(p) + k] = q[k]
    BY TwoParts
  <1>9. /\ B \in Seq(StackWord) /\ Len(B) = a + 1
        /\ \A i \in 1..a : B[i] = A[i]
        /\ B[a + 1] = Null
    <2>1. /\ A \o N \in Seq(StackWord) /\ Len(A \o N) = Len(A) + Len(N)
          /\ \A k \in 1..Len(A) : (A \o N)[k] = A[k]
          /\ \A k \in 1..Len(N) : (A \o N)[Len(A) + k] = N[k]
      BY <1>8, <1>2, <1>5
    <2>2. A \o N = B
      OBVIOUS
    <2> HIDE DEF B
    <2> QED
      BY <1>1, <1>2, <1>5, <2>1, <2>2
  <1> HIDE DEF B
  <1>10. /\ C \in Seq(StackWord) /\ Len(C) = a + 1 + e
         /\ \A i \in 1..a + 1 : C[i] = B[i]
         /\ \A i \in 1..e : C[a + 1 + i] = E[i]
    <2>1. /\ B \o E \in Seq(StackWord) /\ Len(B \o E) = Len(B) + Len(E)
          /\ \A k \in 1..Len(B) : (B \o E)[k] = B[k]
          /\ \A k \in 1..Len(E) : (B \o E)[Len(B) + k] = E[k]
      BY <1>8, <1>3, <1>9
    <2>2. B \o E = C
      OBVIOUS
    <2> HIDE DEF C
    <2> QED
      BY <1>1, <1>3, <1>9, <2>1, <2>2
  <1> HIDE DEF C
  <1>11. /\ D \in Seq(StackWord) /\ Len(D) = a + e + 2
         /\ \A i \in 1..a + 1 + e : D[i] = C[i]
         /\ D[a + e + 2] = Null
    <2>1. /\ C \o N \in Seq(StackWord) /\ Len(C \o N) = Len(C) + Len(N)
          /\ \A k \in 1..Len(C) : (C \o N)[k] = C[k]
          /\ \A k \in 1..Len(N) : (C \o N)[Len(C) + k] = N[k]
      BY <1>8, <1>5, <1>10
    <2>2. C \o N = D
      OBVIOUS
    <2> HIDE DEF D
    <2> QED
      BY <1>1, <1>5, <1>10, <2>1, <2>2
  <1> HIDE DEF D
  <1>12. /\ W \in Seq(StackWord) /\ Len(W) = a + e + x + 2
         /\ \A i \in 1..a + e + 2 : W[i] = D[i]
         /\ \A i \in 1..x : W[a + e + 2 + i] = X[i]
    <2>1. /\ D \o X \in Seq(StackWord) /\ Len(D \o X) = Len(D) + Len(X)
          /\ \A k \in 1..Len(D) : (D \o X)[k] = D[k]
          /\ \A k \in 1..Len(X) : (D \o X)[Len(D) + k] = X[k]
      BY <1>8, <1>4, <1>11
    <2>2. D \o X = W
      OBVIOUS
    <2> HIDE DEF W
    <2> QED
      BY <1>1, <1>4, <1>11, <2>1, <2>2
  <1> HIDE DEF W
  <1>13. ASSUME NEW i \in 1..a
         PROVE  W[i] = A[i]
    <2>1. i \in 1..a + 1 /\ i \in 1..a + 1 + e /\ i \in 1..a + e + 2
      BY <1>1
    <2> QED
      BY <1>9, <1>10, <1>11, <1>12, <2>1
  <1>14. W[a + 1] = Null
    <2>1. a + 1 \in 1..a + 1 /\ a + 1 \in 1..a + 1 + e
          /\ a + 1 \in 1..a + e + 2
      BY <1>1
    <2> QED
      BY <1>9, <1>10, <1>11, <1>12, <2>1
  <1>15. ASSUME NEW i \in 1..e
         PROVE  W[a + 1 + i] = E[i]
    <2>1. a + 1 + i \in 1..a + 1 + e /\ a + 1 + i \in 1..a + e + 2
      BY <1>1
    <2>2. W[a + 1 + i] = D[a + 1 + i]
      BY <1>12, <2>1
    <2>3. D[a + 1 + i] = C[a + 1 + i]
      BY <1>11, <2>1
    <2> QED
      BY <1>10, <2>2, <2>3
  <1>16. W[a + e + 2] = Null
    <2>1. a + e + 2 \in 1..a + e + 2
      BY <1>1
    <2> QED
      BY <1>11, <1>12, <2>1
  <1> QED
    BY <1>1, <1>2, <1>3, <1>4, <1>7, <1>12, <1>13, <1>14, <1>15, <1>16
       DEF a, e, x

\* The first null word from a place on, if the words up to it are not null.
LEMMA NullIsAt ==
  ASSUME Startable(input), NEW first \in Nat \ {0}, NEW last \in first..Len(Words),
         Words[last].number = 0,
         \A k \in first..last - 1 : Words[k].number # 0
  PROVE  NullFrom(first) = last
  <1> DEFINE S == {k \in first..Len(Words) : Words[k].number = 0}
  <1>1. Len(Words) \in Nat
    BY WordsLie DEF StackWord
  <1>2. S \in SUBSET Nat /\ last \in S
    BY <1>1
  <1>3. \A k \in S : last <= k
    BY <1>1
  <1> HIDE DEF S
  <1>4. FirstOf(S) \in S /\ \A k \in S : FirstOf(S) <= k
    BY <1>2, FirstOfSet
  <1>5. FirstOf(S) = last
    <2>1. FirstOf(S) \in Nat /\ FirstOf(S) <= last /\ last <= FirstOf(S)
      BY <1>2, <1>3, <1>4
    <2> QED
      BY <2>1
  <1> QED
    BY <1>5 DEF NullFrom, S

\* The same, word by word.
ArgWords(a) == \A k \in 1..a : Words[k].number = 1
EnvWords(a, e) == \A k \in a + 2..a + e + 1 :
                    /\ Words[k].number = 1
                    /\ Words[k].text = input.env[k - (a + 1)]
AuxWords(b, x) == \A k \in 1..x : /\ Words[b + k].number = input.aux[k]
                                 /\ input.aux[k] \in Nat
WordsOf(a, e, x) ==
  /\ a = Len(input.args) /\ e = Len(input.env) /\ x = Len(input.aux)
  /\ Len(Words) = a + e + x + 2
  /\ Words[a + 1].number = 0 /\ Words[a + e + 2].number = 0
  /\ ArgWords(a) /\ EnvWords(a, e) /\ AuxWords(a + e + 2, x)

LEMMA WordFields ==
  /\ Null.number = 0
  /\ \A s : Pointer(s).number = 1 /\ Pointer(s).text = s
  /\ \A n : Number(n).number = n
  BY DEF Null, Pointer, Number

LEMMA WordsAre ==
  ASSUME Startable(input)
  PROVE  \E a \in Nat \ {0}, e \in Nat, x \in Nat : WordsOf(a, e, x)
  <1>1. PICK a \in Nat \ {0}, e \in Nat, x \in Nat :
          a = Len(input.args) /\ e = Len(input.env) /\ x = Len(input.aux)
    BY WordsLie
  <1>2. Len(Words) = a + e + x + 2 /\ Words[a + 1] = Null /\ Words[a + e + 2] = Null
    BY <1>1, WordsLie
  <1>3. \A i \in 1..a : Words[i] = Pointer(input.args[i])
    BY <1>1, WordsLie
  <1>4. \A i \in 1..e : Words[a + 1 + i] = Pointer(input.env[i])
    BY <1>1, WordsLie
  <1>5. \A i \in 1..x : /\ Words[a + e + 2 + i] = Number(input.aux[i])
                       /\ input.aux[i] \in Nat
    BY <1>1, WordsLie
  <1>6. ArgWords(a)
    BY <1>3, WordFields DEF ArgWords
  <1>7. ASSUME NEW k \in a + 2..a + e + 1
        PROVE  /\ Words[k].number = 1
               /\ Words[k].text = input.env[k - (a + 1)]
    <2>1. PICK i \in 1..e : i = k - (a + 1)
      OBVIOUS
    <2>2. Words[a + 1 + i] = Pointer(input.env[i])
      BY <1>4
    <2>3. k = a + 1 + i
      BY <2>1
    <2> QED
      BY <2>1, <2>2, <2>3, WordFields
  <1>8. AuxWords(a + e + 2, x)
    BY <1>5, WordFields DEF AuxWords
  <1>9. Words[a + 1].number = 0 /\ Words[a + e + 2].number = 0
    BY <1>2, WordFields
  <1>10. WordsOf(a, e, x)
    BY <1>1, <1>2, <1>6, <1>7, <1>8, <1>9 DEF WordsOf, EnvWords
  <1> QED
    BY <1>10

LEMMA TablesLie ==
  ASSUME Startable(input), NEW a \in Nat \ {0}, NEW e \in Nat, NEW x \in Nat,
         WordsOf(a, e, x)
  PROVE  /\ get_env(1) = a + 2
         /\ NullFrom(a + 2) = a + e + 2
         /\ get_auxv(1) = a + e + 3
  <1>1. NullFrom(1) = a + 1
    <2>1. a + 1 \in 1..Len(Words) /\ Words[a + 1].number = 0
      <3>1. Len(Words) = a + e + x + 2
        BY DEF WordsOf
      <3>2. Words[a + 1].number = 0
        BY DEF WordsOf
      <3> QED
        BY <3>1, <3>2
    <2>2. \A k \in 1..a + 1 - 1 : Words[k].number # 0
      <3>1. ArgWords(a)
        BY DEF WordsOf
      <3> QED
        BY <3>1 DEF ArgWords
    <2> QED
      BY <2>1, <2>2, NullIsAt
  <1>2. NullFrom(a + 2) = a + e + 2
    <2>1. PICK first \in Nat \ {0}, last \in Nat :
            first = a + 2 /\ last = a + e + 2
      OBVIOUS
    <2>2. last \in first..Len(Words) /\ Words[last].number = 0
      <3>1. Len(Words) = a + e + x + 2
        BY DEF WordsOf
      <3>2. Words[a + e + 2].number = 0
        BY DEF WordsOf
      <3> QED
        BY <2>1, <3>1, <3>2
    <2>3. \A k \in first..last - 1 : Words[k].number # 0
      <3>1. EnvWords(a, e)
        BY DEF WordsOf
      <3> QED
        BY <2>1, <3>1 DEF EnvWords
    <2>4. NullFrom(first) = last
      BY <2>2, <2>3, NullIsAt
    <2> QED
      BY <2>1, <2>4
  <1>3. get_env(1) = a + 2
    BY <1>1 DEF get_env
  <1>4. NullFrom(1) + 1 = a + 2
    BY <1>1
  <1>5. get_auxv(1) = (a + e + 2) + 1
    BY <1>2, <1>4 DEF get_auxv
  <1> QED
    BY <1>2, <1>3, <1>5

\* What read_auxv answers is what follows a word of that type, if it is not 0.
LEMMA AuxvRead ==
  ASSUME Startable(input), NEW type \in Nat
  PROVE  LET value == read_auxv(get_auxv(1), type)
         IN  /\ value \in Nat
             /\ value # 0 => \E k \in DOMAIN input.aux :
                               /\ k % 2 = 1 /\ input.aux[k] = type
                               /\ value = input.aux[k + 1]
  <1>1. PICK a \in Nat \ {0}, e \in Nat, x \in Nat : WordsOf(a, e, x)
    BY WordsAre
  <1>2. PICK b \in Nat \ {0} : b = a + e + 2
    OBVIOUS
  <1>3. get_auxv(1) = b + 1 /\ Len(Words) = b + x
    <2>1. get_auxv(1) = a + e + 3
      BY <1>1, TablesLie
    <2>2. Len(Words) = a + e + x + 2
      BY <1>1 DEF WordsOf
    <2> QED
      BY <1>2, <2>1, <2>2
  <1>4. /\ \A k \in 1..x : /\ Words[b + k].number = input.aux[k]
                           /\ input.aux[k] \in Nat
        /\ DOMAIN input.aux = 1..x
    <2>1. DOMAIN input.aux = 1..x
      BY <1>1 DEF Startable, WordsOf
    <2> QED
      BY <1>1, <1>2, <2>1 DEF WordsOf, AuxWords
  <1> DEFINE S == {k \in b + 1..Len(Words) :
                     /\ (k - (b + 1)) % 2 = 0
                     /\ Words[k].number \in {AT_NULL, type}}
  <1>5. read_auxv(get_auxv(1), type) =
          IF Words[FirstOf(S)].number = AT_NULL THEN 0
          ELSE Words[FirstOf(S) + 1].number
    BY <1>3 DEF read_auxv
  <1>6. PICK z \in 1..x : z % 2 = 1 /\ input.aux[z] = AT_NULL
    BY <1>4 DEF Startable
  <1>7. S \in SUBSET Nat /\ b + z \in S
    <2>1. z \in Nat /\ z % 2 = 1
      BY <1>6
    <2>2. b + z \in b + 1..Len(Words) /\ (b + z - (b + 1)) % 2 = 0
      <3>1. (b + z - (b + 1)) % 2 = 0
        BY <2>1
      <3>2. b + z \in b + 1..Len(Words)
        BY <1>3
      <3> QED
        BY <3>1, <3>2
    <2>3. Words[b + z].number = AT_NULL
      BY <1>4, <1>6
    <2> QED
      BY <1>3, <2>2, <2>3
  <1>8. PICK at \in S : at = FirstOf(S) /\ at <= b + z
    <2> HIDE DEF S
    <2> QED
      BY <1>7, FirstOfSet
  <1>9. /\ at \in b + 1..b + x /\ at <= b + z
        /\ (at - (b + 1)) % 2 = 0 /\ Words[at].number \in {AT_NULL, type}
    BY <1>3, <1>8
  <1>10. PICK k \in 1..x : at = b + k
    <2>1. at - b \in 1..x /\ at = b + (at - b)
      BY SMTT(30), <1>9
    <2> QED
      BY <2>1
  <1>11. k % 2 = 1 /\ k <= z
    <2>1. k \in Nat \ {0} /\ ((b + k) - (b + 1)) % 2 = 0
      BY <1>9, <1>10
    <2>2. k % 2 = 1
      BY <2>1
    <2> QED
      BY <1>9, <1>10, <2>2
  <1>12. Words[at].number = input.aux[k] /\ input.aux[k] \in {AT_NULL, type}
    BY <1>4, <1>9, <1>10
  <1> HIDE DEF S
  <1>13. CASE input.aux[k] = AT_NULL
    BY <1>5, <1>8, <1>12, <1>13
  <1>14. CASE input.aux[k] # AT_NULL
    <2>1. input.aux[k] = type
      BY <1>12, <1>14
    <2>2. k # z
      BY <1>6, <1>14
    <2>3. k + 1 \in 1..x /\ at + 1 = b + (k + 1)
      BY <1>11, <1>10, <2>2
    <2>4. Words[at + 1].number = input.aux[k + 1] /\ input.aux[k + 1] \in Nat
      BY <1>4, <2>3
    <2>5. read_auxv(get_auxv(1), type) = input.aux[k + 1]
      BY <1>5, <1>8, <1>12, <1>14, <2>4
    <2> QED
      BY <1>4, <1>11, <2>1, <2>4, <2>5
  <1> QED
    BY <1>13, <1>14

-----------------------------------------------------------------------------
(***************************************************************************)
(* How far a process has come, and what that says of the rest of the state.*)
(***************************************************************************)
FoundInv ==
  env = StringsFrom(get_env(1)) /\ entry = read_auxv(get_auxv(1), AT_ENTRY)

StageInv ==
  /\ input \in Cases
  /\ pc \in {"start", "load", "link", "program", "exited", "killed"}
  /\ role = IF Len(input.args) = 2 THEN "debug" ELSE "main"
  /\ needed = input.needed /\ file = input.file
  /\ role = "main" /\ pc # "start" => FoundInv
  /\ pc = "start" => load = "running"
  /\ pc \in {"start", "load"} => link = "linking"
  /\ pc \in {"link", "program"} => role = "main" /\ load = "done" /\ ~Traced
  /\ pc = "program" => link = "accepted" /\ jump = entry
  /\ pc \in {"start", "load", "link"} => jump = 0
  /\ jump # 0 =>
       \/ jump = 2 /\ "error_" \in input.garbage
       \/ /\ role = "main" /\ pc # "start" /\ link = "accepted"
          /\ jump \in {entry, entry % IntMod}

LEMMA StageInit == Init => StageInv
  BY DEF Init, StageInv

LEMMA LoadKeepsInput == Loading!Next => UNCHANGED <<needed, file, role>>
  BY DEF Loading!Next, Loading!input, Loading!vars, Loading!ReadDynamic,
         Loading!NoDynamic, Loading!NullHeader, Loading!NewManager,
         Loading!AlreadyViewed, Loading!EndOfTable, Loading!Descend,
         Loading!EmptySlot, Loading!WildSlot, Loading!LeaveLoop, Loading!Stopped

\* The calls of the program leave everything else alone.
Call ==
  \/ \E f \in FileNames :
       my_dlopen_unread(f) \/ my_dlopen_dies(f) \/ my_dlopen(f)
  \/ \E h \in DOMAIN handles :
       my_dlclose(h) \/ \E sym \in Sym : my_dlsym(h, sym)
  \/ my_dlerror

LEMMA CallKeeps ==
  ASSUME Call \/ ProgramExits \/ Stopped \/ UNCHANGED vars
  PROVE  /\ UNCHANGED <<input, env, entry, jump, out, loaderVars, linkerVars>>
         /\ pc' = pc \/ (pc = "program" /\ pc' \in {"exited", "killed"})
  BY DEF Call, my_dlopen_unread, my_dlopen_dies, my_dlopen, my_dlclose, my_dlsym,
         my_dlerror, ProgramExits, Stopped, Calling, vars, found

LEMMA WordsStay ==
  ASSUME input' = input
  PROVE  /\ StringsFrom(get_env(1))' = StringsFrom(get_env(1))
         /\ read_auxv(get_auxv(1), AT_ENTRY)' = read_auxv(get_auxv(1), AT_ENTRY)
  <1>1. Words' = Words
    BY DEF Words
  <1>2. \A k : NullFrom(k)' = NullFrom(k)
    BY <1>1 DEF NullFrom
  <1>3. get_env(1)' = get_env(1) /\ get_auxv(1)' = get_auxv(1)
    BY <1>2 DEF get_env, get_auxv
  <1> QED
    BY <1>1, <1>2, <1>3 DEF StringsFrom, read_auxv

LEMMA FoundStays ==
  ASSUME UNCHANGED <<input, env, entry>>
  PROVE  (FoundInv' <=> FoundInv) /\ (Traced' <=> Traced)
  BY WordsStay DEF FoundInv, Traced

LEMMA StageStep == StageInv /\ [Next]_vars => StageInv'
  <1> SUFFICES ASSUME StageInv, [Next]_vars
               PROVE  StageInv'
    OBVIOUS
  <1>1. CASE Call \/ ProgramExits \/ Stopped \/ UNCHANGED vars
    <2>1. UNCHANGED <<input, env, entry, jump, needed, file, role, load, link>>
      BY <1>1, CallKeeps DEF loaderVars, linkerVars
    <2>2. pc' = pc \/ (pc = "program" /\ pc' \in {"exited", "killed"})
      BY <1>1, CallKeeps
    <2> QED
      BY <2>1, <2>2, FoundStays DEF StageInv
  <1>2. CASE StartDebug
    <2>1. UNCHANGED <<input, env, entry, jump, needed, file, role, link>>
      BY <1>2 DEF StartDebug, found, loaderVars, linkerVars
    <2>2. pc = "start" /\ role = "debug" /\ pc' \in {"load", "exited"}
      BY <1>2 DEF StartDebug
    <2> QED
      BY <2>1, <2>2 DEF StageInv
  <1>3. CASE StartMain
    <2>1. UNCHANGED <<input, needed, file, role, link>>
      BY <1>3 DEF StartMain, loaderVars, linkerVars
    <2>2. /\ pc = "start" /\ pc' \in {"load", "killed"}
          /\ \/ jump' = jump
             \/ jump' = 2 /\ "error_" \in input.garbage /\ pc' = "killed"
      BY <1>3 DEF StartMain, Jump
    <2>3. FoundInv'
      <3>1. /\ input' = input /\ env' = StringsFrom(get_env(1))
            /\ entry' = read_auxv(get_auxv(1), AT_ENTRY)
        BY <1>3 DEF StartMain
      <3> QED
        BY <3>1, WordsStay DEF FoundInv
    <2> QED
      BY <2>1, <2>2, <2>3 DEF StageInv
  <1>4. CASE LoadStep
    <2>1. UNCHANGED <<needed, file, role>>
      BY <1>4, LoadKeepsInput DEF LoadStep
    <2>2. UNCHANGED <<input, env, entry, pc, jump, link>> /\ pc = "load"
      BY <1>4 DEF LoadStep, found, linkerVars
    <2> QED
      BY <2>1, <2>2, FoundStays DEF StageInv
  <1>5. CASE LoadDies \/ Listed \/ PrintDies \/ LinkDies \/ Refused
    <2>1. UNCHANGED <<input, env, entry, jump, needed, file, role, link>>
      BY <1>5 DEF LoadDies, Listed, PrintDies, LinkDies, Refused, found,
                  loaderVars, linkerVars
    <2>2. pc' \in {"killed", "exited"} /\ pc # "start"
      BY <1>5 DEF LoadDies, Listed, PrintDies, LinkDies, Refused
    <2> QED
      BY <2>1, <2>2, FoundStays DEF StageInv
  <1>6. CASE StartLinking
    <2>1. UNCHANGED <<input, env, entry, jump, needed, file, role, load>>
      BY <1>6 DEF StartLinking, found, loaderVars
    <2>2. /\ pc = "load" /\ pc' = "link" /\ load = "done" /\ role = "main"
          /\ ~Traced
      BY <1>6 DEF StartLinking
    <2> QED
      BY <2>1, <2>2, FoundStays DEF StageInv
  <1>7. CASE LinkStep
    <2>1. UNCHANGED <<input, env, entry, jump, pc, needed, file, role, load>>
          /\ pc = "link"
      BY <1>7 DEF LinkStep, found, loaderVars
    <2> QED
      BY <2>1, FoundStays DEF StageInv
  <1>8. CASE Accepted
    <2>1. UNCHANGED <<input, env, entry, needed, file, role, load, link>>
          /\ pc = "link" /\ link = "accepted"
      BY <1>8 DEF Accepted, found, loaderVars, linkerVars
    <2>2. /\ jump' \in {entry, entry % IntMod}
          /\ pc' \in {"exited", "program", "killed"}
          /\ pc' = "program" => jump' = entry
      BY <1>8 DEF Accepted, Jump
    <2> QED
      BY <2>1, <2>2, FoundStays DEF StageInv
  <1> QED
    BY <1>1, <1>2, <1>3, <1>4, <1>5, <1>6, <1>7, <1>8 DEF Next, Start, Call

\* strap.s jumps to the entry point the kernel named, in full or cut down to
\* an int, and only when all symbols were found; or to 2.
THEOREM JumpsWhereItShould == Spec => []JumpsToEntry
  <1>1. StageInv => JumpsToEntry
    <2> SUFFICES ASSUME StageInv, jump # 0,
                        ~(jump = 2 /\ "error_" \in input.garbage)
                 PROVE  /\ role = "main" /\ link = "accepted"
                        /\ \E k \in DOMAIN input.aux :
                             /\ k % 2 = 1 /\ input.aux[k] = AT_ENTRY
                             /\ jump \in {input.aux[k + 1],
                                          input.aux[k + 1] % IntMod}
      BY DEF JumpsToEntry
    <2>1. /\ role = "main" /\ link = "accepted"
          /\ jump \in {entry, entry % IntMod}
          /\ entry = read_auxv(get_auxv(1), AT_ENTRY)
          /\ Startable(input)
      BY ProcessAssumption DEF StageInv, FoundInv
    <2>2. entry # 0
      <3>1. IntMod \in Nat \ {0}
        BY ProcessAssumption
      <3>2. 0 % IntMod = 0
        BY <3>1
      <3> QED
        BY <2>1, <3>2
    <2>3. AT_ENTRY \in Nat
      BY DEF AT_ENTRY
    <2>4. \E k \in DOMAIN input.aux : /\ k % 2 = 1 /\ input.aux[k] = AT_ENTRY
                                      /\ entry = input.aux[k + 1]
      BY <2>1, <2>2, <2>3, AuxvRead
    <2> QED
      BY <2>1, <2>4
  <1> QED
    BY <1>1, StageInit, StageStep, PTL DEF Spec

-----------------------------------------------------------------------------
(***************************************************************************)
(* Loading, in a process.                                                  *)
(***************************************************************************)
LoadedInv ==
  /\ file[Root] \in {"good", "nodynamic"} => LoadInv
  /\ pc \in {"load", "link", "program"} \/ load # "running" =>
       file[Root] \in {"good", "nodynamic"}

\* What a step does to the variables of Loader.
LEMMA LoadPart ==
  ASSUME [Next]_vars
  PROVE  \/ pc = "load" /\ pc' = pc /\ Loading!Next
         \/ UNCHANGED loaderVars
  <1>1. CASE LoadStep
    BY <1>1 DEF LoadStep
  <1>2. CASE Call \/ ProgramExits \/ Stopped \/ UNCHANGED vars
    BY <1>2, CallKeeps
  <1> QED
    BY <1>1, <1>2 DEF Next, Start, Call, StartDebug, StartMain, LoadDies, Listed,
       StartLinking, LinkStep, PrintDies, LinkDies, Refused, Accepted

\* It starts as Loader does, if the program's own file is what its callers ask.
LEMMA LoadedInit == Init => LoadedInv
  <1> SUFFICES ASSUME Init, file[Root] \in {"good", "nodynamic"}
               PROVE  LoadInv
    BY DEF Init, LoadedInv
  <1>1. LP!Init
    <2>1. /\ needed \in {c.needed : c \in Cases}
          /\ file \in {c.file : c \in {d \in Cases :
                                         d.file[Root] \in {"good", "nodynamic"}}}
          /\ role \in {"main", "debug"}
      BY DEF Init
    <2>2. loading = <<LP!Activation(0)>>
      BY DEF Init, LP!Activation, Loading!Activation
    <2>3. scan = [o \in LP!Object |-> "no"]
      BY DEF Init, LP!Object
    <2> QED
      BY <2>1, <2>2, <2>3 DEF Init, LP!Init
  <1>2. LP!TypeOK /\ LP!OrderInv /\ LP!CoverInv /\ LP!FileInv
    BY <1>1, LoaderAssumed, LP!AllInit, LP!FileInit
  <1>3. LP!SmallLoadsStayInBlock
    BY <1>1 DEF LP!Init, LP!SmallLoadsStayInBlock
  <1>4. LP!RootInv /\ LP!DepInv /\ LP!CrashInv
    BY <1>1, LoaderAssumed, LP!RootInit, LP!LeftInit
  <1> QED
    BY <1>2, <1>3, <1>4 DEF LoadInv

LEMMA LoadedStep == StageInv /\ LoadedInv /\ [Next]_vars => LoadedInv'
  <1> SUFFICES ASSUME StageInv, LoadedInv, [Next]_vars
               PROVE  LoadedInv'
    OBVIOUS
  <1>1. file' = file
    <2>1. CASE Loading!Next
      BY <2>1, LoadKeepsInput
    <2>2. CASE UNCHANGED loaderVars
      BY <2>2 DEF loaderVars
    <2> QED
      BY <2>1, <2>2, LoadPart
  <1>2. file[Root] \in {"good", "nodynamic"} => LoadInv'
    BY LoadPart, LoadInvStep DEF LoadedInv
  <1>3. ASSUME pc' \in {"load", "link", "program"}
        PROVE  file[Root] \in {"good", "nodynamic"}
    <2>1. CASE pc \in {"load", "link", "program"}
      BY <2>1 DEF LoadedInv
    <2>2. CASE StartDebug
      BY <1>3, <2>2 DEF StartDebug
    <2>3. CASE StartMain
      <3>1. Startable(input) /\ Len(input.args) # 2 /\ file = input.file
        BY <2>3, ProcessAssumption DEF StartMain, StageInv
      <3> QED
        BY <3>1 DEF Startable
    <2>4. CASE ~StartDebug /\ ~StartMain
      <3>1. CASE Call \/ ProgramExits \/ Stopped \/ UNCHANGED vars
        <4>1. pc' = pc \/ pc = "program"
          BY <3>1, CallKeeps
        <4> QED
          BY <1>3, <2>1, <4>1
      <3>2. CASE ~(Call \/ ProgramExits \/ Stopped \/ UNCHANGED vars)
        <4>1. pc \in {"load", "link"}
          BY <2>4, <3>2 DEF Next, Start, Call, LoadStep, LoadDies, Listed,
             StartLinking, LinkStep, PrintDies, LinkDies, Refused, Accepted
        <4> QED
          BY <2>1, <4>1
      <3> QED
        BY <3>1, <3>2
    <2> QED
      BY <2>1, <2>2, <2>3, <2>4
  <1>4. ASSUME load' # "running"
        PROVE  file[Root] \in {"good", "nodynamic"}
    <2>1. load # "running" \/ pc = "load"
      BY <1>4, LoadPart DEF loaderVars
    <2> QED
      BY <2>1 DEF LoadedInv
  <1> QED
    BY <1>1, <1>2, <1>3, <1>4 DEF LoadedInv

-----------------------------------------------------------------------------
(***************************************************************************)
(* The run-time interface.  Inductive invariant: every handle is what one  *)
(* my_dlopen made of one name, and its segment lies behind those of the    *)
(* handles made before it and before the next one mmap would return.       *)
(***************************************************************************)
Handle == [lib : DOMAIN Disk, name : {LibName(f) : f \in FileNames},
           segment : Nat]
OpenedAs(h, f) == h.lib = Path(f) /\ h.name = LibName(f)

HandleOK(h) ==
  /\ h.lib \in DOMAIN Disk /\ Disk[h.lib].kind = "good"
  /\ \A k \in DOMAIN Needs(h.lib) : Needs(h.lib)[k] \notin {"missing", "short"}
  /\ LinksAlone(h.lib)
  /\ \E f \in FileNames : OpenedAs(h, f)

Apart(hs, next) ==
  /\ \A h \in 1..Len(hs) : /\ hs[h].segment \in Nat
                           /\ hs[h].segment + SegmentSize <= next
  /\ \A g, h \in 1..Len(hs) :
       g < h => hs[g].segment + SegmentSize <= hs[h].segment

AnswerOK(hs, r) ==
  r.call = "dlsym" =>
    /\ r.handle \in 1..Len(hs)
    /\ \E n \in 0..SegmentSize - 1 : r.value = hs[r.handle].segment + n

ApiInv ==
  /\ handles \in Seq(Handle)
  /\ calls \in Nat
  /\ pc \in {"start", "load", "link"} => handles = <<>>
  /\ \A h \in 1..Len(handles) : HandleOK(handles[h])
  /\ Apart(handles, NewSegment)
  /\ AnswerOK(handles, reply)

\* A place for one more segment.
LEMMA SegmentsApart ==
  ASSUME NEW m \in Nat
  PROVE  /\ Segment(m) \in Nat /\ Segment(m + 1) \in Nat
         /\ Segment(m + 1) = Segment(m) + SegmentSize
         /\ SegmentSize \in Nat \ {0}
  <1>1. SegmentSize \in Nat \ {0}
    BY ProcessAssumption
  <1>2. \A s \in Nat : s * m \in Nat /\ s * (m + 1) = s * m + s
    OBVIOUS
  <1> QED
    BY <1>1, <1>2 DEF Segment

\* The next handle's segment lies behind all the others.
LEMMA ApartGrows ==
  ASSUME NEW hs \in Seq(Handle), NEW m \in Nat, Apart(hs, Segment(m)),
         NEW h \in Handle, h.segment = Segment(m)
  PROVE  Apart(Append(hs, h), Segment(m + 1))
  <1> DEFINE n == Len(hs)
             t == Append(hs, h)
  <1>1. /\ n \in Nat /\ Len(t) = n + 1 /\ t[n + 1] = h
        /\ \A k \in 1..n : t[k] = hs[k]
    OBVIOUS
  <1> HIDE DEF n, t
  <1>2. /\ Segment(m) \in Nat
        /\ Segment(m + 1) = Segment(m) + SegmentSize
        /\ SegmentSize \in Nat \ {0}
    BY SegmentsApart
  <1>3. ASSUME NEW k \in 1..Len(t)
        PROVE  t[k].segment \in Nat /\ t[k].segment + SegmentSize <= Segment(m + 1)
    <2>1. k = n + 1 \/ k \in 1..n
      BY <1>1
    <2>2. CASE k = n + 1
      BY <1>1, <1>2, <2>2
    <2>3. CASE k \in 1..n
      BY <1>1, <1>2, <2>3 DEF Apart, n
    <2> QED
      BY <2>1, <2>2, <2>3
  <1>4. ASSUME NEW g \in 1..Len(t), NEW k \in 1..Len(t), g < k
        PROVE  t[g].segment + SegmentSize <= t[k].segment
    <2>1. g \in 1..n /\ (k = n + 1 \/ k \in 1..n)
      BY <1>1, <1>4
    <2>2. CASE k = n + 1
      BY <1>1, <2>1, <2>2 DEF Apart, n
    <2>3. CASE k \in 1..n
      BY <1>1, <1>4, <2>1, <2>3 DEF Apart, n
    <2> QED
      BY <2>1, <2>2, <2>3
  <1> QED
    BY <1>3, <1>4 DEF Apart, t

\* The mmap after leaves room for those that failed.
LEMMA ApartLater ==
  ASSUME NEW hs \in Seq(Handle), NEW m \in Nat, Apart(hs, Segment(m))
  PROVE  Apart(hs, Segment(m + 1))
  <1>1. /\ Segment(m) \in Nat
        /\ Segment(m + 1) = Segment(m) + SegmentSize
        /\ SegmentSize \in Nat \ {0}
    BY SegmentsApart
  <1>2. ASSUME NEW h \in 1..Len(hs)
        PROVE  /\ hs[h].segment \in Nat
               /\ hs[h].segment + SegmentSize <= Segment(m + 1)
    <2>1. hs[h].segment \in Nat /\ hs[h].segment + SegmentSize <= Segment(m)
      BY DEF Apart
    <2> QED
      BY <1>1, <2>1
  <1> QED
    BY <1>2 DEF Apart

LEMMA ApiInit == Init => ApiInv
  BY DEF Init, ApiInv, Apart, AnswerOK

\* The number of managers, and so the place of the next segment.
LEMMA SegmentsTaken ==
  ASSUME StageInv, LoadedInv, pc = "program"
  PROVE  Len(loaded) \in Nat
  <1>1. LP!TypeOK
    BY DEF StageInv, LoadedInv, LoadInv
  <1> QED
    BY <1>1 DEF LP!TypeOK

\* A handle that my_dlopen returns.
LEMMA HandleIsMade ==
  ASSUME NEW f \in FileNames, NEW m \in Nat, Found(Path(f)),
         Disk[Path(f)].kind = "good", ~LoadMustDie(Path(f)), LinksAlone(Path(f))
  PROVE  LET h == [lib |-> Path(f), name |-> LibName(f), segment |-> m]
         IN  h \in Handle /\ HandleOK(h) /\ h.segment = m
  <1> DEFINE h == [lib |-> Path(f), name |-> LibName(f), segment |-> m]
  <1>1. /\ h.lib = Path(f) /\ h.name = LibName(f) /\ h.segment = m
        /\ h \in Handle
    BY DEF Handle, Found
  <1> HIDE DEF h
  <1>2. HandleOK(h)
    BY <1>1 DEF HandleOK, OpenedAs, Found, LoadMustDie, NeedsOpen
  <1> QED
    BY <1>1, <1>2 DEF h

LEMMA ApiStep == StageInv /\ LoadedInv /\ ApiInv /\ [Next]_vars => ApiInv'
  <1> SUFFICES ASSUME StageInv, LoadedInv, ApiInv, [Next]_vars
               PROVE  ApiInv'
    OBVIOUS
  <1>1. ASSUME UNCHANGED apiVars, handles = <<>>,
               pc' \in {"start", "load", "link"} => pc \in {"start", "load", "link"}
        PROVE  ApiInv'
    <2>1. Apart(handles', NewSegment')
      BY <1>1 DEF Apart, apiVars
    <2> QED
      BY <1>1, <2>1 DEF ApiInv, apiVars
  <1>2. CASE Start
    <2>1. UNCHANGED apiVars /\ pc \in {"start", "load", "link"}
      BY <1>2 DEF Start, StartDebug, StartMain, LoadStep, LoadDies, Listed,
                  StartLinking, LinkStep, PrintDies, LinkDies, Refused, Accepted
    <2>2. handles = <<>>
      BY <2>1 DEF ApiInv
    <2> QED
      BY <1>1, <2>1, <2>2
  <1>3. CASE ProgramExits \/ Stopped \/ UNCHANGED vars
    <2>1. UNCHANGED <<handles, calls, reply>>
      BY <1>3 DEF ProgramExits, Stopped, vars, apiVars
    <2>2. UNCHANGED loaded /\ (pc' = pc \/ pc' \in {"exited", "killed"})
      BY <1>3, CallKeeps DEF loaderVars
    <2>3. NewSegment' = NewSegment
      BY <2>1, <2>2 DEF NewSegment, Segment
    <2> QED
      BY <2>1, <2>2, <2>3 DEF ApiInv
  <1>4. CASE Call
    <2>1. pc = "program" /\ pc' \in {"program", "killed"} /\ calls' = calls + 1
      BY <1>4 DEF Call, my_dlopen_unread, my_dlopen_dies, my_dlopen, my_dlclose,
                  my_dlsym, my_dlerror, Calling, Answer
    <2>2. PICK m \in Nat : m = Len(loaded) + calls + 1
      BY <2>1, SegmentsTaken DEF ApiInv
    <2>3. NewSegment = Segment(m) /\ NewSegment' = Segment(m + 1)
      <3>1. loaded' = loaded
        BY <1>4, CallKeeps DEF loaderVars
      <3>2. Len(loaded) + (calls + 1) + 1 = m + 1
        BY <2>1, <2>2, SegmentsTaken DEF ApiInv
      <3>3. NewSegment' = Segment(Len(loaded) + (calls + 1) + 1)
        BY <2>1, <3>1 DEF NewSegment, Segment
      <3> QED
        BY <2>2, <3>2, <3>3 DEF NewSegment
    <2>4. ASSUME handles' = handles, AnswerOK(handles, reply')
          PROVE  ApiInv'
      <3>1. Apart(handles, Segment(m + 1))
        BY <2>3, ApartLater DEF ApiInv
      <3> QED
        BY <2>1, <2>3, <2>4, <3>1 DEF ApiInv
    <2>5. ASSUME NEW f \in FileNames, my_dlopen(f)
          PROVE  ApiInv'
      <3>1. CASE ~LinksAlone(Path(f))
        <4>1. handles' = handles /\ reply'.call = "dlopen"
          BY <2>5, <3>1 DEF my_dlopen, Answer
        <4> QED
          BY <2>4, <4>1 DEF AnswerOK
      <3>2. CASE LinksAlone(Path(f))
        <4> DEFINE h == [lib |-> Path(f), name |-> LibName(f),
                         segment |-> Segment(m)]
        <4>1. handles' = Append(handles, h) /\ reply'.call = "dlopen"
          BY <2>3, <2>5, <3>2 DEF my_dlopen, Answer
        <4>2. h \in Handle /\ HandleOK(h) /\ h.segment = Segment(m)
          <5>1. Segment(m) \in Nat
            BY SegmentsApart
          <5>2. /\ Found(Path(f)) /\ Disk[Path(f)].kind = "good"
                /\ ~LoadMustDie(Path(f))
            BY <2>5 DEF my_dlopen
          <5> QED
            BY <3>2, <5>1, <5>2, HandleIsMade
        <4> HIDE DEF h
        <4>3. Apart(handles', Segment(m + 1))
          BY <2>3, <4>1, <4>2, ApartGrows DEF ApiInv
        <4>4. /\ handles' \in Seq(Handle)
              /\ \A k \in 1..Len(handles') : HandleOK(handles'[k])
          <5>1. handles \in Seq(Handle) /\ \A k \in 1..Len(handles) : HandleOK(handles[k])
            BY DEF ApiInv
          <5> QED
            BY <4>1, <4>2, <5>1
        <4> QED
          BY SMTT(30), <2>1, <2>3, <4>1, <4>3, <4>4 DEF ApiInv, AnswerOK
      <3> QED
        BY <3>1, <3>2
    <2>6. ASSUME NEW h \in DOMAIN handles, NEW sym \in Sym, my_dlsym(h, sym)
          PROVE  ApiInv'
      <3>1. /\ handles' = handles
            /\ reply' = [call |-> "dlsym", handle |-> h, name |-> <<sym>>,
                         value |-> handles[h].segment + Offset(h, sym)]
        BY <2>6 DEF my_dlsym, Answer
      <3>2. h \in 1..Len(handles)
        BY DEF ApiInv
      <3>3. Offset(h, sym) \in 0..SegmentSize - 1
        <4>1. SegmentSize \in Nat \ {0}
          BY ProcessAssumption
        <4>2. handles[h].lib \in DOMAIN Disk
          BY <3>2 DEF ApiInv, HandleOK
        <4>3. CASE sym \in DOMAIN Disk[handles[h].lib].symbols
          BY <4>2, <4>3, DiskAssumption DEF Offset
        <4>4. CASE sym \notin DOMAIN Disk[handles[h].lib].symbols
          BY <4>1, <4>4 DEF Offset
        <4> QED
          BY <4>3, <4>4
      <3> QED
        BY <2>4, <3>1, <3>2, <3>3 DEF AnswerOK
    <2>7. CASE \/ \E f \in FileNames : my_dlopen_unread(f) \/ my_dlopen_dies(f)
               \/ \E h \in DOMAIN handles : my_dlclose(h)
               \/ my_dlerror
      <3>1. handles' = handles /\ reply'.call # "dlsym"
        BY <2>7 DEF my_dlopen_unread, my_dlopen_dies, my_dlclose, my_dlerror, Answer
      <3> QED
        BY <2>4, <3>1 DEF AnswerOK
    <2> QED
      BY <1>4, <2>5, <2>6, <2>7 DEF Call
  <1> QED
    BY <1>2, <1>3, <1>4 DEF Next, Call

\* Whatever files were opened and closed before, an answer of my_dlsym lies in
\* the copy of the library whose handle was asked and in no other.
THEOREM AnswersLieApart == Spec => []SymbolInItsCopy
  <1>1. ApiInv => SymbolInItsCopy
    <2> SUFFICES ASSUME ApiInv, reply.call = "dlsym", NEW h \in DOMAIN handles
                 PROVE  h = reply.handle <=>
                          reply.value \in handles[h].segment..
                                          handles[h].segment + SegmentSize - 1
      BY DEF SymbolInItsCopy
    <2> DEFINE r == reply.handle
    <2>1. /\ r \in 1..Len(handles) /\ h \in 1..Len(handles)
          /\ Len(handles) \in Nat
      BY DEF ApiInv, AnswerOK
    <2>2. PICK n \in 0..SegmentSize - 1 : reply.value = handles[r].segment + n
      BY DEF ApiInv, AnswerOK
    <2>3. PICK s \in Nat, t \in Nat : s = handles[r].segment /\ t = handles[h].segment
      BY <2>1 DEF ApiInv, Apart
    <2>4. h = r \/ s + SegmentSize <= t \/ t + SegmentSize <= s
      <3>1. h = r \/ h < r \/ r < h
        BY <2>1
      <3> QED
        BY <2>1, <2>3, <3>1 DEF ApiInv, Apart
    <2>5. SegmentSize \in Nat \ {0}
      BY ProcessAssumption
    <2>6. s + n \in t..t + SegmentSize - 1 <=> h = r
      <3>1. CASE h = r
        BY <2>3, <2>5, <3>1
      <3>2. CASE h # r
        BY <2>4, <2>5, <3>2
      <3> QED
        BY <3>1, <3>2
    <2> QED
      BY <2>2, <2>3, <2>6
  <1> DEFINE I == StageInv /\ LoadedInv /\ ApiInv
  <1>2. Init => I
    BY StageInit, LoadedInit, ApiInit
  <1>3. I /\ [Next]_vars => I'
    BY StageStep, LoadedStep, ApiStep
  <1> QED
    BY <1>1, <1>2, <1>3, PTL DEF Spec

\* What my_dlopen makes of a name without a slash, and of one with some.
LEMMA PlainName ==
  ASSUME NEW f \in FileNames, Positions(f, Slash) = {}
  PROVE  Path(f) = DotSlash \o f /\ LibName(f) = f
  <1>1. f \in Seq(Character) /\ Len(f) \in Nat /\ Len(f) + 1 < SizeMod
    BY DiskAssumption DEF String
  <1>2. SizeMod \in Nat \ {0}
    BY StringsAssumption
  <1>3. (-1) % SizeMod = SizeMod - 1
    <2>1. \A m \in Nat \ {0} : (-1) % m = m - 1
      OBVIOUS
    <2> QED
      BY <1>2, <2>1
  <1>4. strrpos(f, Slash) = SizeMod - 1
    BY <1>3 DEF strrpos
  <1>5. strrpos(f, Slash) > Len(f)
    BY <1>1, <1>2, <1>4
  <1> QED
    BY <1>5 DEF Path, LibName, strcat

LEMMA SlashedName ==
  ASSUME NEW f \in FileNames, Positions(f, Slash) # {}
  PROVE  /\ Path(f) = f
         /\ \E last \in 1..Len(f) :
              /\ f[last] = Slash
              /\ \A i \in last + 1..Len(f) : f[i] # Slash
              /\ LibName(f) = SubSeq(f, last, Len(f))
  <1> DEFINE S == Positions(f, Slash)
             last == LastOf(S)
  <1>1. f \in Seq(Character) /\ Len(f) \in Nat /\ Len(f) + 1 < SizeMod
    BY DiskAssumption DEF String
  <1>2. SizeMod \in Nat \ {0}
    BY StringsAssumption
  <1>3. S \in SUBSET Nat /\ S # {} /\ \A j \in S : j <= Len(f)
    BY <1>1 DEF Positions
  <1>4. last \in S /\ \A j \in S : j <= last
    <2> HIDE DEF S
    <2> QED
      BY <1>1, <1>3, LastOfSet
  <1>5. PICK l \in 1..Len(f) : l = last
    BY <1>4 DEF Positions
  <1>6. f[l] = Slash /\ \A i \in l + 1..Len(f) : f[i] # Slash
    <2>1. f[l] = Slash
      BY <1>4, <1>5 DEF Positions
    <2>2. ASSUME NEW i \in l + 1..Len(f), f[i] = Slash
          PROVE  FALSE
      <3>1. i \in 1..Len(f) /\ ~(i <= l)
        BY <1>1
      <3> QED
        BY <1>4, <1>5, <2>2, <3>1 DEF Positions
    <2> QED
      BY <2>1, <2>2
  <1>7. strrpos(f, Slash) = l - 1
    <2>1. (l - 1) % SizeMod = l - 1
      <3>1. \A m \in Nat \ {0} : l - 1 < m => (l - 1) % m = l - 1
        BY <1>1
      <3> QED
        BY <1>1, <1>2, <3>1
    <2> QED
      BY <1>3, <1>5, <2>1 DEF strrpos
  <1>8. ~(strrpos(f, Slash) > Len(f))
    BY <1>1, <1>7
  <1>9. l - 1 + 1 = l
    BY <1>1
  <1>10. Path(f) = f
    BY <1>8 DEF Path
  <1>11. LibName(f) = SubSeq(f, l, Len(f))
    BY <1>7, <1>8, <1>9 DEF LibName
  <1> QED
    BY <1>6, <1>10, <1>11

LEMMA NamesSplit ==
  ASSUME NEW f \in FileNames, Path(f) # DotSlash
  PROVE  LET path == Path(f)
             name == LibName(f)
         IN  /\ Positions(path, Slash) # {}
             /\ Positions(Tail(name), Slash) = {}
             /\ SubSeq(path, Len(path) - Len(name) + 1, Len(path)) = name
  <1>1. f \in Seq(Character) /\ Len(f) \in Nat
    BY DiskAssumption DEF String
  <1>2. CASE Positions(f, Slash) = {}
    <2>1. Path(f) = DotSlash \o f /\ LibName(f) = f
      BY <1>2, PlainName
    <2> DEFINE p == DotSlash \o f
    <2>2. DotSlash \in Seq(Character) /\ Len(DotSlash) = 2 /\ DotSlash[2] = Slash
      BY DEF DotSlash, Slash, Character
    <2>3. /\ p \in Seq(Character) /\ Len(p) = 2 + Len(f)
          /\ p[2] = Slash
          /\ \A k \in 1..Len(f) : p[2 + k] = f[k]
      <3>1. \A d, e \in Seq(Character) :
              /\ d \o e \in Seq(Character) /\ Len(d \o e) = Len(d) + Len(e)
              /\ \A k \in 1..Len(d) : (d \o e)[k] = d[k]
              /\ \A k \in 1..Len(e) : (d \o e)[Len(d) + k] = e[k]
        BY TwoParts
      <3>2. /\ p \in Seq(Character) /\ Len(p) = Len(DotSlash) + Len(f)
            /\ \A k \in 1..Len(DotSlash) : p[k] = DotSlash[k]
            /\ \A k \in 1..Len(f) : p[Len(DotSlash) + k] = f[k]
        BY <1>1, <2>2, <3>1
      <3> HIDE DEF p
      <3> QED
        BY <2>2, <3>2
    <2>4. f # <<>>
      <3>1. CASE f = <<>>
        <4>1. DotSlash \o <<>> = DotSlash
          BY <2>2
        <4> QED
          BY <2>1, <3>1, <4>1
      <3> QED
        BY <3>1
    <2> HIDE DEF p
    <2>5. Positions(p, Slash) # {}
      BY <1>1, <2>3 DEF Positions
    <2>6. Positions(Tail(f), Slash) = {}
      <3>1. /\ Tail(f) \in Seq(Character) /\ Len(Tail(f)) = Len(f) - 1
            /\ \A i \in 1..Len(f) - 1 : Tail(f)[i] = f[i + 1]
        BY <1>1, <2>4, HeadTailProperties
      <3>2. \A i \in 1..Len(Tail(f)) : Tail(f)[i] # Slash
        BY <1>1, <1>2, <3>1 DEF Positions
      <3> QED
        BY <3>2 DEF Positions
    <2>7. SubSeq(p, 3, Len(p)) = f
      <3> DEFINE t == SubSeq(p, 3, Len(p))
      <3>1. 3 \in Int /\ Len(p) \in Int /\ \A i \in 3..Len(p) : p[i] \in Character
        BY <1>1, <2>3
      <3>2. /\ t \in Seq(Character)
            /\ Len(t) = IF 3 <= Len(p) THEN Len(p) - 3 + 1 ELSE 0
            /\ \A i \in 1..Len(p) - 3 + 1 : t[i] = p[3 + i - 1]
        BY <3>1, SubSeqProperties
      <3> HIDE DEF t
      <3>3. Len(t) = Len(f)
        BY <1>1, <2>3, <3>2
      <3>4. ASSUME NEW i \in 1..Len(t)
            PROVE  t[i] = f[i]
        <4>1. t[i] = p[2 + i]
          BY <1>1, <2>3, <3>2, <3>3
        <4> QED
          BY <2>3, <3>3, <4>1
      <3>5. t = f
        BY <1>1, <3>2, <3>3, <3>4, SeqEqual
      <3> QED
        BY <3>5 DEF t
    <2>8. Len(p) - Len(f) + 1 = 3
      BY <1>1, <2>3
    <2> QED
      BY <2>1, <2>5, <2>6, <2>7, <2>8 DEF p
  <1>3. CASE Positions(f, Slash) # {}
    <2>1. PICK l \in 1..Len(f) :
            /\ Path(f) = f /\ f[l] = Slash
            /\ \A i \in l + 1..Len(f) : f[i] # Slash
            /\ LibName(f) = SubSeq(f, l, Len(f))
      BY <1>3, SlashedName
    <2> DEFINE n == SubSeq(f, l, Len(f))
    <2>2. /\ n \in Seq(Character) /\ Len(n) = Len(f) - l + 1
          /\ \A i \in 1..Len(f) - l + 1 : n[i] = f[l + i - 1]
      <3>1. l \in Int /\ Len(f) \in Int /\ \A i \in l..Len(f) : f[i] \in Character
        BY <1>1
      <3>2. /\ n \in Seq(Character)
            /\ Len(n) = IF l <= Len(f) THEN Len(f) - l + 1 ELSE 0
            /\ \A i \in 1..Len(f) - l + 1 : n[i] = f[l + i - 1]
        BY <3>1, SubSeqProperties
      <3> QED
        BY <3>2
    <2> HIDE DEF n
    <2>3. n # <<>>
      BY <1>1, <2>2
    <2>4. /\ Tail(n) \in Seq(Character) /\ Len(Tail(n)) = Len(n) - 1
          /\ \A i \in 1..Len(n) - 1 : Tail(n)[i] = n[i + 1]
      BY <2>2, <2>3, HeadTailProperties
    <2>5. ASSUME NEW i \in 1..Len(Tail(n))
          PROVE  Tail(n)[i] # Slash
      <3>1. Tail(n)[i] = f[l + i]
        BY <1>1, <2>2, <2>4
      <3>2. l + i \in l + 1..Len(f)
        BY <1>1, <2>2, <2>4
      <3> QED
        BY <2>1, <3>1, <3>2
    <2>6. Positions(Tail(n), Slash) = {}
      BY <2>5 DEF Positions
    <2>7. Len(f) - Len(n) + 1 = l
      BY <1>1, <2>2
    <2> QED
      BY <1>3, <2>1, <2>6, <2>7 DEF n
  <1> QED
    BY <1>2, <1>3

\* Whatever handle my_dlopen returns stands for a library that was read, whose
\* needs were opened, with headers, and whose relocations all lie at or behind
\* an R_SH_NONE, so that patch_relatable looked none of them up and patched
\* none; and its name is the last component of the path that was opened.
THEOREM HandlesNeverLinked == Spec => []HandleNeverLinked
  <1>1. ApiInv => HandleNeverLinked
    <2> SUFFICES ASSUME ApiInv, NEW h \in DOMAIN handles
                 PROVE  LET path == handles[h].lib
                            lib == Disk[path]
                            name == handles[h].name
                        IN  /\ lib.kind = "good"
                            /\ \A k \in DOMAIN lib.needs :
                                 lib.needs[k] \notin {"missing", "short"}
                            /\ \A t \in 1..2 : \A k \in DOMAIN lib.table[t] :
                                 \E j \in 1..k : lib.table[t][j] = NONE
                            /\ Positions(path, Slash) # {}
                            /\ Positions(Tail(name), Slash) = {}
                            /\ SubSeq(path, Len(path) - Len(name) + 1, Len(path))
                                 = name
      BY DEF HandleNeverLinked
    <2>1. h \in 1..Len(handles) /\ HandleOK(handles[h])
      BY DEF ApiInv
    <2> DEFINE path == handles[h].lib
               name == handles[h].name
    <2>2. PICK f \in FileNames : path = Path(f) /\ name = LibName(f)
      BY <2>1 DEF HandleOK, OpenedAs
    <2>3. /\ path \in DOMAIN Disk /\ Disk[path].kind = "good" /\ LinksAlone(path)
          /\ \A k \in DOMAIN Needs(path) : Needs(path)[k] \notin {"missing", "short"}
      BY <2>1 DEF HandleOK
    <2> HIDE DEF path, name
    <2>4. \A k \in DOMAIN Disk[path].needs :
            Disk[path].needs[k] \notin {"missing", "short"}
      BY <2>3 DEF Needs
    <2>5. path # DotSlash
      BY <2>3, DiskAssumption
    <2>6. ASSUME NEW t \in 1..2, NEW k \in DOMAIN Disk[path].table[t]
          PROVE  \E j \in 1..k : Disk[path].table[t][j] = NONE
      <3>1. Disk[path].table[t] \in Seq(Sym \cup {NONE, RELATIVE})
        BY <2>3, DiskAssumption
      <3>2. k \in 1..Len(Disk[path].table[t]) /\ Disk[path].table[t] # <<>>
        BY <3>1
      <3>3. Disk[path].table[t][1] = NONE /\ 1 \in 1..k
        BY <2>3, <3>1, <3>2 DEF LinksAlone
      <3> QED
        BY <3>3
    <2>7. /\ Positions(path, Slash) # {}
          /\ Positions(Tail(name), Slash) = {}
          /\ SubSeq(path, Len(path) - Len(name) + 1, Len(path)) = name
      BY <2>2, <2>5, NamesSplit
    <2> QED
      BY <2>3, <2>4, <2>6, <2>7 DEF path, name
  <1> DEFINE I == StageInv /\ LoadedInv /\ ApiInv
  <1>2. Init => I
    BY StageInit, LoadedInit, ApiInit
  <1>3. I /\ [Next]_vars => I'
    BY StageStep, LoadedStep, ApiStep
  <1> QED
    BY <1>1, <1>2, <1>3, PTL DEF Spec

-----------------------------------------------------------------------------
(***************************************************************************)
(* getenv: whose variable answers for a name.                              *)
(***************************************************************************)
Agree(a, b, n) == \A j \in 1..n : a[j] = b[j]

\* strncmp is 0 if both have that many characters and the same.
LEMMA StrncmpZero ==
  ASSUME NEW a \in Seq(Character), NEW b \in Seq(Character), a # <<>>,
         NEW p \in 0..Len(b)
  PROVE  LET n == IF p > 1 THEN p ELSE 1
         IN  strncmp(a, b, p) = 0 <=>
               n <= Len(b) /\ n <= Len(a) /\ Agree(a, b, n)
  <1>0. PICK n \in Nat \ {0} : n = IF p > 1 THEN p ELSE 1
    OBVIOUS
  <1> DEFINE S == Stops(a, b) \cup {n}
             k == FirstOf(S)
  <1>1. Len(a) \in Nat \ {0} /\ Len(b) \in Nat /\ p \in Nat
    BY EmptySeq
  <1>2. S \in SUBSET Nat /\ n \in S
    BY <1>1 DEF Stops
  <1>3. k \in S /\ \A j \in S : k <= j
    <2> HIDE DEF S
    <2> QED
      BY <1>2, FirstOfSet
  <1>4. k \in 1..n
    BY <1>0, <1>2, <1>3 DEF Stops
  <1>5. \A i \in Nat \ {0} :
          /\ CharAt(a, i) \in Int /\ CharAt(b, i) \in Int
          /\ CharAt(a, i) = 0 <=> i > Len(a)
          /\ CharAt(b, i) = 0 <=> i > Len(b)
          /\ i <= Len(a) => CharAt(a, i) = a[i]
          /\ i <= Len(b) => CharAt(b, i) = b[i]
    BY CharAtFacts
  <1>6. strncmp(a, b, p) = CharAt(a, k) - CharAt(b, k)
    BY <1>0 DEF strncmp
  <1>7. \A i \in 1..k - 1 : i <= Len(a) + 1 => CharAt(a, i) = CharAt(b, i)
    <2> SUFFICES ASSUME NEW i \in 1..k - 1, i <= Len(a) + 1
                 PROVE  CharAt(a, i) = CharAt(b, i)
      OBVIOUS
    <2>1. i \in 1..Len(a) + 1 /\ i \notin S
      <3> HIDE DEF k, S
      <3> QED
        BY <1>1, <1>3, <1>4
    <2> QED
      BY <2>1 DEF Stops
  <1>8. k \in Stops(a, b) => CharAt(a, k) = 0 \/ CharAt(a, k) # CharAt(b, k)
    BY DEF Stops
  <1>9. \A j \in Stops(a, b) : k <= j
    BY <1>3
  <1>10. k \in Stops(a, b) \/ k = n
    BY <1>3
  <1> HIDE DEF k, S
  <1>11. ASSUME strncmp(a, b, p) = 0
         PROVE  n <= Len(b) /\ n <= Len(a) /\ Agree(a, b, n)
    <2>1. CharAt(a, k) = CharAt(b, k)
      BY <1>4, <1>5, <1>6, <1>11
    <2>2. n <= Len(b)
      <3> SUFFICES ASSUME n > Len(b)
                   PROVE  FALSE
        BY <1>1
      <3>1. n = 1 /\ k = 1
        BY <1>0, <1>1, <1>4
      <3> QED
        BY <1>1, <1>5, <2>1, <3>1
    <2>3. CharAt(b, k) # 0
      BY SMTT(30), <1>1, <1>4, <1>5, <2>2
    <2>4. k = n
      BY <1>8, <1>10, <2>1, <2>3
    <2>5. n <= Len(a)
      BY <1>1, <1>4, <1>5, <2>1, <2>3, <2>4
    <2>6. ASSUME NEW j \in 1..n
          PROVE  a[j] = b[j]
      <3>1. j \in Nat \ {0} /\ j <= Len(a) /\ j <= Len(b) /\ j <= Len(a) + 1
        BY <1>1, <2>2, <2>5
      <3>2. CharAt(a, j) = CharAt(b, j)
        BY <1>7, <2>1, <2>4, <3>1
      <3> QED
        BY <1>5, <3>1, <3>2
    <2> QED
      BY <2>2, <2>5, <2>6 DEF Agree
  <1>12. ASSUME n <= Len(b), n <= Len(a), Agree(a, b, n)
         PROVE  strncmp(a, b, p) = 0
    <2>1. k \in Nat \ {0} /\ k <= Len(a) /\ k <= Len(b) /\ a[k] = b[k]
      BY <1>1, <1>4, <1>12 DEF Agree
    <2>2. CharAt(a, k) = CharAt(b, k) /\ CharAt(a, k) \in Int
      BY <1>5, <2>1
    <2> QED
      BY <1>6, <2>2
  <1> QED
    BY <1>0, <1>11, <1>12

\* strpos finds the first, or the end.
LEMMA StrposFirst ==
  ASSUME NEW s \in Seq(Character), NEW c
  PROVE  /\ strpos(s, c) \in 0..Len(s)
         /\ \A j \in 1..strpos(s, c) : s[j] # c
         /\ strpos(s, c) < Len(s) => s[strpos(s, c) + 1] = c
  <1> DEFINE P == Positions(s, c)
  <1>1. Len(s) \in Nat
    OBVIOUS
  <1>2. CASE P = {}
    <2>1. strpos(s, c) = Len(s)
      BY <1>2 DEF strpos
    <2> QED
      BY <1>1, <1>2, <2>1 DEF Positions
  <1>3. CASE P # {}
    <2>1. P \in SUBSET Nat
      BY DEF Positions
    <2>2. PICK k \in P : k = FirstOf(P) /\ \A j \in P : k <= j
      <3> HIDE DEF P
      <3> QED
        BY <1>3, <2>1, FirstOfSet
    <2>3. k \in 1..Len(s) /\ s[k] = c /\ strpos(s, c) = k - 1
      BY <1>3, <2>2 DEF Positions, strpos
    <2>4. ASSUME NEW j \in 1..k - 1, s[j] = c
          PROVE  FALSE
      <3>1. j \in P /\ ~(k <= j)
        BY <1>1, <2>3, <2>4 DEF Positions
      <3> QED
        BY <2>2, <3>1
    <2> QED
      BY <1>1, <2>3, <2>4
  <1> QED
    BY <1>2, <1>3

\* The beginnings of two strings, as sequences and character by character.
LEMMA SameBeginning ==
  ASSUME NEW a \in Seq(Character), NEW b \in Seq(Character),
         NEW n \in Nat, n <= Len(a), n <= Len(b)
  PROVE  SubSeq(a, 1, n) = SubSeq(b, 1, n) <=> Agree(a, b, n)
  <1> DEFINE s == SubSeq(a, 1, n)
             t == SubSeq(b, 1, n)
  <1>1. n \in 0..Len(a) /\ n \in 0..Len(b)
    OBVIOUS
  <1>2. /\ s \in Seq(Character) /\ Len(s) = n
        /\ \A j \in 1..n : s[j] = a[j]
    BY <1>1, FirstPart
  <1>3. /\ t \in Seq(Character) /\ Len(t) = n
        /\ \A j \in 1..n : t[j] = b[j]
    BY <1>1, FirstPart
  <1> HIDE DEF s, t
  <1>4. s = t => Agree(a, b, n)
    BY <1>2, <1>3 DEF Agree
  <1>5. Agree(a, b, n) => s = t
    BY <1>2, <1>3, SeqEqual DEF Agree
  <1> QED
    BY <1>4, <1>5 DEF s, t

\* An entry answers for a name without an equals sign if it is the name's own,
\* or of a name that is a part of it.
LEMMA HitIsNamed ==
  ASSUME NEW name \in Seq(Character), name # <<>>, Positions(name, Equals) = {},
         NEW e \in Seq(Character), NEW p \in Nat, p = strpos(e, Equals),
         ~(/\ p \in 1..Len(name) - 1
           /\ SubSeq(e, 1, p) = SubSeq(name, 1, p))
  PROVE  strncmp(name, e, p) = 0 <=>
           /\ p = Len(name)
           /\ SubSeq(e, 1, Len(name)) = SubSeq(name, 1, Len(name))
  <1>1. Len(name) \in Nat \ {0} /\ Len(e) \in Nat
    BY EmptySeq
  <1>2. /\ p \in 0..Len(e)
        /\ p < Len(e) => e[p + 1] = Equals
    BY StrposFirst
  <1>3. \A j \in 1..Len(name) : name[j] # Equals
    BY DEF Positions
  <1>4. PICK n \in Nat \ {0} : n = IF p > 1 THEN p ELSE 1
    OBVIOUS
  <1>5. strncmp(name, e, p) = 0 <=>
          n <= Len(e) /\ n <= Len(name) /\ Agree(name, e, n)
    BY <1>2, <1>4, StrncmpZero
  <1>6. ASSUME n <= Len(e), n <= Len(name), Agree(name, e, n)
        PROVE  /\ p = Len(name)
               /\ SubSeq(e, 1, Len(name)) = SubSeq(name, 1, Len(name))
    <2>1. p # 0
      <3> SUFFICES ASSUME p = 0
                   PROVE  FALSE
        OBVIOUS
      <3>1. n = 1 /\ e[1] = Equals /\ name[1] = e[1]
        BY <1>1, <1>2, <1>4, <1>6 DEF Agree
      <3> QED
        BY <1>1, <1>3, <3>1
    <2>2. n = p
      BY <1>4, <2>1
    <2>3. SubSeq(name, 1, p) = SubSeq(e, 1, p)
      BY <1>1, <1>6, <2>2, SameBeginning
    <2>4. p \notin 1..Len(name) - 1
      BY <2>3
    <2>5. p = Len(name)
      BY <1>1, <1>6, <2>2, <2>4
    <2> QED
      BY <2>3, <2>5
  <1>7. ASSUME p = Len(name),
               SubSeq(e, 1, Len(name)) = SubSeq(name, 1, Len(name))
        PROVE  n <= Len(e) /\ n <= Len(name) /\ Agree(name, e, n)
    <2>1. n = p /\ n <= Len(e) /\ n <= Len(name)
      BY <1>1, <1>2, <1>4, <1>7
    <2>2. Agree(name, e, n)
      BY <1>1, <1>7, <2>1, SameBeginning
    <2> QED
      BY <2>1, <2>2
  <1> QED
    BY <1>5, <1>6, <1>7

\* What getenv returns for an entry of this name is what follows its '='.
LEMMA ValueOf ==
  ASSUME NEW name \in Seq(Character), NEW e \in Seq(Character),
         strpos(e, Equals) = Len(name),
         SubSeq(e, 1, Len(name)) = SubSeq(name, 1, Len(name)),
         NEW v \in Seq(Character), v # <<>>
  PROVE  LET value == substr(e, Len(name) + 1, Len(e) - Len(name))
         IN  /\ value \in Seq(Character)
             /\ value = v <=> e = name \o <<Equals>> \o v
  <1> DEFINE value == substr(e, Len(name) + 1, Len(e) - Len(name))
             w == name \o <<Equals>> \o v
  <1>1. PICK n \in Nat, m \in Nat : n = Len(name) /\ m = Len(e)
    OBVIOUS
  <1>2. /\ n <= m
        /\ \A j \in 1..n : e[j] = name[j]
        /\ n < m => e[n + 1] = Equals
    <2>1. /\ strpos(e, Equals) \in 0..Len(e)
          /\ strpos(e, Equals) < Len(e) => e[strpos(e, Equals) + 1] = Equals
      BY StrposFirst
    <2>2. n <= m /\ (n < m => e[n + 1] = Equals)
      BY <1>1, <2>1
    <2>3. Agree(e, name, n)
      <3>1. n <= Len(e) /\ n <= Len(name)
        BY <1>1, <2>2
      <3>2. SubSeq(e, 1, n) = SubSeq(name, 1, n) <=> Agree(e, name, n)
        BY <3>1, SameBeginning
      <3> QED
        BY <1>1, <3>2
    <2> QED
      BY <2>2, <2>3 DEF Agree
  <1>3. /\ w \in Seq(Character) /\ Len(w) = n + 1 + Len(v)
        /\ \A j \in 1..n : w[j] = name[j]
        /\ w[n + 1] = Equals
        /\ \A j \in 1..Len(v) : w[n + 1 + j] = v[j]
    <2>1. \A p, q \in Seq(Character) :
            /\ p \o q \in Seq(Character) /\ Len(p \o q) = Len(p) + Len(q)
            /\ \A k \in 1..Len(p) : (p \o q)[k] = p[k]
            /\ \A k \in 1..Len(q) : (p \o q)[Len(p) + k] = q[k]
      BY TwoParts
    <2>2. <<Equals>> \in Seq(Character) /\ Len(<<Equals>>) = 1
      BY DEF Equals, Character
    <2> DEFINE u == name \o <<Equals>>
    <2>3. /\ u \in Seq(Character) /\ Len(u) = n + 1
          /\ \A j \in 1..n : u[j] = name[j]
          /\ u[n + 1] = Equals
      <3>1. /\ u \in Seq(Character) /\ Len(u) = Len(name) + Len(<<Equals>>)
            /\ \A j \in 1..Len(name) : u[j] = name[j]
            /\ \A j \in 1..Len(<<Equals>>) : u[Len(name) + j] = <<Equals>>[j]
        BY <2>1, <2>2
      <3> HIDE DEF u
      <3> QED
        BY <1>1, <2>2, <3>1
    <2>4. /\ w \in Seq(Character) /\ Len(w) = Len(u) + Len(v)
          /\ \A j \in 1..Len(u) : w[j] = u[j]
          /\ \A j \in 1..Len(v) : w[Len(u) + j] = v[j]
      <3>1. w = u \o v
        OBVIOUS
      <3> HIDE DEF u, w
      <3>2. /\ u \o v \in Seq(Character) /\ Len(u \o v) = Len(u) + Len(v)
            /\ \A j \in 1..Len(u) : (u \o v)[j] = u[j]
            /\ \A j \in 1..Len(v) : (u \o v)[Len(u) + j] = v[j]
        BY <2>1, <2>3
      <3> QED
        BY <3>1, <3>2
    <2> HIDE DEF u, w
    <2> QED
      BY <1>1, <2>3, <2>4
  <1>4. Len(v) \in Nat \ {0}
    BY EmptySeq
  <1>5. Len(w) = n + 1 + Len(v)
    BY <1>3
  <1> HIDE DEF w
  <1>6. CASE n = m
    <2>1. value = <<>>
      BY <1>1, <1>6 DEF substr
    <2>2. Len(e) # Len(w)
      BY <1>1, <1>4, <1>6, <1>5
    <2>3. <<>> \in Seq(Character)
      OBVIOUS
    <2> HIDE DEF value
    <2> QED
      BY <2>1, <2>2, <2>3 DEF value, w
  <1>7. CASE n < m
    <2>1. value = SubSeq(e, n + 2, m)
      <3>1. /\ ~(n + 1 > m) /\ ~(n + 1 + (m - n) < m)
            /\ n + 1 + 1 = n + 2
        BY <1>7
      <3> QED
        BY <1>1, <3>1 DEF substr
    <2> HIDE DEF value
    <2>2. /\ value \in Seq(Character) /\ Len(value) = m - n - 1
          /\ \A i \in 1..m - n - 1 : value[i] = e[n + 1 + i]
      <3>1. n + 2 \in Int /\ m \in Int /\ \A i \in n + 2..m : e[i] \in Character
        BY <1>1
      <3>2. /\ SubSeq(e, n + 2, m) \in Seq(Character)
            /\ Len(SubSeq(e, n + 2, m)) = IF n + 2 <= m THEN m - (n + 2) + 1 ELSE 0
            /\ \A i \in 1..m - (n + 2) + 1 :
                 SubSeq(e, n + 2, m)[i] = e[n + 2 + i - 1]
        BY <3>1, SubSeqProperties
      <3>3. Len(value) = m - n - 1
        BY <1>7, <2>1, <3>2
      <3>4. ASSUME NEW i \in 1..m - n - 1
            PROVE  value[i] = e[n + 1 + i]
        <4>1. i \in 1..m - (n + 2) + 1 /\ n + 2 + i - 1 = n + 1 + i
          OBVIOUS
        <4> QED
          BY <2>1, <3>2, <4>1
      <3> QED
        BY <2>1, <3>2, <3>3, <3>4
    <2>3. ASSUME value = v
          PROVE  e = w
      <3>1. Len(e) = Len(w)
        <4>1. PICK l \in Nat : l = Len(v)
          BY <1>4
        <4>2. l = m - n - 1
          BY <2>2, <2>3, <4>1
        <4>3. n + 1 + l = m
          BY <4>2
        <4> QED
          BY <1>1, <1>5, <4>1, <4>3
      <3>2. ASSUME NEW i \in 1..Len(e)
            PROVE  e[i] = w[i]
        <4>1. CASE i \in 1..n
          BY <1>2, <1>3, <4>1
        <4>2. CASE i = n + 1
          BY <1>2, <1>3, <1>7, <4>2
        <4>3. CASE i > n + 1
          <5>1. PICK j \in 1..m - n - 1 : i = n + 1 + j
            <6>1. i - (n + 1) \in 1..m - n - 1 /\ i = n + 1 + (i - (n + 1))
              BY <1>1, <4>3
            <6> QED
              BY <6>1
          <5>2. j \in 1..Len(v)
            BY <2>2, <2>3
          <5> QED
            BY <1>3, <2>2, <2>3, <5>1, <5>2
        <4> QED
          BY <1>1, <4>1, <4>2, <4>3
      <3> QED
        BY <1>3, <3>1, <3>2, SeqEqual
    <2>4. ASSUME e = w
          PROVE  value = v
      <3>1. Len(value) = Len(v)
        BY <1>1, <1>3, <2>2, <2>4
      <3>2. ASSUME NEW i \in 1..Len(value)
            PROVE  value[i] = v[i]
        BY <1>3, <2>2, <2>4, <3>1
      <3> QED
        BY <2>2, <3>1, <3>2, SeqEqual
    <2> QED
      BY <2>2, <2>3, <2>4 DEF value, w
  <1> HIDE DEF value
  <1>8. n = m \/ n < m
    BY <1>2
  <1> QED
    BY <1>6, <1>7, <1>8 DEF value, w

\* The environment is found where the kernel put it.
LEMMA EnvFound ==
  ASSUME Startable(input)
  PROVE  StringsFrom(get_env(1)) = input.env
  <1>1. PICK a \in Nat \ {0}, e \in Nat, x \in Nat : WordsOf(a, e, x)
    BY WordsAre
  <1>2. get_env(1) = a + 2 /\ NullFrom(a + 2) = a + e + 2
    BY <1>1, TablesLie
  <1> DEFINE s == [i \in 1..(a + e + 2) - (a + 2) |->
                     Words[(a + 2) + i - 1].text]
  <1>3. StringsFrom(get_env(1)) = s
    BY <1>2 DEF StringsFrom
  <1>4. (a + e + 2) - (a + 2) = e
    OBVIOUS
  <1>5. input.env \in Seq(String) /\ Len(input.env) = e
    BY <1>1 DEF Startable, WordsOf
  <1>6. ASSUME NEW i \in 1..e
        PROVE  Words[(a + 2) + i - 1].text = input.env[i]
    <2>1. PICK k \in a + 2..a + e + 1 : k = (a + 2) + i - 1
      OBVIOUS
    <2>2. Words[k].text = input.env[k - (a + 1)]
      BY <1>1 DEF WordsOf, EnvWords
    <2>3. k - (a + 1) = i
      BY <2>1
    <2> QED
      BY <2>1, <2>2, <2>3
  <1>7. s = [i \in 1..e |-> input.env[i]]
    BY <1>4, <1>6
  <1>8. input.env = [i \in 1..e |-> input.env[i]]
    BY <1>5
  <1> QED
    BY <1>3, <1>7, <1>8

\* What ld_main finds is what the environment asks for.
LEMMA TracedIsAsked ==
  ASSUME Startable(input), env = input.env, ~PrefixSet
  PROVE  Traced <=> Asked
  <1> DEFINE named == {i \in DOMAIN input.env :
                         /\ strpos(input.env[i], Equals) = Len(TraceName)
                         /\ SubSeq(input.env[i], 1, Len(TraceName)) =
                              SubSeq(TraceName, 1, Len(TraceName))}
             hits == {i \in 1..Len(env) :
                        strncmp(TraceName, env[i], strpos(env[i], Equals)) = 0}
             first == FirstOf(named)
  <1>1. /\ TraceName \in Seq(Character) /\ TraceName # <<>>
        /\ TraceOn \in Seq(Character) /\ TraceOn # <<>>
        /\ Positions(TraceName, Equals) = {}
    BY ProcessAssumption DEF String
  <1>2. /\ DOMAIN input.env = 1..Len(env) /\ Len(env) \in Nat
        /\ \A i \in 1..Len(env) : env[i] \in Seq(Character)
    BY SMTT(30) DEF Startable, String
  <1>3. ASSUME NEW i \in 1..Len(env)
        PROVE  strncmp(TraceName, env[i], strpos(env[i], Equals)) = 0 <=>
                 /\ strpos(env[i], Equals) = Len(TraceName)
                 /\ SubSeq(env[i], 1, Len(TraceName)) =
                      SubSeq(TraceName, 1, Len(TraceName))
    <2>1. env[i] \in Seq(Character) /\ i \in DOMAIN input.env
      BY <1>2
    <2>2. strpos(env[i], Equals) \in Nat
      BY <2>1, StrposFirst
    <2>3. ~(/\ strpos(env[i], Equals) \in 1..Len(TraceName) - 1
            /\ SubSeq(env[i], 1, strpos(env[i], Equals)) =
                 SubSeq(TraceName, 1, strpos(env[i], Equals)))
      BY <2>1 DEF PrefixSet
    <2> QED
      BY <1>1, <2>1, <2>2, <2>3, HitIsNamed
  <1>4. hits = named
    BY <1>2, <1>3
  <1>5. Asked <=> named # {} /\ env[first] = TraceName \o <<Equals>> \o TraceOn
    BY DEF Asked
  <1>6. CASE named = {}
    <2>1. getenv(env, TraceName) = NullString
      BY <1>4, <1>6 DEF getenv
    <2> QED
      BY <1>5, <1>6, <2>1 DEF Traced
  <1>7. CASE named # {}
    <2>1. named \in SUBSET Nat
      BY <1>2
    <2>2. first \in named
      <3> HIDE DEF named
      <3> QED
        BY <1>7, <2>1, FirstOfSet
    <2>3. PICK e \in Seq(Character) :
            /\ e = env[first]
            /\ strpos(e, Equals) = Len(TraceName)
            /\ SubSeq(e, 1, Len(TraceName)) = SubSeq(TraceName, 1, Len(TraceName))
      BY <1>2, <2>2
    <2> DEFINE value == substr(e, Len(TraceName) + 1, Len(e) - Len(TraceName))
    <2>4. getenv(env, TraceName) = value
      <3>1. hits # {} /\ env[FirstOf(hits)] = e
        BY <1>4, <1>7, <2>3
      <3> HIDE DEF named
      <3> QED
        BY <2>3, <3>1 DEF getenv
    <2>5. /\ value \in Seq(Character)
          /\ value = TraceOn <=> e = TraceName \o <<Equals>> \o TraceOn
      <3>1. /\ strpos(e, Equals) = Len(TraceName)
            /\ SubSeq(e, 1, Len(TraceName)) = SubSeq(TraceName, 1, Len(TraceName))
        BY <2>3
      <3> HIDE DEF named, hits
      <3> QED
        BY ONLY <1>1, <3>1, e \in Seq(Character), ValueOf
    <2> HIDE DEF value, named, hits
    <2>6. value # NullString
      <3> SUFFICES ASSUME value = NullString
                   PROVE  FALSE
        OBVIOUS
      <3>1. value[1] \in Character /\ value[1] = 0
        BY <2>5 DEF NullString
      <3> QED
        BY <3>1 DEF Character
    <2>7. Traced <=> strcmp(value, TraceOn) = 0
      BY <2>4, <2>6 DEF Traced
    <2>8. strcmp(value, TraceOn) = 0 <=> value = TraceOn
      BY <1>1, <2>5, StrcmpZero
    <2> QED
      BY <1>5, <1>7, <2>3, <2>5, <2>7, <2>8 DEF first
  <1> QED
    BY <1>6, <1>7

\* A process that ended before it was linked was one to list.
ListedInv == pc = "exited" /\ link = "linking" => role = "debug" \/ Traced

LEMMA ListedStep == StageInv /\ ListedInv /\ [Next]_vars => ListedInv'
  <1> SUFFICES ASSUME StageInv, ListedInv, [Next]_vars,
                      pc' = "exited", link' = "linking"
               PROVE  role' = "debug" \/ Traced'
    BY DEF ListedInv
  <1>1. CASE Call \/ ProgramExits \/ Stopped \/ UNCHANGED vars
    <2>1. UNCHANGED <<input, env, entry, role, link>>
      BY <1>1, CallKeeps DEF loaderVars, linkerVars
    <2>2. pc = "exited"
      BY <1>1, <2>1, CallKeeps DEF StageInv
    <2> QED
      BY <2>1, <2>2, FoundStays DEF ListedInv
  <1>2. CASE StartDebug
    BY <1>2 DEF StartDebug, loaderVars
  <1>3. CASE Listed
    <2>1. UNCHANGED <<input, env, entry, role>> /\ (role = "debug" \/ Traced)
      BY <1>3 DEF Listed, found, loaderVars
    <2> QED
      BY <2>1, FoundStays
  <1>4. CASE StartMain \/ LoadStep \/ LoadDies \/ StartLinking \/ LinkStep
               \/ PrintDies \/ LinkDies
    BY <1>4 DEF StartMain, Jump, LoadStep, LoadDies, StartLinking, LinkStep,
                PrintDies, LinkDies, StageInv
  <1>5. CASE Refused \/ Accepted
    BY <1>5 DEF Refused, Accepted, linkerVars
  <1> QED
    BY <1>1, <1>2, <1>3, <1>4, <1>5 DEF Next, Start, Call

\* A process is listed, and its program not run, exactly if its environment
\* asks for it or it has one argument, whatever the rest of its environment,
\* unless a variable's name is a prefix of the one that asks.
THEOREM ListedAsAsked == Spec => []ListedWhenAsked
  <1>1. StageInv /\ ListedInv => ListedWhenAsked
    <2> SUFFICES ASSUME StageInv, ListedInv, ~PrefixSet
                 PROVE  /\ pc \in {"link", "program"} =>
                             ~(Asked \/ Len(input.args) = 2)
                        /\ pc = "exited" /\ link = "linking" =>
                             Asked \/ Len(input.args) = 2
      BY DEF ListedWhenAsked
    <2>1. Startable(input)
      BY ProcessAssumption DEF StageInv
    <2>2. CASE role = "main" /\ pc # "start"
      <3>1. env = input.env
        BY <2>1, <2>2, EnvFound DEF StageInv, FoundInv
      <3>2. Traced <=> Asked
        BY <2>1, <3>1, TracedIsAsked
      <3> QED
        BY <2>2, <3>2 DEF StageInv, ListedInv
    <2>3. CASE ~(role = "main" /\ pc # "start")
      BY <2>3 DEF StageInv
    <2> QED
      BY <2>2, <2>3
  <1>2. Init => ListedInv
    BY DEF Init, ListedInv
  <1> QED
    BY <1>1, <1>2, StageInit, StageStep, ListedStep, PTL DEF Spec

-----------------------------------------------------------------------------
(***************************************************************************)
(* Linking, in a process: on what loading published, from its errors.      *)
(***************************************************************************)
\* No name is loaded twice, so there are no more managers than libraries.
LEMMA FewLoaded ==
  ASSUME LP!TypeOK, LP!OrderInv
  PROVE  Len(loaded) \in 0..Cardinality(Lib)
  <1> DEFINE n == Len(loaded)
  <1>1. /\ n \in Nat /\ \A k \in 1..n : loaded[k] \in Lib
        /\ \A j, k \in 1..n : loaded[j] = loaded[k] => j = k
    BY DEF LP!TypeOK, LP!OrderInv, LP!NoDuplicateLoads
  <1>2. IsFiniteSet(Lib) /\ Cardinality(Lib) \in Nat
    BY ProcessAssumption, FS_CardinalityType
  <1>3. IsFiniteSet(1..n) /\ Cardinality(1..n) = n
    <2>1. \A m \in Nat : IsFiniteSet(1..m) /\ Cardinality(1..m) = m
      BY FS_Interval
    <2> QED
      BY <1>1, <2>1
  <1> DEFINE f == [k \in 1..n |-> loaded[k]]
  <1>4. f \in [1..n -> Lib]
    BY <1>1
  <1>5. \A j, k \in 1..n : f[j] = f[k] => j = k
    BY <1>1
  <1>6. ~(Cardinality(1..n) > Cardinality(Lib))
    <2> HIDE DEF f, n
    <2>1. Cardinality(1..n) > Cardinality(Lib) =>
            \E x, y_ \in 1..n : x # y_ /\ f[x] = f[y_]
      BY <1>2, <1>3, <1>4, FS_PigeonHole
    <2> QED
      BY <1>5, <2>1
  <1> QED
    BY <1>1, <1>2, <1>3, <1>6

\* The invariants of module Linker, in a process that is linking.
LinkInv == KP!IInv /\ KP!OverInv /\ KP!VerdictInv

LEMMA LinkInvStep ==
  LinkInv /\ (Linking!Next \/ UNCHANGED linkerVars) => LinkInv'
  <1> SUFFICES ASSUME LinkInv, Linking!Next \/ UNCHANGED linkerVars
               PROVE  LinkInv'
    OBVIOUS
  <1>1. [KP!Next]_(KP!vars)
    BY LinkingIsLinker DEF linkerVars, KP!vars
  <1>2. KP!IInv'
    BY <1>1, LinkerAssumed, KP!IInvStep DEF LinkInv
  <1>3. KP!OverInv'
    BY <1>1, LinkerAssumed, KP!OverStep DEF LinkInv, KP!IInv
  <1>4. KP!VerdictInv'
    BY <1>1, LinkerAssumed, KP!VerdictStep DEF LinkInv
  <1> QED
    BY <1>2, <1>3, <1>4 DEF LinkInv

LinkedInv ==
  /\ entered \in [KP!Object -> Nat]
  /\ pc = "link" \/ link # "linking" =>
       LinkInv /\ prog = Linkable /\ load = "done"

\* What a finished loading has published.
LEMMA Published ==
  ASSUME StageInv, LoadedInv, load = "done", pc \in {"load", "link", "program"}
  PROVE  /\ dependencies = loaded /\ loaded \in Seq(Lib)
         /\ Len(loaded) \in 0..Cardinality(Lib)
         /\ error \subseteq 0..Len(loaded)
         /\ LoadInv
  <1>1. LoadInv
    BY DEF LoadedInv
  <1>2. loading = <<>>
    BY <1>1 DEF LoadInv, LP!CoverInv
  <1>3. role # "dlopen"
    BY DEF StageInv
  <1>4. dependencies = loaded
    BY <1>1, <1>2, <1>3 DEF LoadInv, LP!DepInv
  <1>5. LP!TypeOK /\ LP!OrderInv
    BY <1>1 DEF LoadInv
  <1>6. loaded \in Seq(Lib) /\ error \subseteq 0..Len(loaded)
    BY <1>5 DEF LP!TypeOK, LP!Manager
  <1>7. Len(loaded) \in 0..Cardinality(Lib)
    BY <1>5, FewLoaded
  <1> QED
    BY <1>1, <1>4, <1>6, <1>7

LEMMA LinkableIsProgram ==
  ASSUME StageInv, LoadedInv, load = "done", pc = "load"
  PROVE  Linkable \in KP!Program
  <1> DEFINE N == Cardinality(Lib)
  <1>1. /\ dependencies \in Seq(Lib) /\ Len(dependencies) \in 0..N /\ N \in Nat
    BY Published, ProcessAssumption, FS_CardinalityType
  <1>2. Startable(input)
    BY ProcessAssumption DEF StageInv
  <1>3. /\ input.defs \in [Lib \cup {Root} -> SUBSET Sym]
        /\ input.table \in [Lib \cup {Root} ->
                              [1..2 -> Seq(Sym \cup {NONE, RELATIVE})]]
    BY <1>2 DEF Startable
  <1>4. \A k \in 1..Len(dependencies) : dependencies[k] \in Lib
    BY <1>1
  <1>5. <<<<>>, <<>>>> \in [1..2 -> Seq(Sym \cup {NONE, RELATIVE})]
    <2>1. \A T : \A t \in T : <<t, t>> \in [1..2 -> T]
      OBVIOUS
    <2>2. <<>> \in Seq(Sym \cup {NONE, RELATIVE})
      OBVIOUS
    <2> QED
      BY <2>1, <2>2
  <1>6. Linkable.defs \in [1..N -> SUBSET Sym]
    <2>1. ASSUME NEW k \in 1..N
          PROVE  (IF k <= Len(dependencies) /\ HasTables(dependencies[k])
                    THEN input.defs[dependencies[k]] ELSE {}) \in SUBSET Sym
      BY <1>1, <1>3, <1>4
    <2> QED
      BY <2>1 DEF Linkable
  <1>7. Linkable.table \in [0..N -> [1..2 -> Seq(Sym \cup {NONE, RELATIVE})]]
    <2>1. ASSUME NEW k \in 0..N
          PROVE  (IF k = 0 /\ HasTables(Root) THEN input.table[Root]
                  ELSE IF k \in 1..Len(dependencies) /\ HasTables(dependencies[k])
                    THEN input.table[dependencies[k]] ELSE <<<<>>, <<>>>>)
                   \in [1..2 -> Seq(Sym \cup {NONE, RELATIVE})]
      BY <1>3, <1>4, <1>5
    <2> QED
      BY <2>1 DEF Linkable
  <1>8. Linkable.unmapped \in SUBSET (0..N) /\ Linkable.scope \in 0..N
    BY <1>1 DEF Linkable
  <1>9. Linkable = [defs |-> Linkable.defs, table |-> Linkable.table,
                    unmapped |-> Linkable.unmapped, scope |-> Linkable.scope]
    BY DEF Linkable
  <1> QED
    BY <1>6, <1>7, <1>8, <1>9 DEF KP!Program, KP!Object, KP!Table, KP!Reloc

\* Linking begins.
LEMMA LinkBegins ==
  ASSUME StageInv, LoadedInv, LinkedInv, StartLinking
  PROVE  LinkInv'
  <1>1. pc = "load" /\ load = "done"
    BY DEF StartLinking
  <1>2. /\ prog' = Linkable /\ unresolved' = error
        /\ got' = [s \in Linking!SlotsOf(Linkable) |-> 0]
        /\ linking' = <<Linking!Activation(0)>>
        /\ entered' = [entered EXCEPT ![0] = 1]
        /\ link' = "linking"
    BY DEF StartLinking
  <1>3. prog' \in KP!Program
    BY <1>1, <1>2, LinkableIsProgram
  <1>4. got' = [s \in KP!SlotsOf(prog') |-> 0]
    BY <1>2 DEF Linking!SlotsOf, KP!SlotsOf, Linking!Object, KP!Object,
                Linking!Table, KP!Table
  <1>5. unresolved' \subseteq KP!Object
    <2>1. error \subseteq 0..Len(loaded) /\ Len(loaded) \in 0..Cardinality(Lib)
      BY <1>1, Published
    <2>2. PICK m \in Nat, n \in Nat :
            m = Len(loaded) /\ n = Cardinality(Lib) /\ m <= n
      BY <2>1, ProcessAssumption, FS_CardinalityType
    <2>3. 0..m \subseteq 0..n
      BY <2>2
    <2> QED
      BY <1>2, <2>1, <2>2, <2>3 DEF KP!Object
  <1>6. linking' = <<KP!Activation(0)>>
    BY <1>2 DEF Linking!Activation, KP!Activation
  <1>7. entered' \in [KP!Object -> Nat]
    BY <1>2 DEF LinkedInv
  <1>8. KP!Begins'
    BY <1>2, <1>3, <1>4, <1>5, <1>6, <1>7 DEF KP!Begins, KP!Slot
  <1>9. KP!IInv'
    BY <1>8, LinkerAssumed, KP!BeginsInv, PTL
  <1>10. KP!OverInv' /\ KP!VerdictInv'
    BY <1>2 DEF KP!OverInv, KP!VerdictInv
  <1> QED
    BY <1>9, <1>10 DEF LinkInv

LEMMA LinkedInit == Init => LinkedInv
  BY DEF Init, LinkedInv, Linking!Object, KP!Object

LEMMA LinkedStep == StageInv /\ LoadedInv /\ LinkedInv /\ [Next]_vars => LinkedInv'
  <1> SUFFICES ASSUME StageInv, LoadedInv, LinkedInv, [Next]_vars
               PROVE  LinkedInv'
    OBVIOUS
  <1>1. CASE StartLinking
    <2>1. LinkInv'
      BY <1>1, LinkBegins
    <2>2. entered' \in [KP!Object -> Nat]
      BY <1>1 DEF StartLinking, LinkedInv
    <2>3. prog' = Linkable' /\ load' = "done"
      BY <1>1 DEF StartLinking, found, loaderVars, Linkable, HasTables
    <2> QED
      BY <2>1, <2>2, <2>3 DEF LinkedInv
  <1>2. CASE LinkStep
    <2>1. pc = "link" /\ Linking!Next /\ UNCHANGED <<input, loaderVars>>
      BY <1>2 DEF LinkStep, found
    <2>2. LinkInv' /\ LinkInv
      BY <2>1, LinkInvStep DEF LinkedInv
    <2>3. prog' = prog /\ prog = Linkable /\ load = "done"
      BY <2>1 DEF LinkedInv, Linking!Next, Linking!EndOfTable, Linking!StopAtNone,
         Linking!NotFound, Linking!BindOwn, Linking!LinkProvider,
         Linking!BindLinked, Linking!Stopped, Linking!Write, Linking!vars
    <2>4. prog' = Linkable' /\ load' = "done"
      BY <2>1, <2>3 DEF loaderVars, Linkable, HasTables
    <2>5. entered' \in [KP!Object -> Nat]
      BY <2>2 DEF LinkInv, KP!IInv, KP!TypeOK
    <2> QED
      BY <2>2, <2>4, <2>5 DEF LinkedInv
  <1>3. CASE LoadStep
    <2>1. pc = "load" /\ pc' = pc /\ UNCHANGED <<entered, link>>
      BY <1>3 DEF LoadStep, linkerVars
    <2> QED
      BY <2>1 DEF LinkedInv, StageInv
  <1>4. CASE ~StartLinking /\ ~LinkStep /\ ~LoadStep
    <2>1. UNCHANGED <<input, loaderVars, linkerVars>>
      <3>1. CASE Call \/ ProgramExits \/ Stopped \/ UNCHANGED vars
        BY <3>1, CallKeeps
      <3> QED
        BY <1>4, <3>1 DEF Next, Start, Call, StartDebug, StartMain, LoadDies,
           Listed, PrintDies, LinkDies, Refused, Accepted, found
    <2>2. pc' = "link" => pc = "link"
      <3>1. CASE Call \/ ProgramExits \/ Stopped \/ UNCHANGED vars
        BY <3>1, CallKeeps
      <3> QED
        BY <1>4, <3>1 DEF Next, Start, Call, StartDebug, StartMain, LoadDies,
           Listed, PrintDies, LinkDies, Refused, Accepted, Jump
    <2>3. LinkInv => LinkInv'
      BY <2>1, LinkInvStep
    <2>4. Linkable' = Linkable
      BY <2>1 DEF loaderVars, Linkable, HasTables
    <2> QED
      BY <2>1, <2>2, <2>3, <2>4 DEF LinkedInv, linkerVars, loaderVars
  <1> QED
    BY <1>1, <1>2, <1>3, <1>4

-----------------------------------------------------------------------------
(***************************************************************************)
(* The search order, in a process.                                         *)
(***************************************************************************)
\* The program has slots only if it has tables; then its own needs, up to a
\* name it repeats, are the first libraries of the list.
LEMMA OwnNeedsLead ==
  ASSUME StageInv, LoadedInv, LinkedInv, pc = "program",
         NEW s \in Linking!Slot, s[1] = 0
  PROVE  /\ needed[Root] \in Seq(Lib)
         /\ \A k \in 1..Len(needed[Root]) :
              LP!AllDiffer(needed[Root], k) =>
                k <= Len(loaded) /\ loaded[k] = needed[Root][k]
  <1>1. /\ file[Root] \in {"good", "nodynamic"} /\ load = "done"
        /\ link = "accepted" /\ LoadInv /\ prog = Linkable
    BY DEF StageInv, LoadedInv, LinkedInv
  <1>2. needed[Root] \in Seq(Lib)
    BY ProcessAssumption, StartableTypes DEF StageInv
  <1>3. HasTables(Root)
    <2> SUFFICES ASSUME ~HasTables(Root)
                 PROVE  FALSE
      OBVIOUS
    <2>1. PICK o \in Linking!Object, t \in Linking!Table :
            \E k \in 1..Len(prog.table[o][t]) : s = <<o, t, k>>
      BY DEF Linking!Slot, Linking!SlotsOf
    <2>2. o = 0
      BY <2>1
    <2>3. prog.table[0] = <<<<>>, <<>>>>
      <3>1. 0 \in 0..Cardinality(Lib)
        BY ProcessAssumption, FS_CardinalityType
      <3> QED
        BY <1>1, <3>1 DEF Linkable
    <2>4. prog.table[o][t] = <<>>
      BY <2>1, <2>2, <2>3 DEF Linking!Table
    <2> QED
      BY <2>1, <2>4
  <1>4. file[Root] = "good"
    BY <1>1, <1>3 DEF HasTables
  <1>5. loading = <<>>
    BY <1>1 DEF LoadInv, LP!CoverInv
  <1>6. LP!StartsWith(loaded, needed[Root])
    BY <1>1, <1>4, <1>5 DEF LoadInv, LP!RootInv
  <1> QED
    BY <1>2, <1>6 DEF LP!StartsWith

\* What the libraries the linker sees define.
LEMMA LinkableDefs ==
  ASSUME StageInv, LoadedInv, LinkedInv, pc = "program"
  PROVE  /\ prog.scope = Len(loaded)
         /\ Len(loaded) \in Nat
         /\ \A k \in 1..Len(loaded) :
              prog.defs[k] = IF HasTables(loaded[k])
                               THEN input.defs[loaded[k]] ELSE {}
  <1>1. prog = Linkable /\ load = "done"
    BY DEF StageInv, LinkedInv
  <1>2. dependencies = loaded /\ Len(loaded) \in 0..Cardinality(Lib)
    BY <1>1, Published
  <1>3. PICK n \in Nat : n = Cardinality(Lib)
    BY ProcessAssumption, FS_CardinalityType
  <1>4. ASSUME NEW k \in 1..Len(loaded)
        PROVE  k \in 1..n /\ k <= Len(loaded)
    BY <1>2, <1>3
  <1> QED
    BY <1>1, <1>2, <1>3, <1>4 DEF Linkable

\* What the program names itself comes before what those libraries need: a
\* symbol that one of them defines is taken from the first that does.
THEOREM NeededFirstWins == Spec => []NeedOrderWins
  <1>1. StageInv /\ LoadedInv /\ LinkedInv => NeedOrderWins
    <2> DEFINE names == needed[Root]
               sym(s) == Linking!RelocOf(prog, s)
               own(s) == {k \in DOMAIN names :
                            /\ \A i, j \in 1..k : names[i] = names[j] => i = j
                            /\ HasTables(names[k])
                            /\ sym(s) \in input.defs[names[k]]}
    <2> SUFFICES ASSUME StageInv, LoadedInv, LinkedInv, pc = "program",
                        NEW s \in Linking!Slot, s[1] = 0,
                        Linking!Reached(prog, s), own(s) # {}
                 PROVE  loaded[got[s]] = names[FirstOf(own(s))]
      BY DEF NeedOrderWins
    <2>1. names \in Seq(Lib) /\ DOMAIN names = 1..Len(names)
      BY OwnNeedsLead
    <2>2. \A k \in 1..Len(names) :
            LP!AllDiffer(names, k) => k <= Len(loaded) /\ loaded[k] = names[k]
      BY OwnNeedsLead
    <2>3. /\ prog.scope = Len(loaded) /\ Len(loaded) \in Nat
          /\ \A k \in 1..Len(loaded) :
               prog.defs[k] = IF HasTables(loaded[k])
                                THEN input.defs[loaded[k]] ELSE {}
      BY LinkableDefs
    <2>4. \A k \in own(s) : /\ k \in 1..Len(names) /\ LP!AllDiffer(names, k)
                            /\ HasTables(names[k])
                            /\ sym(s) \in input.defs[names[k]]
      BY <2>1 DEF LP!AllDiffer
    <2>5. \A k \in 1..Len(names) :
            LP!AllDiffer(names, k) /\ HasTables(names[k])
              /\ sym(s) \in input.defs[names[k]] => k \in own(s)
      BY <2>1 DEF LP!AllDiffer
    <2>6. PICK first \in own(s) :
            first = FirstOf(own(s)) /\ \A k \in own(s) : first <= k
      <3>1. own(s) \in SUBSET Nat
        BY <2>4
      <3> HIDE DEF own
      <3> QED
        BY <3>1, FirstOfSet
    <2>7. got[s] = KP!Provider(prog, sym(s))
      <3>1. link = "accepted" /\ KP!EndInv
        BY DEF StageInv, LinkedInv, LinkInv, KP!IInv
      <3>2. KP!LinkedIn(prog, got, 0)
        BY <3>1 DEF KP!EndInv
      <3>3. s \in KP!SlotsOf(prog) /\ KP!Reached(prog, s)
        BY DEF Linking!Slot, Linking!SlotsOf, KP!SlotsOf, Linking!Object,
               KP!Object, Linking!Table, KP!Table, Linking!Reached, KP!Reached
      <3>4. got[s] = KP!Names(prog, s)
        BY <3>2, <3>3 DEF KP!LinkedIn
      <3> QED
        BY <3>4 DEF KP!Names, KP!RelocOf, Linking!RelocOf
    <2> HIDE DEF own, sym
    <2> DEFINE D == KP!Definers(prog, sym(s))
    <2>8. D = {j \in 1..Len(loaded) : sym(s) \in prog.defs[j]}
      BY <2>3 DEF KP!Definers
    <2> HIDE DEF D
    <2>9. /\ first \in 1..Len(names) /\ LP!AllDiffer(names, first)
          /\ first \in 1..Len(loaded) /\ loaded[first] = names[first]
      <3>1. first \in 1..Len(names) /\ LP!AllDiffer(names, first)
        BY <2>4, <2>6
      <3> QED
        BY <2>2, <2>3, <3>1
    <2>10. first \in D
      BY <2>3, <2>4, <2>6, <2>8, <2>9
    <2>11. ASSUME NEW j \in D
           PROVE  first <= j
      <3> SUFFICES ASSUME j < first
                   PROVE  FALSE
        BY <2>3, <2>8, <2>9
      <3>1. j \in 1..Len(loaded) /\ sym(s) \in prog.defs[j]
        BY <2>8
      <3>2. j \in 1..Len(names) /\ LP!AllDiffer(names, j)
        BY <2>1, <2>9, <3>1 DEF LP!AllDiffer
      <3>3. loaded[j] = names[j]
        BY <2>2, <3>2
      <3>4. HasTables(names[j]) /\ sym(s) \in input.defs[names[j]]
        BY <2>3, <3>1, <3>3
      <3>5. j \in own(s)
        BY <2>5, <3>2, <3>4
      <3> QED
        BY <2>6, <2>9, <3>1, <3>5
    <2>12. KP!Provider(prog, sym(s)) = FirstOf(D)
      BY <2>10 DEF KP!Provider, FirstOf, D
    <2>13. FirstOf(D) = first
      <3>1. D \in SUBSET Nat
        BY <2>8
      <3>2. FirstOf(D) \in D /\ \A k \in D : FirstOf(D) <= k
        BY <2>10, <3>1, FirstOfSet
      <3>3. FirstOf(D) <= first /\ first <= FirstOf(D) /\ FirstOf(D) \in Nat
        BY <2>10, <2>11, <3>1, <3>2
      <3> QED
        BY <2>9, <3>3
    <2> QED
      BY <2>6, <2>7, <2>9, <2>12, <2>13
  <1> DEFINE I == StageInv /\ LoadedInv /\ LinkedInv
  <1>2. Init => I
    BY StageInit, LoadedInit, LinkedInit
  <1>3. I /\ [Next]_vars => I'
    BY StageStep, LoadedStep, LinkedStep
  <1> QED
    BY <1>1, <1>2, <1>3, PTL DEF Spec

-----------------------------------------------------------------------------
(***************************************************************************)
(* Types, in a process; and descriptors: three, that of the file my_ldd    *)
(* reads, one per library loaded, and those my_dlopen was granted.         *)
(***************************************************************************)
TypeInv ==
  /\ fds \in 3..MaxFds
  /\ pc = "start" => fds = 3
  /\ pc = "load" => fds \in 3..4
  /\ reply.handle \in 0..Len(handles)
  /\ calls \in 0..MaxCalls
  /\ loaded \in Seq(Lib)

LEMMA TypeInit == Init => TypeInv
  <1>1. PICK m \in Nat : m = Cardinality(Lib) /\ MaxFds \in Nat /\ MaxFds >= m + 4
    BY ProcessAssumption, FS_CardinalityType
  <1>2. MaxCalls \in Nat
    BY ProcessAssumption
  <1>3. 3 \in 3..MaxFds /\ 0 \in 0..MaxCalls
    BY <1>1, <1>2
  <1> QED
    BY <1>3 DEF Init, TypeInv

\* When loading is done there is a descriptor for each library and no more.
LEMMA FdsFit ==
  ASSUME LoadedInv, TypeInv, pc = "load"
  PROVE  FdsLoaded \in 3..MaxFds
  <1> DEFINE S == {m \in 1..Len(loaded) : Opened(m)}
  <1>1. LP!TypeOK /\ LP!OrderInv
    BY DEF LoadedInv, LoadInv
  <1>2. PICK m \in Nat : m = Cardinality(Lib) /\ MaxFds \in Nat /\ MaxFds >= m + 4
    BY ProcessAssumption, FS_CardinalityType
  <1>3. PICK n \in Nat : n = Len(loaded) /\ n <= m
    BY <1>1, <1>2, FewLoaded
  <1>4. IsFiniteSet(1..n) /\ Cardinality(1..n) = n
    <2>1. \A i \in Nat : IsFiniteSet(1..i) /\ Cardinality(1..i) = i
      BY FS_Interval
    <2> QED
      BY <2>1
  <1>5. S \in SUBSET (1..n)
    BY <1>3
  <1> HIDE DEF S
  <1>6. IsFiniteSet(S) /\ Cardinality(S) <= n
    BY <1>4, <1>5, FS_Subset
  <1>7. PICK c \in Nat : c = Cardinality(S)
    BY <1>6, FS_CardinalityType
  <1>8. fds \in 3..4
    BY DEF TypeInv
  <1>9. fds + c \in 3..MaxFds
    BY <1>2, <1>3, <1>6, <1>7, <1>8
  <1> QED
    BY <1>7, <1>9 DEF FdsLoaded, S

LEMMA TypeStep ==
  StageInv /\ LoadedInv /\ ApiInv /\ TypeInv /\ [Next]_vars => TypeInv'
  <1> SUFFICES ASSUME StageInv, LoadedInv, ApiInv, TypeInv, [Next]_vars
               PROVE  TypeInv'
    OBVIOUS
  <1>1. MaxFds \in Nat /\ MaxFds >= 4 /\ MaxCalls \in Nat
    <2>1. PICK m \in Nat : m = Cardinality(Lib) /\ MaxFds \in Nat /\ MaxFds >= m + 4
      BY ProcessAssumption, FS_CardinalityType
    <2> QED
      BY <2>1, ProcessAssumption
  <1>2. loaded' \in Seq(Lib)
    <2>1. CASE UNCHANGED loaderVars
      BY <2>1 DEF TypeInv, loaderVars
    <2>2. CASE pc = "load" /\ pc' = pc /\ Loading!Next
      <3>1. LoadInv
        BY <2>2 DEF LoadedInv
      <3>2. LoadInv'
        BY <2>2, <3>1, LoadInvStep
      <3> QED
        BY <3>2 DEF LoadInv, LP!TypeOK
    <2> QED
      BY <2>1, <2>2, LoadPart
  <1>3. CASE StartDebug
    BY <1>1, <1>2, <1>3 DEF StartDebug, TypeInv, apiVars
  <1>4. CASE StartMain
    BY <1>1, <1>2, <1>4 DEF StartMain, Jump, TypeInv, apiVars
  <1>5. CASE LoadStep
    BY <1>2, <1>5 DEF LoadStep, TypeInv, apiVars
  <1>6. CASE Listed
    <2>1. fds' \in 3..MaxFds
      <3>1. FdsLoaded \in 3..MaxFds
        BY <1>6, FdsFit DEF Listed
      <3> QED
        BY <1>6, <3>1 DEF Listed, unload
    <2> QED
      BY <1>2, <1>6, <2>1 DEF Listed, TypeInv, apiVars
  <1>7. CASE StartLinking
    <2>1. fds' \in 3..MaxFds
      BY <1>7, FdsFit DEF StartLinking
    <2> QED
      BY <1>2, <1>7, <2>1 DEF StartLinking, TypeInv, apiVars
  <1>8. CASE LoadDies \/ LinkStep \/ PrintDies \/ LinkDies \/ Refused \/ Accepted
    BY <1>2, <1>8 DEF LoadDies, LinkStep, PrintDies, LinkDies, Refused, Accepted,
       Jump, TypeInv, apiVars
  <1>9. CASE ProgramExits \/ Stopped \/ UNCHANGED vars
    BY <1>2, <1>9 DEF ProgramExits, Calling, Stopped, vars, TypeInv, apiVars
  <1>10. CASE Call
    <2>1. pc = "program" /\ pc' \in {"program", "killed"} /\ calls < MaxCalls
          /\ calls' = calls + 1
      BY <1>10 DEF Call, my_dlopen_unread, my_dlopen_dies, my_dlopen, my_dlclose,
                   my_dlsym, my_dlerror, Calling, Answer
    <2>2. calls' \in 0..MaxCalls
      BY <1>1, <2>1 DEF TypeInv
    <2>3. handles \in Seq(Handle)
      BY DEF ApiInv
    <2>4. ASSUME fds' \in 3..MaxFds, reply'.handle \in 0..Len(handles')
          PROVE  TypeInv'
      BY <1>2, <2>1, <2>2, <2>4 DEF TypeInv
    <2>5. ASSUME handles' = handles, fds' = fds,
                 reply'.handle = 0 \/ reply'.handle \in DOMAIN handles
          PROVE  TypeInv'
      BY <2>3, <2>4, <2>5 DEF TypeInv
    <2>6. ASSUME NEW f \in FileNames, my_dlopen_unread(f)
          PROVE  TypeInv'
      <3>1. handles' = handles /\ reply'.handle = 0
        BY <2>6 DEF my_dlopen_unread, Answer
      <3>2. fds' \in 3..MaxFds
        BY <1>1, <2>6 DEF my_dlopen_unread, Found, TypeInv
      <3> QED
        BY <2>3, <2>4, <3>1, <3>2
    <2>7. ASSUME NEW f \in FileNames, my_dlopen_dies(f)
          PROVE  TypeInv'
      BY <2>5, <2>7 DEF my_dlopen_dies, Answer
    <2>8. ASSUME NEW f \in FileNames, my_dlopen(f)
          PROVE  TypeInv'
      <3>1. Path(f) \in DOMAIN Disk /\ NeedsOpen(Path(f))
            /\ fds' = fds + 1 + Len(Needs(Path(f)))
        BY <2>8 DEF my_dlopen, Found, LoadMustDie
      <3>2. PICK n \in Nat : n = Len(Needs(Path(f)))
        BY <3>1, DiskAssumption DEF Needs
      <3>3. fds' \in 3..MaxFds
        BY <1>1, <3>1, <3>2 DEF NeedsOpen, TypeInv
      <3>4. PICK m \in Nat : m = Len(handles)
        BY <2>3
      <3>5. \/ reply'.handle = 0 /\ handles' = handles
            \/ reply'.handle = m + 1 /\ \E h : handles' = Append(handles, h)
        BY <2>8, <3>4 DEF my_dlopen, Answer
      <3>6. \A h : Len(Append(handles, h)) = m + 1
        BY <2>3, <3>4
      <3>7. reply'.handle \in 0..Len(handles')
        BY <3>4, <3>5, <3>6
      <3> QED
        BY <2>4, <3>3, <3>7
    <2>9. ASSUME NEW h \in DOMAIN handles,
                 my_dlclose(h) \/ \E sym \in Sym : my_dlsym(h, sym)
          PROVE  TypeInv'
      BY <2>5, <2>9 DEF my_dlclose, my_dlsym, Answer
    <2>10. CASE my_dlerror
      BY <2>5, <2>10 DEF my_dlerror, Answer
    <2> QED
      BY <1>10, <2>6, <2>7, <2>8, <2>9, <2>10 DEF Call
  <1> QED
    BY <1>3, <1>4, <1>5, <1>6, <1>7, <1>8, <1>9, <1>10 DEF Next, Start, Call

\* Descriptors never run out unnoticed, handles are handles, and the rest of
\* the state has its types.
THEOREM TypeCorrect == Spec => []TypeOK
  <1>1. StageInv /\ LoadedInv /\ LinkedInv /\ ApiInv /\ TypeInv => TypeOK
    <2> SUFFICES ASSUME StageInv, LoadedInv, LinkedInv, ApiInv, TypeInv
                 PROVE  TypeOK
      OBVIOUS
    <2>1. jump \in Nat
      <3>1. CASE jump = 0 \/ jump = 2
        BY <3>1
      <3>2. CASE ~(jump = 0 \/ jump = 2)
        <4>1. FoundInv /\ Startable(input) /\ jump \in {entry, entry % IntMod}
          BY <3>2, ProcessAssumption DEF StageInv
        <4>2. AT_ENTRY \in Nat
          BY DEF AT_ENTRY
        <4>3. entry \in Nat /\ IntMod \in Nat \ {0}
          BY <4>1, <4>2, AuxvRead, ProcessAssumption DEF FoundInv
        <4>4. entry % IntMod \in Nat
          BY <4>3
        <4> QED
          BY <4>1, <4>3, <4>4
      <3> QED
        BY <3>1, <3>2
    <2>2. \A h \in DOMAIN handles : handles[h].lib \in DOMAIN Disk
      BY DEF ApiInv, HandleOK
    <2>3. Loading!Manager \subseteq Nat
      BY DEF TypeInv, Loading!Manager
    <2>4. link \in {"linking", "accepted", "refused", "overflow", "crashed", "wild"}
      BY DEF LinkedInv, LinkInv, KP!IInv, KP!TypeOK
    <2> QED
      BY <2>1, <2>2, <2>3, <2>4 DEF TypeOK, StageInv, TypeInv
  <1> DEFINE I == StageInv /\ LoadedInv /\ LinkedInv /\ ApiInv /\ TypeInv
  <1>2. Init => I
    BY StageInit, LoadedInit, LinkedInit, ApiInit, TypeInit
  <1>3. I /\ [Next]_vars => I'
    BY StageStep, LoadedStep, LinkedStep, ApiStep, TypeStep
  <1> QED
    BY <1>1, <1>2, <1>3, PTL DEF Spec

-----------------------------------------------------------------------------
(***************************************************************************)
(* Deaths: how far the process has come tells what it dies of.             *)
(***************************************************************************)
\* What a process dies of, and where.
DlopenDies(r, open) ==
  LET path == Path(r.name)
  IN  /\ r.call = "dlopen"
      /\ path \in DOMAIN Disk /\ Disk[path].kind = "good"
      /\ \/ {Needs(path)[k] : k \in DOMAIN Needs(path)}
              \cap {"missing", "short", "badmagic"} # {}
         \/ Len(Needs(path)) > Loading!MinSlots
         \/ open + 1 + Len(Needs(path)) > MaxFds

DiesAtStart ==
  /\ load = "running" /\ link = "linking"
  /\ \/ jump = 2 /\ "error_" \in input.garbage
     \/ jump = 0 /\ input.pie
DiesLoading == load \in {"crashed", "wild"} /\ link = "linking"
DiesLinking ==
  /\ load = "done"
  /\ \/ /\ link = "linking" /\ "name_" \in input.garbage
        /\ \E t \in 1..2 : prog.table[0][t] # <<>>
     \/ link \in {"overflow", "crashed", "wild"}
DiesLater ==
  /\ load = "done" /\ link = "accepted"
  /\ \/ jump # entry /\ entry >= IntMod
     \/ jump = entry /\ DlopenDies(reply, fds)

KilledInv ==
  pc = "killed" => DiesAtStart \/ DiesLoading \/ DiesLinking \/ DiesLater

\* The program headers are where the kernel says they are.
LEMMA PhdrRead ==
  ASSUME Startable(input)
  PROVE  read_auxv(get_auxv(1), AT_PHDR) # 0
  <1>1. PICK a \in Nat \ {0}, e \in Nat, x \in Nat : WordsOf(a, e, x)
    BY WordsAre
  <1>2. PICK b \in Nat \ {0} : b = a + e + 2
    OBVIOUS
  <1>3. get_auxv(1) = b + 1 /\ Len(Words) = b + x
    <2>1. get_auxv(1) = a + e + 3
      BY <1>1, TablesLie
    <2>2. Len(Words) = a + e + x + 2
      BY <1>1 DEF WordsOf
    <2> QED
      BY <1>2, <2>1, <2>2
  <1>4. /\ \A k \in 1..x : /\ Words[b + k].number = input.aux[k]
                           /\ input.aux[k] \in Nat
        /\ DOMAIN input.aux = 1..x
    <2>1. DOMAIN input.aux = 1..x
      BY <1>1 DEF Startable, WordsOf
    <2> QED
      BY <1>1, <1>2, <2>1 DEF WordsOf, AuxWords
  <1> DEFINE S == {k \in b + 1..Len(Words) :
                     /\ (k - (b + 1)) % 2 = 0
                     /\ Words[k].number \in {AT_NULL, AT_PHDR}}
  <1>5. read_auxv(get_auxv(1), AT_PHDR) =
          IF Words[FirstOf(S)].number = AT_NULL THEN 0
          ELSE Words[FirstOf(S) + 1].number
    BY <1>3 DEF read_auxv
  <1>6. PICK z \in 1..x :
          /\ z % 2 = 1 /\ input.aux[z] = AT_PHDR /\ input.aux[z + 1] # 0
          /\ \A k \in 1..z - 1 : k % 2 = 1 => input.aux[k] \notin {AT_NULL, AT_PHDR}
    <2>1. PICK z \in DOMAIN input.aux :
            /\ z % 2 = 1 /\ input.aux[z] = AT_PHDR /\ input.aux[z + 1] # 0
            /\ {input.aux[k] : k \in {j \in 1..z - 1 : j % 2 = 1}}
                 \cap {AT_NULL, AT_PHDR} = {}
      BY DEF Startable
    <2> QED
      BY <1>4, <2>1
  <1>7. z + 1 \in 1..x
    <2>1. PICK y \in 1..x : y % 2 = 1 /\ input.aux[y] = AT_NULL
      BY <1>4 DEF Startable
    <2>2. ~(y < z) /\ y # z
      BY <1>6, <2>1 DEF AT_NULL, AT_PHDR
    <2> QED
      BY <2>1, <2>2
  <1>8. S \in SUBSET Nat /\ b + z \in S
    <2>1. (b + z - (b + 1)) % 2 = 0
      BY <1>6
    <2>2. b + z \in b + 1..Len(Words)
      BY <1>3
    <2>3. Words[b + z].number = AT_PHDR
      BY <1>4, <1>6
    <2> QED
      BY <1>3, <2>1, <2>2, <2>3
  <1>9. ASSUME NEW at \in S
        PROVE  b + z <= at
    <2>1. PICK k \in 1..x : at = b + k
      <3>1. at - b \in 1..x /\ at = b + (at - b)
        BY <1>3
      <3> QED
        BY <3>1
    <2>2. k % 2 = 1
      <3>1. ((b + k) - (b + 1)) % 2 = 0
        BY <2>1
      <3> QED
        BY <3>1
    <2>3. input.aux[k] \in {AT_NULL, AT_PHDR}
      BY <1>4, <2>1
    <2>4. ~(k \in 1..z - 1)
      BY <1>6, <2>2, <2>3
    <2>5. z \in Nat /\ k \in Nat \ {0}
      OBVIOUS
    <2>6. z <= k
      BY <2>4, <2>5
    <2> QED
      BY <2>1, <2>5, <2>6
  <1> HIDE DEF S
  <1>10. FirstOf(S) = b + z
    <2>1. PICK at \in S : at = FirstOf(S) /\ \A k \in S : at <= k
      BY <1>8, FirstOfSet
    <2>2. at <= b + z /\ b + z <= at /\ at \in Nat
      BY <1>8, <1>9, <2>1
    <2> QED
      BY <2>1, <2>2
  <1>11. Words[b + z].number = AT_PHDR /\ Words[b + z + 1].number # 0
    <2>1. b + z + 1 = b + (z + 1)
      OBVIOUS
    <2> QED
      BY <1>4, <1>6, <1>7, <2>1
  <1> QED
    BY <1>5, <1>10, <1>11 DEF AT_NULL, AT_PHDR

LEMMA KilledInit == Init => KilledInv
  BY DEF Init, KilledInv

LEMMA KilledStep ==
  StageInv /\ LinkedInv /\ TypeInv /\ KilledInv /\ [Next]_vars => KilledInv'
  <1> SUFFICES ASSUME StageInv, LinkedInv, TypeInv, KilledInv, [Next]_vars,
                      pc' = "killed"
               PROVE  (DiesAtStart \/ DiesLoading \/ DiesLinking \/ DiesLater)'
    BY DEF KilledInv
  <1>1. CASE ProgramExits \/ Stopped \/ UNCHANGED vars
    <2>1. UNCHANGED <<input, entry, jump, fds, load, link, prog, reply, pc>>
      BY <1>1 DEF ProgramExits, Stopped, vars, found, apiVars, loaderVars, linkerVars
    <2> QED
      BY <2>1 DEF KilledInv, DiesAtStart, DiesLoading, DiesLinking, DiesLater
  <1>2. CASE Call
    <2>1. PICK f \in FileNames : my_dlopen_dies(f)
      BY <1>2 DEF Call, my_dlopen_unread, my_dlopen, my_dlclose, my_dlsym,
                  my_dlerror, Calling
    <2>2. /\ reply' = [call |-> "dlopen", handle |-> 0, name |-> f, value |-> 0]
          /\ fds' = fds
          /\ Path(f) \in DOMAIN Disk /\ Disk[Path(f)].kind = "good"
          /\ LoadMayDie(Path(f))
      BY <2>1 DEF my_dlopen_dies, Answer, Found
    <2>3. UNCHANGED <<entry, jump, load, link>> /\ load = "done"
          /\ link = "accepted" /\ jump = entry
      BY <2>1 DEF my_dlopen_dies, Calling, StageInv, found, loaderVars, linkerVars
    <2>4. DlopenDies(reply', fds)
      <3>1. reply'.name = f /\ reply'.call = "dlopen"
        BY <2>2
      <3>2. PICK path \in DOMAIN Disk : path = Path(f)
        BY <2>2
      <3>3. Len(Needs(path)) \in Nat /\ fds \in Int /\ MaxFds \in Nat
        BY DiskAssumption, ProcessAssumption DEF Needs, TypeInv
      <3>4. LoadMayDie(path) => 
              \/ {Needs(path)[k] : k \in DOMAIN Needs(path)}
                   \cap {"missing", "short", "badmagic"} # {}
              \/ Len(Needs(path)) > Loading!MinSlots
              \/ fds + 1 + Len(Needs(path)) > MaxFds
        <4>1. PICK n \in Nat, d \in Int, m \in Nat :
                n = Len(Needs(path)) /\ d = fds /\ m = MaxFds
          BY <3>3
        <4>2. ~(d + 1 + n <= m) => d + 1 + n > m
          OBVIOUS
        <4>3. \A k \in DOMAIN Needs(path) :
                Needs(path)[k] \in {"missing", "short", "badmagic"} =>
                  {Needs(path)[i] : i \in DOMAIN Needs(path)}
                    \cap {"missing", "short", "badmagic"} # {}
          <5> SUFFICES ASSUME NEW k \in DOMAIN Needs(path),
                              Needs(path)[k] \in {"missing", "short", "badmagic"}
                       PROVE  {Needs(path)[i] : i \in DOMAIN Needs(path)}
                                \cap {"missing", "short", "badmagic"} # {}
            OBVIOUS
          <5>1. Needs(path)[k] \in {Needs(path)[i] : i \in DOMAIN Needs(path)}
            OBVIOUS
          <5> QED
            BY <5>1
        <4> QED
          BY <4>1, <4>2, <4>3 DEF LoadMayDie, NeedsOpen, LoopsPast
      <3> QED
        BY <2>2, <3>1, <3>2, <3>4 DEF DlopenDies
    <2> QED
      BY <2>2, <2>3, <2>4 DEF DiesLater, DlopenDies
  <1>3. CASE StartMain
    <2>1. read_auxv(get_auxv(1), AT_PHDR) # 0
      BY ProcessAssumption, PhdrRead DEF StageInv
    <2>2. /\ UNCHANGED <<input, load, link>> /\ load = "running" /\ link = "linking"
          /\ jump = 0
      BY <1>3 DEF StartMain, StageInv, loaderVars, linkerVars
    <2>3. \/ jump' = 2 /\ "error_" \in input.garbage
          \/ jump' = jump /\ input.pie
      BY <1>3, <2>1 DEF StartMain, Jump
    <2> QED
      BY <2>2, <2>3 DEF DiesAtStart
  <1>4. CASE LoadDies
    BY <1>4 DEF LoadDies, StageInv, DiesLoading, loaderVars, linkerVars
  <1>5. CASE LinkDies
    BY <1>5 DEF LinkDies, StageInv, DiesLinking, loaderVars, linkerVars
  <1>6. CASE PrintDies
    <2>1. /\ pc = "link" /\ link = "linking" /\ linking # <<>>
          /\ Linking!top.obj = 0 /\ Linking!top.k <= Len(Linking!Relocs)
          /\ "name_" \in input.garbage
          /\ UNCHANGED <<input, load, link, prog>>
      BY <1>6 DEF PrintDies, Linking!Running, found, loaderVars, linkerVars
    <2>2. KP!TypeOK
      BY <2>1 DEF LinkedInv, LinkInv, KP!IInv
    <2>3. PICK f : f = Linking!top /\ f \in KP!Frame
      <3>1. KP!top \in KP!Frame
        BY <2>1, <2>2, LinkerAssumed, KP!TopFacts
      <3> QED
        BY <3>1 DEF KP!top, Linking!top
    <2>4. f.tab \in 1..2 /\ f.k \in Nat \ {0}
      BY <2>3 DEF KP!Frame, KP!Table
    <2>5. prog.table[0][f.tab] # <<>>
      <3>1. f.k <= Len(prog.table[0][f.tab])
        BY <2>1, <2>3 DEF Linking!Relocs
      <3>2. Len(<<>>) = 0
        OBVIOUS
      <3> QED
        BY <2>4, <3>1, <3>2
    <2>6. load = "done"
      BY <2>1 DEF StageInv
    <2> QED
      BY <2>1, <2>4, <2>5, <2>6 DEF DiesLinking
  <1>7. CASE Accepted
    <2>1. /\ UNCHANGED <<entry, load, link>> /\ load = "done" /\ link = "accepted"
          /\ jump' # entry /\ jump' = entry % IntMod
      BY <1>7 DEF Accepted, Jump, found, StageInv, loaderVars, linkerVars
    <2>2. entry \in Nat /\ IntMod \in Nat \ {0}
      <3>1. FoundInv /\ Startable(input)
        BY <1>7, ProcessAssumption DEF Accepted, StageInv
      <3>2. AT_ENTRY \in Nat
        BY DEF AT_ENTRY
      <3> QED
        BY <3>1, <3>2, AuxvRead, ProcessAssumption DEF FoundInv
    <2>3. entry >= IntMod
      <3>1. \A n \in Nat, m \in Nat \ {0} : n < m => n % m = n
        OBVIOUS
      <3> QED
        BY <2>1, <2>2, <3>1
    <2> QED
      BY <2>1, <2>3 DEF DiesLater
  <1>8. CASE StartDebug \/ LoadStep \/ Listed \/ StartLinking \/ LinkStep \/ Refused
    BY <1>8 DEF StartDebug, LoadStep, Listed, StartLinking, LinkStep, Refused
  <1> QED
    BY <1>1, <1>2, <1>3, <1>4, <1>5, <1>6, <1>7, <1>8 DEF Next, Start, Call

LEMMA SameAcyclic == Linking!Acyclic(prog) <=> KP!Acyclic(prog)
  <1>1. Linking!Uses(prog) = KP!Uses(prog)
    BY DEF Linking!Uses, KP!Uses, Linking!SlotsOf, KP!SlotsOf, Linking!Object,
           KP!Object, Linking!Table, KP!Table, Linking!Reached, KP!Reached,
           Linking!RelocOf, KP!RelocOf, Linking!Provider, KP!Provider,
           Linking!Definers, KP!Definers
  <1> QED
    BY <1>1 DEF Linking!Acyclic, KP!Acyclic

\* What a finished loading has published stays the list.
LEMMA PublishedStays ==
  ASSUME StageInv, LoadedInv, load = "done"
  PROVE  dependencies = loaded
  <1>1. LoadInv
    BY DEF LoadedInv
  <1>2. loading = <<>>
    BY <1>1 DEF LoadInv, LP!CoverInv
  <1>3. role # "dlopen"
    BY DEF StageInv
  <1> QED
    BY <1>1, <1>2, <1>3 DEF LoadInv, LP!DepInv

\* A relocation that module Linker's invariants hold against an object.
LEMMA WritesNowhere ==
  ASSUME NEW o, KP!Writes(o)
  PROVE  WrittenNowhere(o)
  BY DEF KP!Writes, KP!Names, WrittenNowhere, Linking!Slot, KP!Slot,
         Linking!SlotsOf, KP!SlotsOf, Linking!Object, KP!Object, Linking!Table,
         KP!Table, Linking!Reached, KP!Reached, Linking!RelocOf, KP!RelocOf,
         Linking!Provider, KP!Provider, Linking!Definers, KP!Definers

\* What a death in the linker comes from, for any libraries, tables and stack
\* with room for every library: before loading error_ or a position-independent
\* program; in loading the file of a library that was loaded, or too many of
\* them; in linking name_, a cycle of uses, or a write with no segment; after
\* it the width of the entry point, or what a my_dlopen needs.
THEOREM DeathsHaveCauses ==
  StackLimit > Cardinality(Lib) => (Spec => []KilledForCause)
  <1> SUFFICES ASSUME StackLimit > Cardinality(Lib)
               PROVE  Spec => []KilledForCause
    OBVIOUS
  <1> DEFINE I == StageInv /\ LoadedInv /\ LinkedInv /\ ApiInv /\ TypeInv
                  /\ KilledInv
  <1>1. I => KilledForCause
    <2> DEFINE kinds == {file[loaded[k]] : k \in 1..Len(loaded)}
               unread == {"missing", "short", "badmagic"}
    <2> SUFFICES ASSUME I, pc = "killed"
                 PROVE  KilledForCause
      BY DEF KilledForCause
    <2>1. CASE DiesAtStart
      BY <2>1 DEF DiesAtStart, KilledForCause
    <2>2. CASE DiesLoading
      <3> SUFFICES ASSUME TRUE
                   PROVE  /\ load = "crashed" => kinds \cap unread # {}
                          /\ load = "wild" => Len(loaded) > Loading!MinSlots
        BY <2>2 DEF DiesLoading, KilledForCause
      <3>1. file[Root] \in {"good", "nodynamic"} /\ LoadInv
        BY <2>2 DEF DiesLoading, LoadedInv
      <3>2. ASSUME load = "crashed"
            PROVE  kinds \cap unread # {}
        <4>1. PICK m \in LP!Manager : file[LP!Name(m)] \in unread
          BY <3>1, <3>2 DEF LoadInv, LP!CrashInv
        <4>2. m # 0
          BY <3>1, <4>1 DEF LP!Name
        <4>3. m \in 1..Len(loaded) /\ file[loaded[m]] \in unread
          BY <3>1, <4>1, <4>2 DEF LP!Name, LP!Manager, LoadInv, LP!TypeOK
        <4> QED
          BY <4>3
      <3>3. ASSUME load = "wild"
            PROVE  Len(loaded) > Loading!MinSlots
        <4>1. ~(Len(loaded) <= LP!MinSlots)
          BY <3>1, <3>3 DEF LoadInv, LP!SmallLoadsStayInBlock
        <4>2. Len(loaded) \in Nat
          BY <3>1 DEF LoadInv, LP!TypeOK
        <4> QED
          BY <4>1, <4>2 DEF LP!MinSlots, Loading!MinSlots
      <3> QED
        BY <3>2, <3>3
    <2>3. CASE DiesLinking
      <3>1. CASE link = "linking"
        BY <2>3, <3>1 DEF DiesLinking, KilledForCause
      <3>2. CASE link # "linking"
        <4>1. /\ load = "done" /\ link \in {"overflow", "crashed", "wild"}
              /\ LinkInv /\ prog = Linkable
          BY <2>3, <3>2 DEF DiesLinking, LinkedInv
        <4> SUFFICES ASSUME TRUE
                     PROVE  /\ link = "overflow" => ~Linking!Acyclic(prog)
                            /\ link = "crashed" =>
                                 \E k \in 1..Len(loaded) :
                                   file[loaded[k]] = "oneload" /\ WrittenNowhere(k)
                            /\ link = "wild" => "segment_" \in input.garbage
                                                  /\ WrittenNowhere(0)
          BY <4>1 DEF KilledForCause
        <4>2. ASSUME link = "overflow"
              PROVE  ~Linking!Acyclic(prog)
          <5>1. KP!TypeOK /\ KP!StackInv /\ KP!OverInv
            BY <4>1 DEF LinkInv, KP!IInv
          <5>2. ~KP!Acyclic(prog)
            BY <4>2, <5>1, LinkerAssumed, KP!OverIsCycle DEF KP!StackSuffices
          <5> QED
            BY <5>2, SameAcyclic
        <4>3. ASSUME link = "crashed"
              PROVE  \E k \in 1..Len(loaded) :
                       file[loaded[k]] = "oneload" /\ WrittenNowhere(k)
          <5>1. PICK k \in Linkable.unmapped \ {0} : KP!Writes(k)
            BY <4>1, <4>3 DEF LinkInv, KP!VerdictInv
          <5>2. k \in 1..Len(dependencies) /\ file[dependencies[k]] = "oneload"
            <6>1. k \in 0..Len(dependencies) /\ k # 0
                  /\ file[dependencies[k]] = "oneload"
              BY <5>1 DEF Linkable
            <6> QED
              BY <6>1
          <5>3. dependencies = loaded
            BY <4>1, PublishedStays
          <5> QED
            BY <5>1, <5>2, <5>3, WritesNowhere
        <4>4. ASSUME link = "wild"
              PROVE  "segment_" \in input.garbage /\ WrittenNowhere(0)
          <5>1. 0 \in Linkable.unmapped /\ KP!Writes(0)
            BY <4>1, <4>4 DEF LinkInv, KP!VerdictInv
          <5> QED
            BY <5>1, WritesNowhere DEF Linkable
        <4> QED
          BY <4>2, <4>3, <4>4
      <3> QED
        BY <3>1, <3>2
    <2>4. CASE DiesLater
      BY <2>4 DEF DiesLater, DlopenDies, KilledForCause
    <2> QED
      BY <2>1, <2>2, <2>3, <2>4 DEF KilledInv
  <1>2. Init => I
    BY StageInit, LoadedInit, LinkedInit, ApiInit, TypeInit, KilledInit
  <1>3. I /\ [Next]_vars => I'
    BY StageStep, LoadedStep, LinkedStep, ApiStep, TypeStep, KilledStep
  <1> QED
    BY <1>1, <1>2, <1>3, PTL DEF Spec

-----------------------------------------------------------------------------
(***************************************************************************)
(* A number printed in base 16 reads back: ztoa16 prints the digits of the *)
(* quotient before the remainder's, a reader multiplies before it adds.    *)
(***************************************************************************)
UnitOf(c) == IF c \in 97..102 THEN c - 87 ELSE c - 48

LEMMA DigitReads ==
  ASSUME NEW u \in 0..15
  PROVE  Digit(u) \in Nat /\ UnitOf(Digit(u)) = u
  <1>1. u > 9 => 97 + u - 10 \in 97..102 /\ 97 + u - 10 - 87 = u
    OBVIOUS
  <1>2. ~(u > 9) => 48 + u \notin 97..102 /\ 48 + u - 48 = u
    OBVIOUS
  <1> QED
    BY <1>1, <1>2 DEF Digit, UnitOf

\* The value of a text after its first k digits, if it was r before the last.
ReadOn(s, k, r) == IF k = 0 THEN 0 ELSE r * 16 + UnitOf(s[k])
ReadUpTo(s, d, R) == R = [k \in 0..d |-> ReadOn(s, k, R[k - 1])]

LEMMA ReadPointwise ==
  ASSUME NEW s, NEW d \in Nat, NEW R, ReadUpTo(s, d, R)
  PROVE  \A k \in 0..d : R[k] = ReadOn(s, k, R[k - 1])
  <1>1. \A k \in 0..d :
          [i \in 0..d |-> ReadOn(s, i, R[i - 1])][k] = ReadOn(s, k, R[k - 1])
    OBVIOUS
  <1> QED
    BY <1>1 DEF ReadUpTo

LEMMA SomeReading ==
  ASSUME NEW s, NEW d \in Nat
  PROVE  \E R : ReadUpTo(s, d, R)
  <1> DEFINE Bad == {k \in Nat : ~\E R : ReadUpTo(s, k, R)}
  <1>1. \E R : ReadUpTo(s, 0, R)
    <2> DEFINE R == [k \in 0..0 |-> 0]
    <2>1. \A k \in 0..0 : ReadOn(s, k, R[k - 1]) = 0
      BY DEF ReadOn
    <2>2. [k \in 0..0 |-> ReadOn(s, k, R[k - 1])] = R
      BY <2>1
    <2> QED
      BY <2>2 DEF ReadUpTo
  <1>2. ASSUME NEW n \in Nat, NEW V, ReadUpTo(s, n, V)
        PROVE  \E R : ReadUpTo(s, n + 1, R)
    <2> DEFINE R == [k \in 0..n + 1 |-> IF k = n + 1 THEN ReadOn(s, n + 1, V[n])
                                       ELSE V[k]]
    <2>1. \A k \in 0..n : V[k] = ReadOn(s, k, V[k - 1])
      BY <1>2, ReadPointwise
    <2>2. ASSUME NEW k \in 0..n + 1
          PROVE  R[k] = ReadOn(s, k, R[k - 1])
      <3>1. CASE k = n + 1
        <4>1. n \in 0..n + 1 /\ n # n + 1 /\ k - 1 = n /\ k \in 0..n + 1
          BY <3>1
        <4> QED
          BY <3>1, <4>1
      <3>2. CASE k \in 1..n
        <4>1. /\ k - 1 \in 0..n + 1 /\ k - 1 # n + 1 /\ k # n + 1 /\ k \in 0..n
          BY <3>2
        <4> QED
          BY <2>1, <4>1
      <3>3. CASE k = 0
        <4>1. 0 \in 0..n + 1 /\ 0 # n + 1 /\ 0 \in 0..n
          OBVIOUS
        <4>2. R[0] = V[0]
          BY <4>1
        <4>3. V[0] = 0
          BY <2>1, <4>1 DEF ReadOn
        <4> HIDE DEF R
        <4> QED
          BY <3>3, <4>2, <4>3 DEF ReadOn
      <3> QED
        BY <3>1, <3>2, <3>3
    <2>3. R = [k \in 0..n + 1 |-> ReadOn(s, k, R[k - 1])]
      BY <2>2
    <2> QED
      BY <2>3 DEF ReadUpTo
  <1>3. Bad = {}
    <2> SUFFICES ASSUME Bad # {}
                 PROVE  FALSE
      OBVIOUS
    <2>1. Bad \in SUBSET Nat
      OBVIOUS
    <2>2. PICK m \in Bad : \A j \in Bad : m <= j
      <3> HIDE DEF Bad
      <3> QED
        BY <2>1, LeastNumber
    <2>3. m \in Nat /\ m # 0 /\ ~\E R : ReadUpTo(s, m, R)
      BY <1>1
    <2>4. m - 1 \in Nat /\ ~(m <= m - 1) /\ (m - 1) + 1 = m
      BY <2>3
    <2>5. m - 1 \notin Bad
      BY <2>2, <2>4
    <2>6. \E R : ReadUpTo(s, m - 1, R)
      BY <2>4, <2>5
    <2> QED
      BY <1>2, <2>3, <2>4, <2>6
  <1> QED
    BY <1>3

\* What one text reads as after its first digits, every text with the same
\* first digits does.
LEMMA SameReading ==
  ASSUME NEW s, NEW t, NEW m \in Nat, NEW n \in Nat,
         \A k \in 1..m : s[k] = t[k], m <= n,
         NEW R, ReadUpTo(s, m, R), NEW U, ReadUpTo(t, n, U)
  PROVE  R[m] = U[m]
  <1> DEFINE Bad == {k \in Nat : k <= m /\ R[k] # U[k]}
  <1>1. \A k \in 0..m : R[k] = ReadOn(s, k, R[k - 1])
    BY ReadPointwise
  <1>2. \A k \in 0..n : U[k] = ReadOn(t, k, U[k - 1])
    BY ReadPointwise
  <1>3. Bad = {}
    <2> SUFFICES ASSUME Bad # {}
                 PROVE  FALSE
      OBVIOUS
    <2>1. Bad \in SUBSET Nat
      OBVIOUS
    <2>2. PICK k \in Bad : \A j \in Bad : k <= j
      <3> HIDE DEF Bad
      <3> QED
        BY <2>1, LeastNumber
    <2>3. k \in 0..m /\ k \in 0..n /\ R[k] # U[k]
      OBVIOUS
    <2>4. CASE k = 0
      BY <1>1, <1>2, <2>3, <2>4 DEF ReadOn
    <2>5. CASE k # 0
      <3>1. k - 1 \in Nat /\ k - 1 <= m /\ ~(k <= k - 1) /\ k \in 1..m
        BY <2>3, <2>5
      <3>2. k - 1 \notin Bad
        BY <2>2, <3>1
      <3>3. R[k - 1] = U[k - 1] /\ s[k] = t[k]
        BY <3>1, <3>2
      <3>4. ReadOn(s, k, R[k - 1]) = ReadOn(t, k, U[k - 1])
        BY <3>3 DEF ReadOn
      <3> QED
        BY <1>1, <1>2, <2>3, <3>4
    <2> QED
      BY <2>4, <2>5
  <1>4. m \notin Bad
    BY <1>3
  <1> QED
    BY <1>4

LEMMA ReadingIs ==
  ASSUME NEW s \in Seq(Nat)
  PROVE  \E R : ReadUpTo(s, Len(s), R) /\ Read16(s) = R[Len(s)]
  <1> DEFINE n == Len(s)
             R0 == CHOOSE R : ReadUpTo(s, n, R)
  <1>1. n \in Nat
    OBVIOUS
  <1>2. Read16(s) = R0[n]
    BY DEF Read16, ReadUpTo, ReadOn, UnitOf
  <1>3. ReadUpTo(s, n, R0)
    <2>1. \E R : ReadUpTo(s, n, R)
      <3> HIDE DEF n
      <3> QED
        BY <1>1, SomeReading
    <2> QED
      BY <2>1
  <1> HIDE DEF R0
  <1> QED
    BY <1>2, <1>3

\* One digit more.
LEMMA ReadsOneMore ==
  ASSUME NEW s \in Seq(Nat), NEW c \in Nat
  PROVE  /\ Read16(<<c>>) = UnitOf(c)
         /\ Read16(Append(s, c)) = Read16(s) * 16 + UnitOf(c)
  <1>1. PICK m \in Nat : m = Len(s)
    OBVIOUS
  <1>2. PICK t \in Seq(Nat) : t = Append(s, c)
    <2>1. Append(s, c) \in Seq(Nat)
      OBVIOUS
    <2> QED
      BY <2>1
  <1>3. Len(t) = m + 1 /\ t[m + 1] = c /\ \A k \in 1..m : s[k] = t[k]
    BY <1>1, <1>2
  <1>4. PICK R : ReadUpTo(s, m, R) /\ Read16(s) = R[m]
    BY <1>1, ReadingIs
  <1>5. PICK U : ReadUpTo(t, m + 1, U) /\ Read16(t) = U[m + 1]
    BY <1>3, ReadingIs
  <1>6. R[m] = U[m]
    <2>1. PICK n \in Nat : n = m + 1 /\ m <= n
      OBVIOUS
    <2>2. ReadUpTo(t, n, U) /\ ReadUpTo(s, m, R)
      BY <1>4, <1>5, <2>1
    <2>3. \A k \in 1..m : s[k] = t[k]
      BY <1>3
    <2> QED
      BY SMTT(30), <2>1, <2>2, <2>3, SameReading
  <1>7. U[m + 1] = ReadOn(t, m + 1, U[(m + 1) - 1])
    <2>1. m + 1 \in 0..m + 1 /\ m + 1 \in Nat
      OBVIOUS
    <2> QED
      BY <1>5, <2>1, ReadPointwise
  <1>8. (m + 1) - 1 = m /\ m + 1 # 0
    OBVIOUS
  <1>9. Read16(t) = Read16(s) * 16 + UnitOf(c)
    BY <1>3, <1>4, <1>5, <1>6, <1>7, <1>8 DEF ReadOn
  <1>10. Read16(<<c>>) = UnitOf(c)
    <2>1. PICK d \in Seq(Nat) : d = <<c>> /\ Len(d) = 1 /\ d[1] = c
      <3>1. <<c>> \in Seq(Nat) /\ Len(<<c>>) = 1 /\ <<c>>[1] = c
        OBVIOUS
      <3> QED
        BY <3>1
    <2>2. PICK D : ReadUpTo(d, 1, D) /\ Read16(d) = D[1]
      BY <2>1, ReadingIs
    <2>3. D[0] = 0 /\ D[1] = D[0] * 16 + UnitOf(c)
      <3>1. /\ D[0] = ReadOn(d, 0, D[0 - 1])
            /\ D[1] = ReadOn(d, 1, D[1 - 1])
        <4>1. PICK one \in Nat : one = 1
          OBVIOUS
        <4>2. ReadUpTo(d, one, D)
          BY <2>2, <4>1
        <4>3. \A k \in 0..one : D[k] = ReadOn(d, k, D[k - 1])
          BY <4>2, ReadPointwise
        <4>4. 0 \in 0..one /\ 1 \in 0..one
          BY <4>1
        <4> QED
          BY <4>3, <4>4
      <3>2. 1 - 1 = 0 /\ 1 # 0
        OBVIOUS
      <3> QED
        BY <2>1, <3>1, <3>2 DEF ReadOn
    <2>4. UnitOf(c) \in Int
      BY DEF UnitOf
    <2> QED
      BY <2>1, <2>2, <2>3, <2>4
  <1> QED
    BY <1>2, <1>9, <1>10

\* The digits of k, if those of its quotient are at hand.
Printed(k, f) == IF k < 16 THEN <<Digit(k)>>
                 ELSE Append(f[k \div 16], Digit(k % 16))
PrintUpTo(d, f) == f = [k \in 0..d |-> Printed(k, f)]

LEMMA Sixteenths ==
  ASSUME NEW k \in Nat
  PROVE  /\ k % 16 \in 0..15 /\ k \div 16 \in Nat
         /\ (k \div 16) * 16 + (k % 16) = k
         /\ k >= 16 => k \div 16 < k
  <1>1. k % 16 \in 0..15 /\ k \div 16 \in Nat /\ 16 * (k \div 16) + (k % 16) = k
    OBVIOUS
  <1>2. PICK q \in Nat, r \in 0..15 : q = k \div 16 /\ r = k % 16
    BY <1>1
  <1>3. 16 * q + r = k
    BY <1>1, <1>2
  <1>4. q * 16 + r = k /\ (k >= 16 => q < k)
    BY <1>2, <1>3
  <1> QED
    BY <1>1, <1>2, <1>4

LEMMA PrintPointwise ==
  ASSUME NEW d \in Nat, NEW f, PrintUpTo(d, f)
  PROVE  \A k \in 0..d : f[k] = Printed(k, f)
  <1>1. \A k \in 0..d : [i \in 0..d |-> Printed(i, f)][k] = Printed(k, f)
    OBVIOUS
  <1> QED
    BY <1>1 DEF PrintUpTo

LEMMA SomePrinting ==
  ASSUME NEW d \in Nat
  PROVE  \E f : PrintUpTo(d, f)
  <1> DEFINE Bad == {k \in Nat : ~\E f : PrintUpTo(k, f)}
  <1>1. \E f : PrintUpTo(0, f)
    <2> DEFINE f == [k \in 0..0 |-> <<Digit(0)>>]
    <2>1. \A k \in 0..0 : Printed(k, f) = <<Digit(0)>>
      BY DEF Printed
    <2>2. [k \in 0..0 |-> Printed(k, f)] = f
      BY <2>1
    <2> QED
      BY <2>2 DEF PrintUpTo
  <1>2. ASSUME NEW n \in Nat, NEW V, PrintUpTo(n, V)
        PROVE  \E f : PrintUpTo(n + 1, f)
    <2> DEFINE f == [k \in 0..n + 1 |-> IF k = n + 1 THEN Printed(n + 1, V)
                                       ELSE V[k]]
    <2>1. \A k \in 0..n : V[k] = Printed(k, V)
      BY <1>2, PrintPointwise
    <2>2. ASSUME NEW k \in 0..n + 1
          PROVE  Printed(k, f) = Printed(k, V)
      <3>1. CASE k < 16
        BY <3>1 DEF Printed
      <3>2. CASE ~(k < 16)
        <4>1. k \div 16 \in Nat /\ k \div 16 < k /\ k \in Nat
          BY <3>2, Sixteenths
        <4>2. PICK q \in Nat : q = k \div 16 /\ q < k
          BY <4>1
        <4>3. q \in 0..n + 1 /\ q # n + 1
          BY <4>2
        <4>4. f[q] = V[q]
          BY <4>3
        <4> HIDE DEF f
        <4> QED
          BY <4>2, <4>4 DEF Printed
      <3> QED
        BY <3>1, <3>2
    <2>3. ASSUME NEW k \in 0..n + 1
          PROVE  f[k] = Printed(k, V)
      <3>1. k = n + 1 \/ (k \in 0..n /\ k # n + 1)
        OBVIOUS
      <3> QED
        BY <2>1, <3>1
    <2>4. f = [k \in 0..n + 1 |-> Printed(k, V)]
      <3>1. f = [k \in 0..n + 1 |-> f[k]]
        OBVIOUS
      <3> HIDE DEF f
      <3> QED
        BY <2>3, <3>1
    <2>5. f = [k \in 0..n + 1 |-> Printed(k, f)]
      <3> HIDE DEF f
      <3> QED
        BY <2>2, <2>4
    <2> QED
      BY <2>5 DEF PrintUpTo
  <1>3. Bad = {}
    <2> SUFFICES ASSUME Bad # {}
                 PROVE  FALSE
      OBVIOUS
    <2>1. Bad \in SUBSET Nat
      OBVIOUS
    <2>2. PICK m \in Bad : \A j \in Bad : m <= j
      <3> HIDE DEF Bad
      <3> QED
        BY <2>1, LeastNumber
    <2>3. m \in Nat /\ m # 0 /\ ~\E f : PrintUpTo(m, f)
      BY <1>1
    <2>4. m - 1 \in Nat /\ ~(m <= m - 1) /\ (m - 1) + 1 = m
      BY <2>3
    <2>5. m - 1 \notin Bad
      BY <2>2, <2>4
    <2>6. \E f : PrintUpTo(m - 1, f)
      BY <2>4, <2>5
    <2> QED
      BY <1>2, <2>3, <2>4, <2>6
  <1> QED
    BY <1>3

\* What ztoa16 prints reads back, whatever the number.
LEMMA PrintsBack ==
  ASSUME NEW n \in Nat
  PROVE  Read16(ztoa16(n)) = n
  <1> DEFINE f0 == CHOOSE f : PrintUpTo(n, f)
             Good(t, k) == t \in Seq(Nat) /\ Read16(t) = k
  <1>1. ztoa16(n) = f0[n]
    BY DEF ztoa16, Digits, PrintUpTo, Printed
  <1>2. PrintUpTo(n, f0)
    BY SomePrinting
  <1> HIDE DEF f0
  <1>3. \A k \in 0..n : f0[k] = Printed(k, f0)
    BY <1>2, PrintPointwise
  <1> DEFINE Bad == {k \in Nat : k <= n /\ ~Good(f0[k], k)}
  <1>4. Bad = {}
    <2> SUFFICES ASSUME Bad # {}
                 PROVE  FALSE
      OBVIOUS
    <2>1. Bad \in SUBSET Nat
      OBVIOUS
    <2>2. PICK k \in Bad : \A j \in Bad : k <= j
      <3> HIDE DEF Bad
      <3> QED
        BY <2>1, LeastNumber
    <2>3. k \in Nat /\ k <= n /\ ~Good(f0[k], k)
      OBVIOUS
    <2>4. f0[k] = Printed(k, f0)
      BY <1>3, <2>3
    <2>5. CASE k < 16
      <3>1. f0[k] = <<Digit(k)>>
        BY <2>4, <2>5 DEF Printed
      <3>2. Digit(k) \in Nat /\ UnitOf(Digit(k)) = k
        <4>1. k \in 0..15
          BY <2>3, <2>5
        <4> QED
          BY <4>1, DigitReads
      <3>3. <<>> \in Seq(Nat)
        OBVIOUS
      <3>4. Read16(<<Digit(k)>>) = UnitOf(Digit(k))
        BY <3>2, <3>3, ReadsOneMore
      <3>5. <<Digit(k)>> \in Seq(Nat)
        BY <3>2
      <3> QED
        BY <2>3, <3>1, <3>2, <3>4, <3>5
    <2>6. CASE ~(k < 16)
      <3>1. /\ k % 16 \in 0..15 /\ k \div 16 \in Nat
            /\ (k \div 16) * 16 + (k % 16) = k /\ k \div 16 < k
        BY <2>3, <2>6, Sixteenths
      <3>2. PICK q \in Nat, r \in 0..15 :
              q = k \div 16 /\ r = k % 16 /\ q * 16 + r = k /\ q < k
        BY <3>1
      <3>3. q \notin Bad /\ q <= n
        <4>1. ~(k <= q) /\ q <= n
          BY <2>3, <3>2
        <4> QED
          BY <2>2, <4>1
      <3>4. Good(f0[q], q)
        BY <3>2, <3>3
      <3>5. f0[k] = Append(f0[q], Digit(r))
        BY <2>4, <2>6, <3>2 DEF Printed
      <3>6. Digit(r) \in Nat /\ UnitOf(Digit(r)) = r
        BY DigitReads
      <3>7. Read16(Append(f0[q], Digit(r))) = q * 16 + r
        BY <3>4, <3>6, ReadsOneMore
      <3>8. Append(f0[q], Digit(r)) \in Seq(Nat)
        BY <3>4, <3>6
      <3> QED
        BY <2>3, <3>2, <3>5, <3>7, <3>8
    <2> QED
      BY <2>5, <2>6
  <1>5. Good(f0[n], n)
    <2>1. n <= n /\ n \notin Bad
      BY <1>4
    <2> QED
      BY <2>1
  <1> QED
    BY <1>1, <1>5

\* What is printed, and when: the list of libraries once loading has published
\* it, or one line that says how linking ended.
OutInv ==
  /\ pc \in {"start", "load", "link"} => out = <<>>
  /\ \/ out = <<>>
     \/ out = Listing /\ dependencies = loaded /\ loaded \in Seq(Lib)
     \/ /\ out = <<[tag |-> "error", of |-> Root, at |-> <<>>]>>
        /\ pc = "exited" /\ jump = 0 /\ unresolved # {}
     \/ out = <<[tag |-> "jump", of |-> Root, at |-> ztoa16(entry)]>>
          /\ entry \in Nat

LEMMA OutInit == Init => OutInv
  BY DEF Init, OutInv

LEMMA OutStep ==
  StageInv /\ LoadedInv /\ LinkedInv /\ OutInv /\ [Next]_vars => OutInv'
  <1> SUFFICES ASSUME StageInv, LoadedInv, LinkedInv, OutInv, [Next]_vars
               PROVE  OutInv'
    OBVIOUS
  <1>1. CASE Call \/ ProgramExits \/ Stopped \/ UNCHANGED vars
    <2>1. UNCHANGED <<entry, jump, out, loaded, dependencies, file, unresolved>>
          /\ (pc' = pc \/ pc = "program")
      BY <1>1, CallKeeps DEF loaderVars, linkerVars
    <2>2. Listing' = Listing
      BY <2>1 DEF Listing, Mapped, Segment
    <2>3. pc' \notin {"start", "load", "link"} \/ pc' = pc
      BY <1>1, CallKeeps
    <2>4. pc = "exited" => pc' = "exited"
      BY <1>1, CallKeeps
    <2> QED
      BY <2>1, <2>2, <2>3, <2>4 DEF OutInv
  <1>2. CASE StartDebug \/ StartMain \/ LoadStep \/ LoadDies \/ StartLinking
               \/ LinkStep \/ PrintDies \/ LinkDies
    <2>1. pc \in {"start", "load", "link"} /\ out' = out
      BY <1>2 DEF StartDebug, StartMain, LoadStep, LoadDies, StartLinking,
                  LinkStep, PrintDies, LinkDies
    <2> QED
      BY <2>1 DEF OutInv
  <1>3. CASE Listed
    <2>1. pc = "load" /\ load = "done" /\ pc' = "exited"
          /\ UNCHANGED <<dependencies, loaded, file>>
      BY <1>3 DEF Listed, loaderVars
    <2>2. dependencies = loaded /\ loaded \in Seq(Lib)
      BY <2>1, Published
    <2>3. out = <<>>
      BY <2>1 DEF OutInv
    <2>4. Listing' = Listing
      BY <2>1 DEF Listing, Mapped, Segment
    <2>5. \A S : \A f : <<>> \o [m \in 1..Len(dependencies) |-> f[m]]
                         = [m \in 1..Len(dependencies) |-> f[m]]
      BY <2>2
    <2>6. <<>> \o Listing = Listing
      <3>1. Listing = [m \in 1..Len(dependencies) |-> Listing[m]]
        BY DEF Listing
      <3> HIDE DEF Listing
      <3> QED
        BY <2>5, <3>1
    <2>7. out' \in {<<>>, Listing}
      BY <1>3, <2>3, <2>6 DEF Listed, show_dependencies
    <2> QED
      BY <2>1, <2>2, <2>4, <2>7 DEF OutInv
  <1>4. CASE Refused
    <2>1. pc = "link" /\ link = "refused" /\ pc' = "exited"
          /\ UNCHANGED <<jump, unresolved>>
      BY <1>4 DEF Refused, linkerVars
    <2>2. out = <<>> /\ jump = 0
      BY <2>1 DEF OutInv, StageInv
    <2>3. unresolved # {}
      BY <2>1 DEF LinkedInv, LinkInv, KP!VerdictInv
    <2>4. out' \in {<<>>, <<[tag |-> "error", of |-> Root, at |-> <<>>]>>}
      <3>1. \A e : Append(<<>>, e) = <<e>>
        OBVIOUS
      <3> QED
        BY <1>4, <2>2, <3>1 DEF Refused, print, write
    <2> QED
      BY <2>1, <2>2, <2>3, <2>4 DEF OutInv
  <1>5. CASE Accepted
    <2>1. pc = "link" /\ entry' = entry /\ pc' \in {"exited", "program", "killed"}
      BY <1>5 DEF Accepted, Jump, found
    <2>2. out = <<>>
      BY <2>1 DEF OutInv
    <2>3. out' \in {<<>>, <<[tag |-> "jump", of |-> Root, at |-> ztoa16(entry)]>>}
      <3>1. \A e : Append(<<>>, e) = <<e>>
        OBVIOUS
      <3> QED
        BY <1>5, <2>2, <3>1 DEF Accepted, print, write
    <2>4. entry \in Nat
      <3>1. FoundInv /\ Startable(input)
        BY <2>1, ProcessAssumption DEF StageInv
      <3>2. AT_ENTRY \in Nat
        BY DEF AT_ENTRY
      <3> QED
        BY <3>1, <3>2, AuxvRead DEF FoundInv
    <2>5. ztoa16(entry)' = ztoa16(entry)
      BY <2>1 DEF ztoa16, Digits
    <2> QED
      BY <2>1, <2>3, <2>4, <2>5 DEF OutInv
  <1> QED
    BY <1>1, <1>2, <1>3, <1>4, <1>5 DEF Next, Start, Call

\* Whatever is printed is true: libraries in search order, each with the
\* address of its segment; the entry point; an error, if symbols are missing.
THEOREM PrintedIsTrue == Spec => []ListingReadsBack
  <1>1. OutInv => ListingReadsBack
    <2> SUFFICES ASSUME OutInv, NEW k \in DOMAIN out
                 PROVE  CASE out[k].tag = "library" ->
                               /\ Len(out) = Len(loaded) /\ out[k].of = loaded[k]
                               /\ Read16(out[k].at) =
                                    IF Mapped(k) THEN Segment(k) ELSE 0
                          [] out[k].tag = "jump" -> Read16(out[k].at) = entry
                          [] out[k].tag = "error" -> jump = 0 /\ unresolved # {}
      BY DEF ListingReadsBack
    <2>1. CASE out = Listing /\ dependencies = loaded /\ loaded \in Seq(Lib)
      <3>1. PICK n \in Nat : n = Len(loaded) /\ DOMAIN out = 1..n /\ Len(out) = n
        <4>1. Len(loaded) \in Nat /\ DOMAIN Listing = 1..Len(loaded)
          BY <2>1 DEF Listing
        <4>2. Len(Listing) = Len(loaded)
          BY <2>1 DEF Listing
        <4> QED
          BY <2>1, <4>1, <4>2
      <3>2. PICK v \in Nat : v = IF Mapped(k) THEN Segment(k) ELSE 0
        <4>1. k \in Nat
          BY <3>1
        <4> QED
          BY <4>1, SegmentsApart
      <3>3. out[k] = [tag |-> "library", of |-> loaded[k], at |-> ztoa16(v)]
        BY <2>1, <3>1, <3>2 DEF Listing
      <3>4. Read16(ztoa16(v)) = v
        BY PrintsBack
      <3>5. out[k].tag = "library" /\ out[k].of = loaded[k] /\ out[k].at = ztoa16(v)
        BY <3>3
      <3> QED
        BY <3>1, <3>2, <3>4, <3>5
    <2>2. CASE /\ out = <<[tag |-> "error", of |-> Root, at |-> <<>>]>>
               /\ jump = 0 /\ unresolved # {}
      <3>1. out[k].tag = "error"
        BY <2>2
      <3> QED
        BY <2>2, <3>1
    <2>3. CASE out = <<[tag |-> "jump", of |-> Root, at |-> ztoa16(entry)]>>
                 /\ entry \in Nat
      <3>1. out[k].tag = "jump" /\ out[k].at = ztoa16(entry)
        BY <2>3
      <3>2. Read16(ztoa16(entry)) = entry
        BY <2>3, PrintsBack
      <3> QED
        BY <3>1, <3>2
    <2>4. out # <<>>
      OBVIOUS
    <2> QED
      BY <2>1, <2>2, <2>3, <2>4 DEF OutInv
  <1> DEFINE I == StageInv /\ LoadedInv /\ LinkedInv /\ OutInv
  <1>2. Init => I
    BY StageInit, LoadedInit, LinkedInit, OutInit
  <1>3. I /\ [Next]_vars => I'
    BY StageStep, LoadedStep, LinkedStep, OutStep
  <1> QED
    BY <1>1, <1>2, <1>3, PTL DEF Spec
=============================================================================

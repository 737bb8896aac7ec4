---------------------------- MODULE StackLemmas ----------------------------
(***************************************************************************)
(* Facts the proofs about several modules need: call stacks, which change  *)
(* at their last frame only; least elements, by which the proofs that      *)
(* would be inductions are done; and sums over finite sets.                *)
(***************************************************************************)
EXTENDS SequenceTheorems, FiniteSetTheorems, TLAPS

\* A set of numbers that is not empty has a least one.
LEMMA LeastNumber ==
  ASSUME NEW S \in SUBSET Nat, S # {}
  PROVE  \E m \in S : \A n \in S : m <= n
  <1> DEFINE R == StrictSubsetOrdering(Nat)
             F == FiniteSubsetsOf(Nat)
             T == {0..m : m \in S}
  <1>1. IsWellFoundedOn(R, F)
    BY FS_StrictSubsetOrderingWellFounded
  <1>2. T \subseteq F /\ T # {}
    <2>1. \A m \in S : 0..m \in SUBSET Nat /\ IsFiniteSet(0..m)
      BY FS_Interval
    <2> QED
      BY <2>1 DEF FiniteSubsetsOf
  <1>3. \A m, n \in S : n < m => <<0..n, 0..m>> \in R
    <2> SUFFICES ASSUME NEW m \in S, NEW n \in S, n < m
                 PROVE  <<0..n, 0..m>> \in R
      OBVIOUS
    <2>1. 0..n \subseteq 0..m /\ m \in 0..m /\ m \notin 0..n
      OBVIOUS
    <2>2. 0..n \in SUBSET Nat /\ 0..m \in SUBSET Nat
      OBVIOUS
    <2> QED
      BY <2>1, <2>2 DEF StrictSubsetOrdering
  <1>4. \E x \in T : \A y \in T : ~(<<y, x>> \in R)
    <2> HIDE DEF R, F, T
    <2> QED
      BY <1>1, <1>2, WFMin
  <1>5. PICK m \in S : \A y \in T : ~(<<y, 0..m>> \in R)
    BY <1>4
  <1>6. ASSUME NEW n \in S
        PROVE  m <= n
    <2>1. ~(<<0..n, 0..m>> \in R)
      BY <1>5
    <2>2. ~(n < m)
      BY <1>3, <2>1
    <2> QED
      BY <2>2
  <1> QED
    BY <1>6
-----------------------------------------------------------------------------
(***************************************************************************)
(* A stack changes in three ways: its top frame goes on, it is popped, or  *)
(* one more frame is pushed over a top frame that goes on.                 *)
(***************************************************************************)

\* The last element of a sequence.
LEMMA LastOfSeq ==
  ASSUME NEW S, NEW s \in Seq(S), s # <<>>
  PROVE  Len(s) \in Nat \ {0} /\ s[Len(s)] \in S
  <1>1. Len(s) \in Nat \ {0}
    BY EmptySeq
  <1> QED
    BY <1>1

\* A function of the right domain is a sequence.
LEMMA FunctionIsSeq ==
  ASSUME NEW S, NEW n \in Nat, NEW f \in [1..n -> S]
  PROVE  f \in Seq(S) /\ Len(f) = n
  OBVIOUS

\* The first n elements of a sequence.
LEMMA FirstPart ==
  ASSUME NEW S, NEW s \in Seq(S), NEW n \in 0..Len(s)
  PROVE  /\ SubSeq(s, 1, n) \in Seq(S)
         /\ Len(SubSeq(s, 1, n)) = n
         /\ \A j \in 1..n : SubSeq(s, 1, n)[j] = s[j]
  <1>1. /\ n \in Int
        /\ n >= 0
        /\ \A j \in 1..n : s[j] \in S
    OBVIOUS
  <1>2. /\ SubSeq(s, 1, n) \in Seq(S)
        /\ Len(SubSeq(s, 1, n)) = IF 1 <= n THEN n - 1 + 1 ELSE 0
        /\ \A j \in 1..(n - 1 + 1) : SubSeq(s, 1, n)[j] = s[1 + j - 1]
    BY <1>1, SubSeqProperties
  <1> QED
    BY <1>1, <1>2

\* Replacing the last element of a sequence.
LEMMA ResumeSeq ==
  ASSUME NEW S, NEW s \in Seq(S), s # <<>>, NEW f \in S
  PROVE  LET t == [s EXCEPT ![Len(s)] = f]
         IN  /\ t \in Seq(S)
             /\ Len(t) = Len(s)
             /\ Len(s) \in Nat \ {0}
             /\ t[Len(s)] = f
             /\ \A j \in 1..(Len(s) - 1) : t[j] = s[j]
  OBVIOUS

\* Removing the last element of a sequence.
LEMMA PopSeq ==
  ASSUME NEW S, NEW s \in Seq(S), s # <<>>
  PROVE  LET t == SubSeq(s, 1, Len(s) - 1)
         IN  /\ t \in Seq(S)
             /\ Len(t) = Len(s) - 1
             /\ Len(s) \in Nat \ {0}
             /\ \A j \in 1..(Len(s) - 1) : t[j] = s[j]
  <1>1. Len(s) \in Nat \ {0}
    BY EmptySeq
  <1>2. Len(s) - 1 \in 0..Len(s)
    BY <1>1
  <1> QED
    BY <1>1, <1>2, FirstPart

\* Replacing the last element and appending one more.
LEMMA PushSeq ==
  ASSUME NEW S, NEW s \in Seq(S), s # <<>>, NEW f \in S, NEW g \in S
  PROVE  LET t == Append([s EXCEPT ![Len(s)] = f], g)
         IN  /\ t \in Seq(S)
             /\ Len(t) = Len(s) + 1
             /\ Len(s) \in Nat \ {0}
             /\ t[Len(s) + 1] = g
             /\ t[Len(s)] = f
             /\ \A j \in 1..(Len(s) - 1) : t[j] = s[j]
  OBVIOUS
-----------------------------------------------------------------------------
(***************************************************************************)
(* Sums of a function's values over a finite set.                          *)
(***************************************************************************)

\* A family of subsets of a finite set has a smallest member.
LEMMA SmallestSet ==
  ASSUME NEW U, IsFiniteSet(U), NEW F \in SUBSET SUBSET U, F # {}
  PROVE  \E m \in F : \A n \in F : n \subseteq m => n = m
  <1> DEFINE R == StrictSubsetOrdering(U)
  <1>1. IsWellFoundedOn(R, SUBSET U)
    BY FS_StrictSubsetOrderingWellFounded, FS_FiniteSubsetsOfFinite
  <1>2. \E m \in F : \A n \in F : ~(<<n, m>> \in R)
    <2> HIDE DEF R
    <2> QED
      BY <1>1, WFMin
  <1> QED
    BY <1>2 DEF StrictSubsetOrdering

Picked(s) == CHOOSE x \in s : TRUE

\* g sums f over every subset of S, by the equation that defines the sum.
SumsOver(f, S, g) ==
  g = [s \in SUBSET S |-> IF s = {} THEN 0
                          ELSE f[Picked(s)] + g[s \ {Picked(s)}]]

LEMMA SumsAgree ==
  ASSUME NEW f, NEW S, IsFiniteSet(S), NEW T \in SUBSET S, NEW g, NEW h,
         SumsOver(f, S, g), SumsOver(f, T, h)
  PROVE  \A s \in SUBSET T : g[s] = h[s]
  <1> DEFINE Bad == {s \in SUBSET T : g[s] # h[s]}
  <1> SUFFICES ASSUME Bad # {}
               PROVE  FALSE
    OBVIOUS
  <1>1. PICK m \in Bad : \A n \in Bad : n \subseteq m => n = m
    <2>1. IsFiniteSet(T)
      BY FS_Subset
    <2>2. Bad \in SUBSET SUBSET T
      OBVIOUS
    <2> HIDE DEF Bad
    <2> QED
      BY <2>1, <2>2, SmallestSet
  <1>2. \A s \in SUBSET T :
          /\ g[s] = IF s = {} THEN 0 ELSE f[Picked(s)] + g[s \ {Picked(s)}]
          /\ h[s] = IF s = {} THEN 0 ELSE f[Picked(s)] + h[s \ {Picked(s)}]
    <2>1. \A s \in SUBSET S :
            g[s] = IF s = {} THEN 0 ELSE f[Picked(s)] + g[s \ {Picked(s)}]
      BY Zenon DEF SumsOver
    <2>2. \A s \in SUBSET T :
            h[s] = IF s = {} THEN 0 ELSE f[Picked(s)] + h[s \ {Picked(s)}]
      BY Zenon DEF SumsOver
    <2> QED
      BY <2>1, <2>2
  <1>3. m # {}
    BY <1>2
  <1>4. Picked(m) \in m
    BY <1>3 DEF Picked
  <1>5. m \ {Picked(m)} \in SUBSET T /\ m \ {Picked(m)} \notin Bad
    BY <1>1, <1>4
  <1> QED
    BY <1>2, <1>3, <1>5

LEMMA SumExists ==
  ASSUME NEW f, NEW S, IsFiniteSet(S)
  PROVE  \E g : SumsOver(f, S, g)
  <1> DEFINE F == {T \in SUBSET S : ~\E g : SumsOver(f, T, g)}
  <1> SUFFICES ASSUME F # {}
               PROVE  FALSE
    OBVIOUS
  <1>1. PICK m \in F : \A n \in F : n \subseteq m => n = m
    <2>1. F \in SUBSET SUBSET S
      OBVIOUS
    <2> HIDE DEF F
    <2> QED
      BY <2>1, SmallestSet
  <1>2. \A T \in SUBSET m : T # m => \E g : SumsOver(f, T, g)
    BY <1>1
  <1> DEFINE Of(T) == CHOOSE g : SumsOver(f, T, g)
             Value(s) == IF s = {} THEN 0
                         ELSE f[Picked(s)] + Of(s \ {Picked(s)})[s \ {Picked(s)}]
             h == [s \in SUBSET m |-> Value(s)]
  <1>3. \A T \in SUBSET m : T # m => SumsOver(f, T, Of(T))
    BY <1>2
  <1>4. ASSUME NEW s \in SUBSET m, s # {}
        PROVE  h[s \ {Picked(s)}] = Of(s \ {Picked(s)})[s \ {Picked(s)}]
    <2> DEFINE t == s \ {Picked(s)}
    <2>1. Picked(s) \in s
      BY <1>4 DEF Picked
    <2>2. t \in SUBSET m /\ t # m
      BY <2>1
    <2>3. h[t] = Value(t)
      BY <2>2
    <2>4. SumsOver(f, t, Of(t))
      BY <1>3, <2>2
    <2>5. t \in SUBSET t
      OBVIOUS
    <2>6. Of(t)[t] = IF t = {} THEN 0 ELSE f[Picked(t)] + Of(t)[t \ {Picked(t)}]
      <3> HIDE DEF t, Of
      <3> QED
        BY <2>4, <2>5, Zenon DEF SumsOver
    <2>7. CASE t = {}
      BY <2>3, <2>6, <2>7
    <2>8. CASE t # {}
      <3> DEFINE u == t \ {Picked(t)}
      <3>1. u \in SUBSET t /\ u \in SUBSET m /\ u # m
        BY <2>2
      <3>2. SumsOver(f, u, Of(u))
        BY <1>3, <3>1
      <3>3. IsFiniteSet(t)
        BY <2>2, FS_Subset
      <3>4. Of(t)[u] = Of(u)[u]
        <4> HIDE DEF Of, t, u
        <4> QED
          BY <2>4, <3>1, <3>2, <3>3, SumsAgree
      <3> QED
        BY <2>3, <2>6, <2>8, <3>4
    <2> QED
      BY <2>7, <2>8
  <1>5. SumsOver(f, m, h)
    <2>1. \A s \in SUBSET m :
            h[s] = IF s = {} THEN 0 ELSE f[Picked(s)] + h[s \ {Picked(s)}]
      <3> SUFFICES ASSUME NEW s \in SUBSET m
                   PROVE  h[s] = IF s = {} THEN 0
                                 ELSE f[Picked(s)] + h[s \ {Picked(s)}]
        OBVIOUS
      <3>1. h[s] = Value(s)
        OBVIOUS
      <3>2. s # {} => h[s \ {Picked(s)}] = Of(s \ {Picked(s)})[s \ {Picked(s)}]
        BY <1>4
      <3> HIDE DEF h, Of
      <3> QED
        BY <3>1, <3>2
    <2>2. h = [s \in SUBSET m |-> h[s]]
      OBVIOUS
    <2> HIDE DEF h
    <2> QED
      BY <2>1, <2>2 DEF SumsOver
  <1> QED
    BY <1>1, <1>5

LEMMA SumIs ==
  ASSUME NEW f, NEW S, IsFiniteSet(S), NEW g, SumsOver(f, S, g)
  PROVE  SumFunctionOnSet(f, S) = g[S]
  <1> DEFINE iter == CHOOSE h : SumsOver(f, S, h)
  <1>1. SumsOver(f, S, iter)
    OBVIOUS
  <1>2. SumFunctionOnSet(f, S) = iter[S]
    BY Zenon DEF SumFunctionOnSet, FoldFunctionOnSet, MapThenFoldSet, SumsOver, Picked
  <1>3. S \in SUBSET S
    OBVIOUS
  <1> HIDE DEF iter
  <1> QED
    BY <1>1, <1>2, <1>3, SumsAgree

LEMMA SumEmpty ==
  ASSUME NEW f
  PROVE  SumFunctionOnSet(f, {}) = 0
  <1>1. IsFiniteSet({})
    BY FS_EmptySet
  <1>2. PICK g : SumsOver(f, {}, g)
    BY <1>1, SumExists
  <1>3. g[{}] = 0
    BY <1>2 DEF SumsOver
  <1> QED
    BY <1>1, <1>2, <1>3, SumIs

LEMMA SumPicked ==
  ASSUME NEW f, NEW S, IsFiniteSet(S), S # {}
  PROVE  /\ Picked(S) \in S
         /\ SumFunctionOnSet(f, S) = f[Picked(S)] + SumFunctionOnSet(f, S \ {Picked(S)})
  <1> DEFINE T == S \ {Picked(S)}
  <1>1. Picked(S) \in S
    BY DEF Picked
  <1>2. IsFiniteSet(T)
    BY FS_Subset
  <1>3. PICK g : SumsOver(f, S, g)
    BY SumExists
  <1>4. PICK h : SumsOver(f, T, h)
    BY <1>2, SumExists
  <1>5. g[T] = h[T]
    <2>1. T \in SUBSET S /\ T \in SUBSET T
      OBVIOUS
    <2> HIDE DEF T
    <2> QED
      BY <1>3, <1>4, <2>1, SumsAgree
  <1>6. g[S] = f[Picked(S)] + g[T]
    BY <1>3 DEF SumsOver
  <1>7. SumFunctionOnSet(f, S) = g[S]
    BY <1>3, SumIs
  <1>8. SumFunctionOnSet(f, T) = h[T]
    BY <1>2, <1>4, SumIs
  <1> HIDE DEF T
  <1>9. SumFunctionOnSet(f, S) = f[Picked(S)] + SumFunctionOnSet(f, T)
    BY <1>5, <1>6, <1>7, <1>8
  <1> QED
    BY <1>1, <1>9 DEF T
\* The order in which the elements are taken does not matter.
LEMMA SumWithout ==
  ASSUME NEW S, IsFiniteSet(S), NEW f, \A s \in S : f[s] \in Nat, NEW a \in S
  PROVE  /\ SumFunctionOnSet(f, S \ {a}) \in Nat
         /\ SumFunctionOnSet(f, S) = f[a] + SumFunctionOnSet(f, S \ {a})
  <1> DEFINE Sum(T) == SumFunctionOnSet(f, T)
             F == {T \in SUBSET S :
                     ~(/\ Sum(T) \in Nat
                       /\ \A b \in T : Sum(T) = f[b] + Sum(T \ {b}))}
  <1>1. F = {}
    <2> SUFFICES ASSUME F # {}
                 PROVE  FALSE
      OBVIOUS
    <2>1. PICK m \in F : \A n \in F : n \subseteq m => n = m
      <3>1. F \in SUBSET SUBSET S
        OBVIOUS
      <3> HIDE DEF F
      <3> QED
        BY <3>1, SmallestSet
    <2>2. m \in SUBSET S /\ IsFiniteSet(m)
      BY FS_Subset
    <2>3. m # {}
      <3>1. Sum({}) \in Nat
        BY SumEmpty
      <3> HIDE DEF Sum
      <3> QED
        BY <2>1, <3>1
    <2> DEFINE p == Picked(m)
    <2>4. p \in m /\ Sum(m) = f[p] + Sum(m \ {p})
      BY <2>2, <2>3, SumPicked
    <2>5. \A b \in m : /\ Sum(m \ {b}) \in Nat
                       /\ \A c \in m \ {b} : Sum(m \ {b}) = f[c] + Sum((m \ {b}) \ {c})
      <3> TAKE b \in m
      <3>1. m \ {b} \in SUBSET S /\ m \ {b} \notin F
        BY <2>1, <2>2
      <3> QED
        BY <3>1
    <2>6. Sum(m) \in Nat
      BY <2>2, <2>4, <2>5
    <2>7. ASSUME NEW b \in m
          PROVE  Sum(m) = f[b] + Sum(m \ {b})
      <3>1. CASE b = p
        BY <2>4, <3>1
      <3>2. CASE b # p
        <4>1. Sum(m \ {p}) = f[b] + Sum((m \ {p}) \ {b})
          BY <2>4, <2>5, <3>2
        <4>2. Sum(m \ {b}) = f[p] + Sum((m \ {b}) \ {p})
          BY <2>4, <2>5, <3>2
        <4>3. (m \ {p}) \ {b} = (m \ {b}) \ {p}
          OBVIOUS
        <4>4. (m \ {p}) \ {b} \in SUBSET S /\ (m \ {p}) \ {b} \notin F
          BY <2>1, <2>2, <2>4, <3>2
        <4>5. Sum((m \ {p}) \ {b}) \in Nat
          BY <4>4
        <4>6. f[b] \in Nat /\ f[p] \in Nat
          BY <2>2, <2>4
        <4> HIDE DEF Sum, p
        <4> QED
          BY <2>4, <4>1, <4>2, <4>3, <4>5, <4>6
      <3> QED
        BY <3>1, <3>2
    <2> QED
      BY <2>1, <2>6, <2>7
  <1>2. S \in SUBSET S /\ S \ {a} \in SUBSET S
    OBVIOUS
  <1> QED
    BY <1>1, <1>2

LEMMA SumType ==
  ASSUME NEW S, IsFiniteSet(S), NEW f, \A s \in S : f[s] \in Nat
  PROVE  SumFunctionOnSet(f, S) \in Nat
  <1>1. CASE S = {}
    BY <1>1, SumEmpty
  <1>2. CASE S # {}
    <2>1. PICK a \in S : TRUE
      BY <1>2
    <2>2. /\ SumFunctionOnSet(f, S \ {a}) \in Nat
          /\ SumFunctionOnSet(f, S) = f[a] + SumFunctionOnSet(f, S \ {a})
      BY SumWithout
    <2> QED
      BY <2>2
  <1> QED
    BY <1>1, <1>2

\* Two functions that agree on the set have the same sum.
LEMMA SumSame ==
  ASSUME NEW S, IsFiniteSet(S), NEW f, NEW g, \A s \in S : f[s] = g[s]
  PROVE  SumFunctionOnSet(f, S) = SumFunctionOnSet(g, S)
  <1> DEFINE F == {T \in SUBSET S : SumFunctionOnSet(f, T) # SumFunctionOnSet(g, T)}
  <1>1. F = {}
    <2> SUFFICES ASSUME F # {}
                 PROVE  FALSE
      OBVIOUS
    <2>1. PICK m \in F : \A n \in F : n \subseteq m => n = m
      <3>1. F \in SUBSET SUBSET S
        OBVIOUS
      <3> HIDE DEF F
      <3> QED
        BY <3>1, SmallestSet
    <2>2. m \in SUBSET S /\ IsFiniteSet(m)
      BY FS_Subset
    <2>3. m # {}
      BY <2>1, SumEmpty
    <2> DEFINE p == Picked(m)
    <2>4. /\ p \in m
          /\ SumFunctionOnSet(f, m) = f[p] + SumFunctionOnSet(f, m \ {p})
          /\ SumFunctionOnSet(g, m) = g[p] + SumFunctionOnSet(g, m \ {p})
      BY <2>2, <2>3, SumPicked
    <2>5. m \ {p} \in SUBSET S /\ m \ {p} \notin F
      BY <2>1, <2>2, <2>4
    <2> QED
      BY <2>1, <2>2, <2>4, <2>5
  <1>2. S \in SUBSET S
    OBVIOUS
  <1> QED
    BY <1>1, <1>2

LEMMA SumZero ==
  ASSUME NEW S, IsFiniteSet(S), NEW f, \A s \in S : f[s] = 0
  PROVE  SumFunctionOnSet(f, S) = 0
  <1> DEFINE F == {T \in SUBSET S : SumFunctionOnSet(f, T) # 0}
  <1>1. F = {}
    <2> SUFFICES ASSUME F # {}
                 PROVE  FALSE
      OBVIOUS
    <2>1. PICK m \in F : \A n \in F : n \subseteq m => n = m
      <3>1. F \in SUBSET SUBSET S
        OBVIOUS
      <3> HIDE DEF F
      <3> QED
        BY <3>1, SmallestSet
    <2>2. m \in SUBSET S /\ IsFiniteSet(m)
      BY FS_Subset
    <2>3. m # {}
      BY <2>1, SumEmpty
    <2> DEFINE p == Picked(m)
    <2>4. /\ p \in m
          /\ SumFunctionOnSet(f, m) = f[p] + SumFunctionOnSet(f, m \ {p})
      BY <2>2, <2>3, SumPicked
    <2>5. m \ {p} \in SUBSET S /\ m \ {p} \notin F
      BY <2>1, <2>2, <2>4
    <2> QED
      BY <2>1, <2>2, <2>4, <2>5
  <1>2. S \in SUBSET S
    OBVIOUS
  <1> QED
    BY <1>1, <1>2

\* One value changes, and the sum by as much.
LEMMA SumChange ==
  ASSUME NEW S, IsFiniteSet(S), NEW f, NEW g, NEW a \in S,
         \A s \in S : f[s] \in Nat /\ g[s] \in Nat,
         \A s \in S \ {a} : g[s] = f[s]
  PROVE  SumFunctionOnSet(g, S) + f[a] = SumFunctionOnSet(f, S) + g[a]
  <1>1. /\ SumFunctionOnSet(f, S \ {a}) \in Nat
        /\ SumFunctionOnSet(f, S) = f[a] + SumFunctionOnSet(f, S \ {a})
    BY SumWithout
  <1>2. SumFunctionOnSet(g, S) = g[a] + SumFunctionOnSet(g, S \ {a})
    BY SumWithout
  <1>3. SumFunctionOnSet(f, S \ {a}) = SumFunctionOnSet(g, S \ {a})
    <2>1. IsFiniteSet(S \ {a})
      BY FS_Subset
    <2>2. \A s \in S \ {a} : f[s] = g[s]
      OBVIOUS
    <2> QED
      BY <2>1, <2>2, SumSame
  <1> QED
    BY <1>1, <1>2, <1>3
\* One element more.
LEMMA SumWith ==
  ASSUME NEW S, IsFiniteSet(S), NEW f, NEW a, a \notin S,
         \A s \in S \cup {a} : f[s] \in Nat
  PROVE  SumFunctionOnSet(f, S \cup {a}) = f[a] + SumFunctionOnSet(f, S)
  <1> DEFINE T == S \cup {a}
  <1>1. IsFiniteSet(T) /\ a \in T /\ T \ {a} = S
    BY FS_AddElement
  <1>2. \A s \in T : f[s] \in Nat
    OBVIOUS
  <1> HIDE DEF T
  <1>3. SumFunctionOnSet(f, T) = f[a] + SumFunctionOnSet(f, T \ {a})
    BY <1>1, <1>2, SumWithout
  <1> QED
    BY <1>1, <1>3 DEF T

LEMMA SumOne ==
  ASSUME NEW f, NEW a, f[a] \in Nat
  PROVE  SumFunctionOnSet(f, {a}) = f[a]
  <1>1. IsFiniteSet({}) /\ a \notin {} /\ \A s \in {} \cup {a} : f[s] \in Nat
    BY FS_EmptySet
  <1>2. SumFunctionOnSet(f, {} \cup {a}) = f[a] + SumFunctionOnSet(f, {})
    BY <1>1, SumWith
  <1>3. {} \cup {a} = {a}
    OBVIOUS
  <1> QED
    BY <1>2, <1>3, SumEmpty

\* Two sets that have nothing in common.
LEMMA SumUnion ==
  ASSUME NEW S, IsFiniteSet(S), NEW T, IsFiniteSet(T), S \cap T = {},
         NEW f, \A s \in S \cup T : f[s] \in Nat
  PROVE  SumFunctionOnSet(f, S \cup T) =
           SumFunctionOnSet(f, S) + SumFunctionOnSet(f, T)
  <1> DEFINE Sum(U) == SumFunctionOnSet(f, U)
             F == {U \in SUBSET S : Sum(U \cup T) # Sum(U) + Sum(T)}
  <1>1. F = {}
    <2> SUFFICES ASSUME F # {}
                 PROVE  FALSE
      OBVIOUS
    <2>1. PICK m \in F : \A n \in F : n \subseteq m => n = m
      <3>1. F \in SUBSET SUBSET S
        OBVIOUS
      <3> HIDE DEF F
      <3> QED
        BY <3>1, SmallestSet
    <2>2. m \in SUBSET S /\ IsFiniteSet(m) /\ IsFiniteSet(m \cup T)
      <3>1. m \in SUBSET S /\ IsFiniteSet(m)
        BY FS_Subset
      <3> HIDE DEF F
      <3> QED
        BY <3>1, FS_Union
    <2>3. Sum(T) \in Nat
      BY SumType
    <2>4. m # {}
      <3> SUFFICES ASSUME m = {}
                   PROVE  FALSE
        OBVIOUS
      <3>1. m \cup T = T
        OBVIOUS
      <3>2. Sum(m) = 0
        BY SumEmpty
      <3>3. Sum(m \cup T) # Sum(m) + Sum(T)
        BY <2>1
      <3> HIDE DEF Sum, F
      <3>4. Sum(T) # 0 + Sum(T)
        BY <3>1, <3>2, <3>3
      <3> QED
        BY <2>3, <3>4
    <2>5. PICK a \in m : TRUE
      BY <2>4
    <2> DEFINE n == m \ {a}
    <2>6. /\ a \in m \cup T /\ (m \cup T) \ {a} = n \cup T /\ n \in SUBSET S
          /\ IsFiniteSet(n) /\ n # m /\ n \subseteq m
      BY <2>2, <2>5, FS_Subset
    <2>7. /\ Sum(m) = f[a] + Sum(n) /\ Sum(n) \in Nat
          /\ Sum(m \cup T) = f[a] + Sum(n \cup T) /\ f[a] \in Nat
      <3>1. \A s \in m : f[s] \in Nat
        BY <2>2
      <3>2. \A s \in m \cup T : f[s] \in Nat
        BY <2>2
      <3>3. Sum(m) = f[a] + Sum(n) /\ Sum(n) \in Nat
        BY <2>2, <2>5, <3>1, SumWithout
      <3>4. Sum(m \cup T) = f[a] + Sum((m \cup T) \ {a})
        BY <2>2, <2>6, <3>2, SumWithout
      <3> QED
        BY <2>5, <2>6, <3>1, <3>3, <3>4
    <2>8. Sum(n \cup T) = Sum(n) + Sum(T)
      <3>1. n \notin F
        BY <2>1, <2>6
      <3> QED
        BY <2>6, <3>1
    <2>9. Sum(m \cup T) # Sum(m) + Sum(T)
      BY <2>1
    <2> HIDE DEF Sum, n
    <2> QED
      BY <2>3, <2>7, <2>8, <2>9
  <1>2. S \in SUBSET S
    OBVIOUS
  <1> QED
    BY <1>1, <1>2
=============================================================================

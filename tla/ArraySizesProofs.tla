-------------------------- MODULE ArraySizesProofs --------------------------
(***************************************************************************)
(* The capacity of a Vector after any number of push_back.                 *)
(***************************************************************************)
EXTENDS ArraySizes, StackLemmas, Integers, TLAPS

\* The capacity after n push_back, if it was r before the last of them.
After(n, r) == IF n = 0 THEN 2 ELSE IF n = r THEN 2 * r ELSE r

\* g holds the capacities up to n push_back.
UpTo(n, g) == g = [k \in 0..n |-> After(k, g[k - 1])]

\* There is one capacity for each number of push_back.
LEMMA OneCapacity ==
  ASSUME NEW m \in Nat, NEW n \in Nat, NEW g, UpTo(m, g), NEW h, UpTo(n, h)
  PROVE  \A k \in 0..m : k \in 0..n => g[k] = h[k]
  <1> DEFINE Bad == {k \in Nat : k <= m /\ k <= n /\ g[k] # h[k]}
  <1>1. \A k \in 0..m : g[k] = After(k, g[k - 1])
    <2>1. \A k \in 0..m : [i \in 0..m |-> After(i, g[i - 1])][k] = After(k, g[k - 1])
      OBVIOUS
    <2> QED
      BY <2>1 DEF UpTo
  <1>2. \A k \in 0..n : h[k] = After(k, h[k - 1])
    <2>1. \A k \in 0..n : [i \in 0..n |-> After(i, h[i - 1])][k] = After(k, h[k - 1])
      OBVIOUS
    <2> QED
      BY <2>1 DEF UpTo
  <1>3. Bad = {}
    <2> SUFFICES ASSUME Bad # {}
                 PROVE  FALSE
      OBVIOUS
    <2>1. Bad \in SUBSET Nat
      OBVIOUS
    <2>2. PICK k \in Bad : \A j \in Bad : k <= j
      <3> HIDE DEF Bad
      <3> QED
        BY <2>1, LeastNumber
    <2>3. k \in 0..m /\ k \in 0..n /\ g[k] # h[k]
      OBVIOUS
    <2>4. CASE k = 0
      BY <1>1, <1>2, <2>3, <2>4 DEF After
    <2>5. CASE k # 0
      <3>1. k - 1 \in Nat /\ k - 1 <= m /\ k - 1 <= n /\ ~(k <= k - 1)
        BY <2>3, <2>5
      <3>2. k - 1 \notin Bad
        BY <2>2, <3>1
      <3>3. g[k - 1] = h[k - 1]
        BY <3>1, <3>2
      <3> QED
        BY <1>1, <1>2, <2>3, <3>3
    <2> QED
      BY <2>4, <2>5
  <1>4. ASSUME NEW k \in 0..m, k \in 0..n
        PROVE  g[k] = h[k]
    <2>1. k \in Nat /\ k <= m /\ k <= n /\ k \notin Bad
      BY <1>3, <1>4
    <2> QED
      BY <2>1
  <1> QED
    BY <1>4

\* However many push_back, there are capacities for them.
LEMMA SomeCapacity ==
  ASSUME NEW n \in Nat
  PROVE  \E g : UpTo(n, g)
  <1> DEFINE Bad == {k \in Nat : ~\E g : UpTo(k, g)}
  <1>1. \E g : UpTo(0, g)
    <2> DEFINE g == [k \in 0..0 |-> 2]
    <2>1. \A k \in 0..0 : After(k, g[k - 1]) = 2
      BY DEF After
    <2>2. [k \in 0..0 |-> After(k, g[k - 1])] = g
      BY <2>1
    <2> QED
      BY <2>2 DEF UpTo
  <1>2. Bad = {}
    <2> SUFFICES ASSUME Bad # {}
                 PROVE  FALSE
      OBVIOUS
    <2>1. Bad \in SUBSET Nat
      OBVIOUS
    <2>2. PICK m \in Bad : \A j \in Bad : m <= j
      <3> HIDE DEF Bad
      <3> QED
        BY <2>1, LeastNumber
    <2>3. m \in Nat /\ m # 0 /\ ~\E g : UpTo(m, g)
      BY <1>1
    <2>4. m - 1 \in Nat /\ ~(m <= m - 1)
      BY <2>3
    <2>5. m - 1 \notin Bad
      BY <2>2, <2>4
    <2>6. PICK g : UpTo(m - 1, g)
      BY <2>4, <2>5
    <2> DEFINE h == [k \in 0..m |-> IF k = m THEN After(m, g[m - 1]) ELSE g[k]]
    <2>7. \A k \in 0..m - 1 : g[k] = After(k, g[k - 1])
      <3>1. \A k \in 0..m - 1 :
              [i \in 0..m - 1 |-> After(i, g[i - 1])][k] = After(k, g[k - 1])
        OBVIOUS
      <3> QED
        BY <2>6, <3>1 DEF UpTo
    <2>8. \A k \in 0..m : h[k] = IF k = m THEN After(m, g[m - 1]) ELSE g[k]
      OBVIOUS
    <2>9. DOMAIN h = 0..m /\ h = [k \in 0..m |-> h[k]]
      OBVIOUS
    <2> HIDE DEF h
    <2>10. ASSUME NEW k \in 0..m
           PROVE  h[k] = After(k, h[k - 1])
      <3>1. CASE k = 0
        <4>1. k \in 0..m - 1
          BY <2>3, <3>1
        <4>2. h[k] = 2
          BY <2>3, <2>7, <2>8, <3>1, <4>1 DEF After
        <4> QED
          BY <3>1, <4>2 DEF After
      <3>2. CASE k # 0
        <4>1. k - 1 \in 0..m /\ k - 1 # m /\ k - 1 \in 0..m - 1
          BY <2>3, <3>2
        <4>2. h[k - 1] = g[k - 1]
          BY <2>8, <4>1
        <4>3. k # m => k \in 0..m - 1
          BY <2>3
        <4> QED
          BY <2>7, <2>8, <4>2, <4>3
      <3> QED
        BY <3>1, <3>2
    <2>11. UpTo(m, h)
      <3>1. h = [k \in 0..m |-> After(k, h[k - 1])]
        BY <2>9, <2>10
      <3> QED
        BY <3>1 DEF UpTo
    <2> QED
      BY <2>3, <2>11
  <1>3. n \notin Bad
    BY <1>2
  <1> QED
    BY <1>3

\* The definition of Capacity means what it says.
LEMMA CapacityEquation ==
  ASSUME NEW n \in Nat
  PROVE  Capacity[n] = After(n, Capacity[n - 1])
  <1> DEFINE G(k) == CHOOSE g : UpTo(k, g)
             C == [k \in Nat |-> G(k)[k]]
             Step(f) == [k \in Nat |-> After(k, f[k - 1])]
  <1>1. \A k \in Nat : UpTo(k, G(k))
    BY SomeCapacity
  <1> HIDE DEF G
  <1>2. ASSUME NEW k \in Nat
        PROVE  C[k] = After(k, C[k - 1])
    <2>1. UpTo(k, G(k)) /\ C[k] = G(k)[k] /\ k \in 0..k
      BY <1>1
    <2>2. G(k)[k] = After(k, G(k)[k - 1])
      <3>1. [i \in 0..k |-> After(i, G(k)[i - 1])][k] = After(k, G(k)[k - 1])
        BY <2>1
      <3> QED
        BY <2>1, <3>1 DEF UpTo
    <2>3. CASE k = 0
      BY <2>1, <2>2, <2>3 DEF After
    <2>4. CASE k # 0
      <3>1. k - 1 \in Nat /\ k - 1 \in 0..k - 1 /\ k - 1 \in 0..k
        BY <2>4
      <3>2. G(k - 1)[k - 1] = G(k)[k - 1]
        BY <1>1, <2>1, <3>1, OneCapacity
      <3>3. C[k - 1] = G(k - 1)[k - 1]
        BY <3>1
      <3> QED
        BY <2>1, <2>2, <3>2, <3>3
    <2> QED
      BY <2>3, <2>4
  <1>3. C = Step(C)
    <2>1. C = [k \in Nat |-> C[k]]
      OBVIOUS
    <2> HIDE DEF C
    <2> QED
      BY <1>2, <2>1
  <1>4. Capacity = CHOOSE f : f = Step(f)
    BY DEF Capacity, After
  <1> HIDE DEF C
  <1>5. Capacity = Step(Capacity)
    <2> HIDE DEF Step
    <2> QED
      BY <1>3, <1>4
  <1>6. Step(Capacity)[n] = After(n, Capacity[n - 1])
    OBVIOUS
  <1> HIDE DEF Step
  <1> QED
    BY <1>5, <1>6

\* A vector always has room for one more than it holds, and no more than
\* twice as much as it needs.
LEMMA CapacityFacts ==
  ASSUME NEW n \in Nat
  PROVE  Capacity[n] \in Nat /\ Capacity[n] > n /\ Capacity[n] >= 2
         /\ Capacity[n] <= 2 * n + 2
  <1> DEFINE Fine(k) == /\ Capacity[k] \in Nat /\ Capacity[k] > k
                        /\ Capacity[k] >= 2 /\ Capacity[k] <= 2 * k + 2
             Bad == {k \in Nat : ~Fine(k)}
  <1>1. Fine(0)
    BY CapacityEquation DEF After
  <1>2. Bad = {}
    <2> SUFFICES ASSUME Bad # {}
                 PROVE  FALSE
      OBVIOUS
    <2>1. Bad \in SUBSET Nat
      OBVIOUS
    <2>2. PICK k \in Bad : \A j \in Bad : k <= j
      <3> HIDE DEF Bad
      <3> QED
        BY <2>1, LeastNumber
    <2>3. k \in Nat /\ k # 0 /\ ~Fine(k)
      BY <1>1
    <2>4. k - 1 \in Nat /\ ~(k <= k - 1)
      BY <2>3
    <2>5. k - 1 \notin Bad
      BY <2>2, <2>4
    <2>6. Fine(k - 1)
      BY <2>4, <2>5
    <2>7. Capacity[k] = After(k, Capacity[k - 1])
      BY <2>3, CapacityEquation
    <2>8. Fine(k)
      BY <2>3, <2>6, <2>7 DEF After
    <2> QED
      BY <2>3, <2>8
  <1>3. n \notin Bad
    BY <1>2
  <1> QED
    BY <1>3
=============================================================================

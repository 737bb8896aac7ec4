----------------------------- MODULE HeapProofs -----------------------------
(***************************************************************************)
(* What holds of modules Allocator and Vectors for every size of words,    *)
(* headers and pages, every request and every place mmap chooses.          *)
(***************************************************************************)
EXTENDS Vectors, ArraySizesProofs

-----------------------------------------------------------------------------
(***************************************************************************)
(* Pointers that lead somewhere: a recursion along them ends.              *)
(***************************************************************************)

\* The recursion: f follows next as long as it is in G.
Follows(f, D, G, next, value) ==
  f = [c \in D |-> IF c \in G THEN f[next[c]] ELSE value[c]]

\* A function that follows next from every element of G, where a measure
\* goes down, until it is outside G.
LEMMA PointersEnd ==
  ASSUME NEW D, NEW G \in SUBSET D, NEW next, NEW value,
         NEW measure \in [D -> Nat], NEW top \in Nat,
         \A c \in D : measure[c] <= top,
         \A c \in G : next[c] \in D /\ measure[next[c]] < measure[c]
  PROVE  \E f : Follows(f, D, G, next, value)
  <1> DEFINE E(c, f) == IF c \in G THEN f[next[c]] ELSE value[c]
             Right(k, f) == /\ DOMAIN f = D /\ f = [c \in D |-> f[c]]
                            /\ \A c \in D : measure[c] < k => f[c] = E(c, f)
             Bad == {k \in Nat : ~\E f : Right(k, f)}
  <1>1. \E f : Right(0, f)
    <2> DEFINE f == [c \in D |-> value[c]]
    <2>1. Right(0, f)
      OBVIOUS
    <2> QED
      BY <2>1
  <1>2. Bad = {}
    <2> SUFFICES ASSUME Bad # {}
                 PROVE  FALSE
      OBVIOUS
    <2>1. Bad \in SUBSET Nat
      OBVIOUS
    <2>2. PICK k \in Bad : \A j \in Bad : k <= j
      <3> HIDE DEF Bad
      <3> QED
        BY <2>1, LeastNumber
    <2>3. k \in Nat /\ k # 0 /\ ~\E f : Right(k, f)
      <3> HIDE DEF Right
      <3> QED
        BY <1>1
    <2>4. k - 1 \in Nat /\ ~(k <= k - 1)
      BY <2>3
    <2>5. k - 1 \notin Bad
      <3> HIDE DEF Bad
      <3> QED
        BY <2>2, <2>4
    <2>6. PICK g : Right(k - 1, g)
      <3> HIDE DEF Right
      <3> QED
        BY <2>4, <2>5
    <2> DEFINE f == [c \in D |-> IF measure[c] = k - 1 THEN E(c, g) ELSE g[c]]
    <2>7. DOMAIN f = D /\ f = [c \in D |-> f[c]]
      OBVIOUS
    <2>8. ASSUME NEW c \in D, measure[c] < k
          PROVE  f[c] = E(c, f)
      <3>1. measure[c] \in Nat /\ (measure[c] = k - 1 \/ measure[c] < k - 1)
        BY <2>3, <2>8
      <3>2. f[c] = E(c, g)
        BY <2>6, <3>1
      <3>3. c \in G => f[next[c]] = g[next[c]]
        <4>1. c \in G => next[c] \in D /\ measure[next[c]] # k - 1
          BY <2>3, <3>1
        <4> QED
          BY <4>1
      <3> QED
        BY <3>2, <3>3
    <2>9. Right(k, f)
      <3> HIDE DEF f
      <3> QED
        BY <2>7, <2>8
    <2> QED
      <3> HIDE DEF Right
      <3> QED
        BY <2>3, <2>9
  <1>3. top + 1 \notin Bad
    BY <1>2
  <1>4. PICK f : Right(top + 1, f)
    <2> HIDE DEF Right
    <2> QED
      BY <1>3
  <1>5. \A c \in D : f[c] = E(c, f)
    BY <1>4
  <1>6. f = [c \in D |-> E(c, f)]
    BY <1>4, <1>5
  <1> QED
    BY <1>6 DEF Follows

-----------------------------------------------------------------------------
(***************************************************************************)
(* The free list as an order: n is the first element of S behind b, p the  *)
(* last one before b, and 0 stands for none.                               *)
(***************************************************************************)
IsNext(S, b, n) ==
  /\ n \in S \cup {0} /\ (n # 0 => b < n)
  /\ \A c \in S : b < c => n # 0 /\ n <= c
IsPrev(S, b, p) ==
  /\ p \in S \cup {0} /\ p < b
  /\ \A c \in S : c < b => c <= p

\* A new element takes its place between its neighbours.
LEMMA InsertOrder ==
  ASSUME NEW S \in SUBSET (Nat \ {0}), NEW b \in Nat \ {0}, b \notin S,
         NEW prev, IsPrev(S, b, prev), NEW next, IsNext(S, b, next)
  PROVE  /\ IsNext(S \cup {b}, b, next) /\ IsPrev(S \cup {b}, b, prev)
         /\ \A c \in S \cup {0} : \A n : IsNext(S, c, n) =>
              IsNext(S \cup {b}, c, IF c = prev THEN b ELSE n)
         /\ \A c \in S : \A p : IsPrev(S, c, p) =>
              IsPrev(S \cup {b}, c, IF c = next THEN b ELSE p)
  <1>1. IsNext(S \cup {b}, b, next) /\ IsPrev(S \cup {b}, b, prev)
    BY DEF IsNext, IsPrev
  <1>2. /\ prev \in Nat /\ prev < b /\ \A c \in S : c < b => c <= prev
        /\ prev \in S \cup {0} /\ next \in S \cup {0} /\ next \in Nat
        /\ next # 0 => b < next
        /\ \A c \in S : b < c => next # 0 /\ next <= c
    BY DEF IsNext, IsPrev
  <1>3. ASSUME NEW c \in S \cup {0}, NEW n, IsNext(S, c, n)
        PROVE  IsNext(S \cup {b}, c, IF c = prev THEN b ELSE n)
    <2>1. /\ n \in S \cup {0} /\ n \in Nat /\ c \in Nat /\ (n # 0 => c < n)
          /\ \A d \in S : c < d => n # 0 /\ n <= d
      BY <1>3 DEF IsNext
    <2>2. CASE c = prev
      <3>1. \A d \in S \cup {b} : c < d => b <= d
        BY <1>2, <2>2
      <3> QED
        BY <1>2, <2>2, <3>1 DEF IsNext
    <2>3. CASE c # prev
      <3>1. c < b => n # 0 /\ n <= b
        BY <1>2, <2>1, <2>3
      <3> QED
        BY <2>1, <2>3, <3>1 DEF IsNext
    <2> QED
      BY <2>2, <2>3
  <1>4. ASSUME NEW c \in S, NEW p, IsPrev(S, c, p)
        PROVE  IsPrev(S \cup {b}, c, IF c = next THEN b ELSE p)
    <2>1. /\ p \in S \cup {0} /\ p \in Nat /\ c \in Nat /\ p < c
          /\ \A d \in S : d < c => d <= p
      BY <1>4 DEF IsPrev
    <2>2. CASE c = next
      <3>1. \A d \in S \cup {b} : d < c => d <= b
        BY <1>2, <2>2
      <3> QED
        BY <1>2, <2>1, <2>2, <3>1 DEF IsPrev
    <2>3. CASE c # next
      <3>1. b < c => b <= p
        <4>1. ASSUME b < c
              PROVE  b <= p
          <5>1. next \in S /\ next < c /\ b < next
            BY <1>2, <2>1, <2>3, <4>1
          <5> QED
            BY <1>2, <2>1, <5>1
        <4> QED
          BY <4>1
      <3> QED
        BY <2>1, <2>3, <3>1 DEF IsPrev
    <2> QED
      BY <2>2, <2>3
  <1> QED
    BY <1>1, <1>3, <1>4

\* An element that goes leaves its neighbours next to one another.
LEMMA RemoveOrder ==
  ASSUME NEW S \in SUBSET (Nat \ {0}), NEW b \in S,
         NEW prev, IsPrev(S, b, prev), NEW next, IsNext(S, b, next)
  PROVE  /\ \A c \in (S \ {b}) \cup {0} : \A n : IsNext(S, c, n) =>
              IsNext(S \ {b}, c, IF c = prev THEN next ELSE n)
         /\ \A c \in S \ {b} : \A p : IsPrev(S, c, p) =>
              IsPrev(S \ {b}, c, IF c = next THEN prev ELSE p)
  <1>1. /\ prev \in Nat /\ prev < b /\ \A c \in S : c < b => c <= prev
        /\ prev \in S \cup {0} /\ next \in S \cup {0} /\ next \in Nat
        /\ next # 0 => b < next
        /\ \A c \in S : b < c => next # 0 /\ next <= c
        /\ b \in Nat
    BY DEF IsNext, IsPrev
  <1>2. ASSUME NEW c \in (S \ {b}) \cup {0}, NEW n, IsNext(S, c, n)
        PROVE  IsNext(S \ {b}, c, IF c = prev THEN next ELSE n)
    <2>1. /\ n \in S \cup {0} /\ n \in Nat /\ c \in Nat /\ (n # 0 => c < n)
          /\ \A d \in S : c < d => n # 0 /\ n <= d
      BY <1>2 DEF IsNext
    <2>2. CASE c = prev
      <3>1. \A d \in S \ {b} : c < d => b < d
        <4>1. ASSUME NEW d \in S \ {b}, c < d
              PROVE  b < d
          <5>1. d \in Nat /\ d # b
            OBVIOUS
          <5>2. ~(d < b)
            BY <1>1, <2>1, <2>2, <4>1, <5>1
          <5> QED
            BY <1>1, <5>1, <5>2
        <4> QED
          BY <4>1
      <3>2. next \in (S \ {b}) \cup {0} /\ (next # 0 => c < next)
        BY <1>1, <2>1, <2>2
      <3>3. IsNext(S \ {b}, c, next)
        BY <1>1, <3>1, <3>2 DEF IsNext
      <3> QED
        BY <2>2, <3>3
    <2>3. CASE c # prev
      <3>1. n # b
        <4> SUFFICES ASSUME n = b
                     PROVE  FALSE
          OBVIOUS
        <4>1. c < b /\ c <= prev
          BY <1>1, <2>1
        <4>2. prev \in S /\ c < prev
          BY <1>1, <2>1, <2>3, <4>1
        <4>3. b <= prev
          BY <2>1, <4>2
        <4> QED
          BY <1>1, <4>3
      <3> QED
        BY <2>1, <2>3, <3>1 DEF IsNext
    <2> QED
      BY <2>2, <2>3
  <1>3. ASSUME NEW c \in S \ {b}, NEW p, IsPrev(S, c, p)
        PROVE  IsPrev(S \ {b}, c, IF c = next THEN prev ELSE p)
    <2>1. /\ p \in S \cup {0} /\ p \in Nat /\ c \in Nat /\ p < c /\ c \in S
          /\ \A d \in S : d < c => d <= p
      BY <1>3 DEF IsPrev
    <2>2. CASE c = next
      <3>1. \A d \in S \ {b} : d < c => d < b
        <4>1. ASSUME NEW d \in S \ {b}, d < c
              PROVE  d < b
          <5>1. d \in Nat /\ d # b
            OBVIOUS
          <5>2. ~(b < d)
            BY <1>1, <2>1, <2>2, <4>1, <5>1
          <5> QED
            BY <1>1, <5>1, <5>2
        <4> QED
          BY <4>1
      <3>2. prev \in (S \ {b}) \cup {0} /\ prev < c
        <4>1. c # 0
          BY <2>1
        <4>2. b < c
          BY <1>1, <2>2, <4>1
        <4> QED
          BY <1>1, <2>1, <4>2
      <3>3. \A d \in S \ {b} : d < c => d <= prev
        BY <1>1, <3>1
      <3>4. IsPrev(S \ {b}, c, prev)
        BY <3>2, <3>3 DEF IsPrev
      <3> QED
        BY <2>2, <3>4
    <2>3. CASE c # next
      <3>1. p # b
        <4> SUFFICES ASSUME p = b
                     PROVE  FALSE
          OBVIOUS
        <4>1. next # 0 /\ next \in S /\ next < c /\ b < next
          BY <1>1, <2>1, <2>3
        <4>2. next <= b
          BY <2>1, <4>1
        <4> QED
          BY <1>1, <4>1, <4>2
      <3> QED
        BY <2>1, <2>3, <3>1 DEF IsPrev
    <2> QED
      BY <2>2, <2>3
  <1> QED
    BY <1>2, <1>3

\* There is one next and one previous element.
LEMMA OneNext ==
  ASSUME NEW S \in SUBSET (Nat \ {0}), NEW b \in Nat,
         NEW m, IsNext(S, b, m), NEW n, IsNext(S, b, n)
  PROVE  m = n
  <1>1. m \in Nat /\ n \in Nat
    BY DEF IsNext
  <1>2. m # 0 => m \in S /\ b < m
    BY DEF IsNext
  <1>3. n # 0 => n \in S /\ b < n
    BY DEF IsNext
  <1>4. m # 0 => n # 0 /\ n <= m
    BY <1>2 DEF IsNext
  <1>5. n # 0 => m # 0 /\ m <= n
    BY <1>3 DEF IsNext
  <1> QED
    BY <1>1, <1>4, <1>5
-----------------------------------------------------------------------------
(***************************************************************************)
(* The headers.                                                            *)
(***************************************************************************)
Headers(D) ==
  [capacity : Nat, next_mem : D \cup {0}, next_sto : D \cup {0},
   prev_sto : D \cup {0}]

HeapType(h) ==
  LET D == DOMAIN h.hdr
  IN  /\ D \subseteq Nat \ {0}
      /\ h \in [hdr : [D -> Headers(D)], blocks : D \cup {0},
                last : D \cup {0}, free : D \cup {0}]
      /\ \E top \in Nat : \A b \in D : b <= top

\* S is the free list of h.
Listed(h, S) ==
  /\ S \subseteq DOMAIN h.hdr
  /\ IsNext(S, 0, h.free)
  /\ \A b \in S : /\ IsNext(S, b, h.hdr[b].next_sto)
                  /\ IsPrev(S, b, h.hdr[b].prev_sto)
  /\ \A b \in DOMAIN h.hdr \ S : h.hdr[b].next_sto = 0 /\ h.hdr[b].prev_sto = 0

\* Headers k and l tell the same of the blocks and differ in the list at most.
SameBlocks(k, l) ==
  /\ DOMAIN k = DOMAIN l
  /\ \A c \in DOMAIN l : /\ k[c].capacity = l[c].capacity
                         /\ k[c].next_mem = l[c].next_mem

LEMMA PutFacts ==
  ASSUME NEW f, NEW a, NEW b
  PROVE  /\ DOMAIN Put(f, a, b) = DOMAIN f \cup {a}
         /\ Put(f, a, b)[a] = b
         /\ \A c \in DOMAIN f : c # a => Put(f, a, b)[c] = f[c]
  BY DEF Put

\* Headers k are hdr where b, if there is one, points back to p.
PrevSet(k, hdr, D, E, b, p) ==
  /\ k \in [D -> Headers(E)] /\ SameBlocks(k, hdr)
  /\ \A c \in D : /\ k[c].next_sto = hdr[c].next_sto
                  /\ k[c].prev_sto = IF c = b THEN p ELSE hdr[c].prev_sto

LEMMA SetPrevFacts ==
  ASSUME NEW D, 0 \notin D, NEW E, NEW hdr \in [D -> Headers(E)],
         NEW b \in D \cup {0}, NEW p \in E \cup {0},
         NEW k, k = SetPrev(hdr, b, p)
  PROVE  PrevSet(k, hdr, D, E, b, p)
  BY DEF SetPrev, Headers, SameBlocks, PrevSet

\* Headers k are hdr where b points to n.
NextSet(k, hdr, D, E, b, n) ==
  /\ k \in [D -> Headers(E)] /\ SameBlocks(k, hdr)
  /\ \A c \in D : /\ k[c].next_sto = IF c = b THEN n ELSE hdr[c].next_sto
                  /\ k[c].prev_sto = hdr[c].prev_sto

LEMMA SetNextFacts ==
  ASSUME NEW D, NEW E, NEW hdr \in [D -> Headers(E)], NEW b \in D,
         NEW n \in E \cup {0}, NEW k, k = [hdr EXCEPT ![b].next_sto = n]
  PROVE  NextSet(k, hdr, D, E, b, n)
  BY DEF Headers, SameBlocks, NextSet

\* Headers k are hdr where b points to n and p.
LinksSet(k, hdr, D, E, b, n, p) ==
  /\ k \in [D -> Headers(E)] /\ SameBlocks(k, hdr)
  /\ \A c \in D : /\ k[c].next_sto = IF c = b THEN n ELSE hdr[c].next_sto
                  /\ k[c].prev_sto = IF c = b THEN p ELSE hdr[c].prev_sto

LEMMA SetLinksFacts ==
  ASSUME NEW D, NEW E, NEW hdr \in [D -> Headers(E)], NEW b \in D,
         NEW n \in E \cup {0}, NEW p \in E \cup {0}, NEW k,
         \/ k = [hdr EXCEPT ![b].next_sto = n, ![b].prev_sto = p]
         \/ k = [hdr EXCEPT ![b].prev_sto = p, ![b].next_sto = n]
  PROVE  LinksSet(k, hdr, D, E, b, n, p)
  <1> DEFINE new == [hdr[b] EXCEPT !.next_sto = n, !.prev_sto = p]
  <1>1. /\ new \in Headers(E) /\ new.next_sto = n /\ new.prev_sto = p
        /\ new.capacity = hdr[b].capacity /\ new.next_mem = hdr[b].next_mem
        /\ new = [hdr[b] EXCEPT !.prev_sto = p, !.next_sto = n]
    BY ZenonT(30) DEF Headers
  <1>2. k = [hdr EXCEPT ![b] = new]
    <2>1. CASE k = [hdr EXCEPT ![b].next_sto = n, ![b].prev_sto = p]
      BY <2>1
    <2>2. CASE k = [hdr EXCEPT ![b].prev_sto = p, ![b].next_sto = n]
      BY <1>1, <2>2
    <2> QED
      BY <2>1, <2>2
  <1> HIDE DEF new
  <1> QED
    BY <1>1, <1>2 DEF SameBlocks, LinksSet

\* What a member of the free list points to.
LEMMA ListFacts ==
  ASSUME NEW h, HeapType(h), NEW S, Listed(h, S), NEW c \in S
  PROVE  LET n == h.hdr[c].next_sto
             p == h.hdr[c].prev_sto
         IN  /\ S \in SUBSET (Nat \ {0}) /\ c \in Nat \ {0} /\ c \in DOMAIN h.hdr
             /\ n \in S \cup {0} /\ (n # 0 => c < n) /\ n \in Nat
             /\ \A d \in S : c < d => n # 0 /\ n <= d
             /\ p \in S \cup {0} /\ p < c /\ p \in Nat
  BY DEF HeapType, Listed, IsNext, IsPrev

\* The loop of store_free_block stops at the last free block before b.
WalkTo(h, b, W) ==
  \A c \in DOMAIN h.hdr :
    W[c] = IF h.hdr[c].next_sto # 0 /\ h.hdr[c].next_sto < b
             THEN W[h.hdr[c].next_sto] ELSE c

LEMMA WalkExists ==
  ASSUME NEW h, HeapType(h), NEW S, Listed(h, S), NEW b \in Nat
  PROVE  \E W : W = [c \in DOMAIN h.hdr |->
                       IF h.hdr[c].next_sto # 0 /\ h.hdr[c].next_sto < b
                         THEN W[h.hdr[c].next_sto] ELSE c]
  <1> DEFINE D == DOMAIN h.hdr
             next == [c \in D |-> h.hdr[c].next_sto]
             G == {c \in D : next[c] # 0 /\ next[c] < b}
             value == [c \in D |-> c]
  <1>1. PICK top \in Nat : \A c \in D : c <= top
    BY DEF HeapType
  <1> DEFINE measure == [c \in D |-> top - c]
  <1>2. D \subseteq Nat \ {0}
    BY DEF HeapType
  <1>3. measure \in [D -> Nat] /\ \A c \in D : measure[c] <= top
    BY <1>1, <1>2
  <1>4. ASSUME NEW c \in G
        PROVE  next[c] \in D /\ measure[next[c]] < measure[c]
    <2>1. c \in S
      BY DEF Listed
    <2>2. next[c] \in S /\ c < next[c] /\ next[c] \in D /\ c \in D
      BY <2>1, ListFacts, SMTT(30) DEF Listed
    <2>3. measure[c] = top - c /\ measure[next[c]] = top - next[c]
      BY <2>2
    <2>4. c \in Nat /\ next[c] \in Nat
      BY <1>2, <2>2
    <2> QED
      BY <2>2, <2>3, <2>4
  <1>5. G \in SUBSET D
    OBVIOUS
  <1> HIDE DEF D, G, next, measure, value
  <1>6. PICK W : Follows(W, D, G, next, value)
    BY <1>3, <1>4, <1>5, PointersEnd
  <1>7. \A c \in D : (IF c \in G THEN W[next[c]] ELSE value[c]) =
                     (IF h.hdr[c].next_sto # 0 /\ h.hdr[c].next_sto < b
                        THEN W[h.hdr[c].next_sto] ELSE c)
    BY DEF D, G, next, value
  <1> QED
    BY <1>6, <1>7 DEF D, Follows

LEMMA WalkStops ==
  ASSUME NEW h, HeapType(h), NEW S, Listed(h, S), NEW b \in Nat,
         NEW W, WalkTo(h, b, W), NEW c \in S, c < b
  PROVE  /\ W[c] \in S /\ W[c] < b
         /\ h.hdr[W[c]].next_sto = 0 \/ b <= h.hdr[W[c]].next_sto
  <1> DEFINE Fine(d) == /\ W[d] \in S /\ W[d] < b
                        /\ h.hdr[W[d]].next_sto = 0 \/ b <= h.hdr[W[d]].next_sto
             Bad == {k \in Nat : \E d \in S : d < b /\ b - d = k /\ ~Fine(d)}
  <1>1. S \subseteq Nat
    BY DEF HeapType, Listed
  <1>2. Bad = {}
    <2> SUFFICES ASSUME Bad # {}
                 PROVE  FALSE
      OBVIOUS
    <2>1. Bad \in SUBSET Nat
      OBVIOUS
    <2>2. PICK k \in Bad : \A j \in Bad : k <= j
      <3> HIDE DEF Bad
      <3> QED
        BY <2>1, LeastNumber
    <2>3. PICK d \in S : d < b /\ b - d = k /\ ~Fine(d)
      OBVIOUS
    <2> DEFINE n == h.hdr[d].next_sto
    <2>4. d \in DOMAIN h.hdr /\ d \in Nat /\ n \in Nat
      BY ListFacts
    <2>5. W[d] = IF n # 0 /\ n < b THEN W[n] ELSE d
      BY <2>4 DEF WalkTo
    <2>6. CASE n # 0 /\ n < b
      <3>1. n \in S /\ d < n
        BY <2>6, ListFacts
      <3>2. b - n \in Nat /\ ~(k <= b - n)
        BY <2>3, <2>4, <2>6, <3>1
      <3>3. b - n \notin Bad
        <4> HIDE DEF Bad
        <4> QED
          BY <2>2, <3>2
      <3>4. Fine(n)
        BY <2>6, <3>1, <3>2, <3>3
      <3>5. Fine(d)
        BY <2>5, <2>6, <3>4
      <3> QED
        BY <2>3, <3>5
    <2>7. CASE ~(n # 0 /\ n < b)
      <3>1. Fine(d)
        BY <2>3, <2>4, <2>5, <2>7
      <3> QED
        BY <2>3, <3>1
    <2> QED
      BY <2>6, <2>7
  <1>3. b - c \in Nat /\ b - c \notin Bad
    BY <1>1, <1>2
  <1>4. Fine(c)
    BY <1>3
  <1> QED
    BY <1>4

\* Heap k is h with b taken in between prev and next.
Spliced(k, h, b, prev, next) ==
  /\ DOMAIN k.hdr = DOMAIN h.hdr \cup {b}
  /\ k.free = IF prev = 0 THEN b ELSE h.free
  /\ \A c \in DOMAIN k.hdr :
       /\ k.hdr[c].next_sto = IF c = b THEN next
                              ELSE IF c = prev THEN b ELSE h.hdr[c].next_sto
       /\ k.hdr[c].prev_sto = IF c = b THEN prev
                              ELSE IF c = next THEN b ELSE h.hdr[c].prev_sto

\* Heap k is h with b taken out from between prev and next.
Unspliced(k, h, b, prev, next) ==
  /\ DOMAIN k.hdr = DOMAIN h.hdr
  /\ k.free = IF prev = 0 THEN next ELSE h.free
  /\ \A c \in DOMAIN k.hdr :
       /\ k.hdr[c].next_sto = IF c = b THEN 0
                              ELSE IF c = prev THEN next ELSE h.hdr[c].next_sto
       /\ k.hdr[c].prev_sto = IF c = b THEN 0
                              ELSE IF c = next THEN prev ELSE h.hdr[c].prev_sto

LEMMA SpliceLists ==
  ASSUME NEW h, HeapType(h), NEW S, Listed(h, S), NEW b \in Nat \ {0},
         b \notin S, NEW prev, IsPrev(S, b, prev),
         NEW next, IsNext(S, b, next), NEW k, Spliced(k, h, b, prev, next)
  PROVE  Listed(k, S \cup {b})
  <1>1. S \in SUBSET (Nat \ {0}) /\ S \subseteq DOMAIN h.hdr
    BY DEF HeapType, Listed
  <1>2. /\ IsNext(S \cup {b}, b, next) /\ IsPrev(S \cup {b}, b, prev)
        /\ \A c \in S \cup {0} : \A n : IsNext(S, c, n) =>
             IsNext(S \cup {b}, c, IF c = prev THEN b ELSE n)
        /\ \A c \in S : \A p : IsPrev(S, c, p) =>
             IsPrev(S \cup {b}, c, IF c = next THEN b ELSE p)
    BY <1>1, InsertOrder
  <1>3. prev \in S \cup {0} /\ next \in S \cup {0}
    BY DEF IsNext, IsPrev
  <1>4. IsNext(S \cup {b}, 0, k.free)
    <2>1. IsNext(S \cup {b}, 0, IF 0 = prev THEN b ELSE h.free)
      BY <1>2 DEF Listed
    <2> QED
      BY <2>1 DEF Spliced
  <1>5. ASSUME NEW c \in S \cup {b}
        PROVE  /\ IsNext(S \cup {b}, c, k.hdr[c].next_sto)
               /\ IsPrev(S \cup {b}, c, k.hdr[c].prev_sto)
    <2>1. CASE c = b
      BY <1>2, <2>1 DEF Spliced
    <2>2. CASE c # b
      <3>1. c \in S /\ c \in DOMAIN k.hdr
        BY <1>1, <2>2 DEF Spliced
      <3>2. /\ IsNext(S, c, h.hdr[c].next_sto)
            /\ IsPrev(S, c, h.hdr[c].prev_sto)
        BY <3>1 DEF Listed
      <3>3. /\ IsNext(S \cup {b}, c, IF c = prev THEN b ELSE h.hdr[c].next_sto)
            /\ IsPrev(S \cup {b}, c, IF c = next THEN b ELSE h.hdr[c].prev_sto)
        BY <1>2, <3>1, <3>2
      <3> QED
        BY <2>2, <3>1, <3>3 DEF Spliced
    <2> QED
      BY <2>1, <2>2
  <1>6. ASSUME NEW c \in DOMAIN k.hdr \ (S \cup {b})
        PROVE  k.hdr[c].next_sto = 0 /\ k.hdr[c].prev_sto = 0
    <2>1. c \in DOMAIN h.hdr \ S /\ c # b /\ c # 0
      BY DEF Spliced, HeapType
    <2>2. h.hdr[c].next_sto = 0 /\ h.hdr[c].prev_sto = 0
      BY <2>1 DEF Listed
    <2>3. c # prev /\ c # next
      BY <1>3, <2>1
    <2> QED
      BY <2>1, <2>2, <2>3 DEF Spliced
  <1>7. S \cup {b} \subseteq DOMAIN k.hdr
    BY <1>1 DEF Spliced
  <1> QED
    BY <1>4, <1>5, <1>6, <1>7 DEF Listed

LEMMA UnspliceLists ==
  ASSUME NEW h, HeapType(h), NEW S, Listed(h, S), NEW b \in S,
         NEW prev, prev = h.hdr[b].prev_sto,
         NEW next, next = h.hdr[b].next_sto,
         NEW k, Unspliced(k, h, b, prev, next)
  PROVE  Listed(k, S \ {b})
  <1>1. S \in SUBSET (Nat \ {0}) /\ S \subseteq DOMAIN h.hdr
    BY DEF HeapType, Listed
  <1>2. IsPrev(S, b, prev) /\ IsNext(S, b, next)
    BY DEF Listed
  <1>3. /\ \A c \in (S \ {b}) \cup {0} : \A n : IsNext(S, c, n) =>
             IsNext(S \ {b}, c, IF c = prev THEN next ELSE n)
        /\ \A c \in S \ {b} : \A p : IsPrev(S, c, p) =>
             IsPrev(S \ {b}, c, IF c = next THEN prev ELSE p)
    BY <1>1, <1>2, RemoveOrder
  <1>4. prev \in S \cup {0} /\ next \in S \cup {0}
    BY <1>2 DEF IsNext, IsPrev
  <1>5. IsNext(S \ {b}, 0, k.free)
    <2>1. IsNext(S \ {b}, 0, IF 0 = prev THEN next ELSE h.free)
      BY <1>3 DEF Listed
    <2> QED
      BY <2>1 DEF Unspliced
  <1>6. ASSUME NEW c \in S \ {b}
        PROVE  /\ IsNext(S \ {b}, c, k.hdr[c].next_sto)
               /\ IsPrev(S \ {b}, c, k.hdr[c].prev_sto)
    <2>1. c \in DOMAIN k.hdr
      BY <1>1 DEF Unspliced
    <2>2. /\ IsNext(S, c, h.hdr[c].next_sto)
          /\ IsPrev(S, c, h.hdr[c].prev_sto)
      BY DEF Listed
    <2>3. /\ IsNext(S \ {b}, c, IF c = prev THEN next ELSE h.hdr[c].next_sto)
          /\ IsPrev(S \ {b}, c, IF c = next THEN prev ELSE h.hdr[c].prev_sto)
      BY <1>3, <2>2
    <2> QED
      BY <2>1, <2>3 DEF Unspliced
  <1>7. ASSUME NEW c \in DOMAIN k.hdr \ (S \ {b})
        PROVE  k.hdr[c].next_sto = 0 /\ k.hdr[c].prev_sto = 0
    <2>1. CASE c = b
      BY <2>1 DEF Unspliced
    <2>2. CASE c # b
      <3>1. c \in DOMAIN h.hdr \ S /\ c # 0
        BY <2>2 DEF Unspliced, HeapType
      <3>2. h.hdr[c].next_sto = 0 /\ h.hdr[c].prev_sto = 0
        BY <3>1 DEF Listed
      <3>3. c # prev /\ c # next
        BY <1>4, <3>1
      <3> QED
        BY <2>2, <3>1, <3>2, <3>3 DEF Unspliced
    <2> QED
      BY <2>1, <2>2
  <1>8. S \ {b} \subseteq DOMAIN k.hdr
    BY <1>1 DEF Unspliced
  <1> QED
    BY <1>5, <1>6, <1>7, <1>8 DEF Listed

\* store_free_block puts the block where it belongs, and moves nothing else.
LEMMA StoreFacts ==
  ASSUME NEW h, HeapType(h), NEW S, Listed(h, S), NEW b \in DOMAIN h.hdr,
         b \notin S, NEW k, k = store_free_block(h, b)
  PROVE  /\ HeapType(k) /\ Listed(k, S \cup {b}) /\ SameBlocks(k.hdr, h.hdr)
         /\ k.blocks = h.blocks /\ k.last = h.last
  <1> DEFINE Walk[c \in DOMAIN h.hdr] ==
               LET n == h.hdr[c].next_sto
               IN  IF n # 0 /\ n < b THEN Walk[n] ELSE c
             front == h.free = 0 \/ b < h.free
             prev == IF front THEN 0 ELSE Walk[h.free]
             next == IF front THEN h.free ELSE h.hdr[prev].next_sto
             D == DOMAIN h.hdr
             linked == [h.hdr EXCEPT ![b].next_sto = next, ![b].prev_sto = prev]
             stored == SetPrev(linked, next, b)
  <1>1. /\ D \subseteq Nat \ {0} /\ b \in Nat \ {0} /\ h.free \in D \cup {0}
        /\ h.hdr \in [D -> Headers(D)] /\ S \subseteq D
    BY DEF HeapType, Listed
  <1>2. WalkTo(h, b, Walk)
    <2>1. \E W : W = [c \in D |->
                        IF h.hdr[c].next_sto # 0 /\ h.hdr[c].next_sto < b
                          THEN W[h.hdr[c].next_sto] ELSE c]
      BY <1>1, WalkExists, SMTT(30)
    <2>2. Walk = [c \in D |-> IF h.hdr[c].next_sto # 0 /\ h.hdr[c].next_sto < b
                                THEN Walk[h.hdr[c].next_sto] ELSE c]
      BY <2>1
    <2> HIDE DEF Walk
    <2> QED
      BY <2>2 DEF WalkTo
  <1>3. /\ h.free # 0 => h.free \in S
        /\ \A c \in S : h.free # 0 /\ h.free <= c
    <2>1. IsNext(S, 0, h.free)
      BY DEF Listed
    <2> QED
      BY <1>1, <2>1 DEF IsNext
  <1>4. /\ IsPrev(S, b, prev) /\ IsNext(S, b, next)
        /\ ~front => prev \in S
    <2> HIDE DEF Walk
    <2>1. CASE front
      <3>1. \A c \in S : b < c
        <4>1. ASSUME NEW c \in S
              PROVE  b < c
          BY <1>1, <1>3, <2>1
        <4> QED
          BY <4>1
      <3>2. h.free \in S \cup {0} /\ (h.free # 0 => b < h.free)
        BY <1>3, <2>1
      <3>3. IsPrev(S, b, 0)
        BY <1>1, <3>1 DEF IsPrev
      <3>4. IsNext(S, b, h.free)
        BY <1>3, <3>2 DEF IsNext
      <3> QED
        BY <2>1, <3>3, <3>4
    <2>2. CASE ~front
      <3>1. h.free \in S /\ h.free \in Nat /\ ~(b < h.free) /\ h.free # b
        BY <1>1, <1>3, <2>2
      <3>2. h.free < b
        BY <1>1, <3>1
      <3>3. PICK p : p = Walk[h.free]
        OBVIOUS
      <3>4. p \in S /\ p < b /\ (h.hdr[p].next_sto = 0 \/ b <= h.hdr[p].next_sto)
        BY <1>1, <1>2, <3>1, <3>2, <3>3, WalkStops
      <3>5. PICK n : n = h.hdr[p].next_sto
        OBVIOUS
      <3>6. /\ n \in S \cup {0} /\ n \in Nat /\ p \in Nat
            /\ \A d \in S : p < d => n # 0 /\ n <= d
        BY <3>4, <3>5, ListFacts
      <3>7. n # 0 => b < n
        <4>1. n # 0 => n # b /\ b <= n
          BY <3>4, <3>5, <3>6
        <4> QED
          BY <1>1, <3>6, <4>1
      <3>8. \A d \in S : b < d => n # 0 /\ n <= d
        <4>1. ASSUME NEW d \in S, b < d
              PROVE  p < d
          BY <1>1, <3>4, <3>6, <4>1
        <4> QED
          BY <3>6, <4>1
      <3>9. \A d \in S : d < b => d <= p
        <4>1. ASSUME NEW d \in S, d < b, ~(d <= p)
              PROVE  FALSE
          <5>1. d \in Nat /\ p < d
            BY <1>1, <3>6, <4>1
          <5>2. n # 0 /\ n <= d
            BY <3>6, <5>1
          <5> QED
            BY <1>1, <3>6, <3>7, <4>1, <5>1, <5>2
        <4> QED
          BY <4>1
      <3>10. IsPrev(S, b, p) /\ IsNext(S, b, n)
        BY <3>4, <3>6, <3>7, <3>8, <3>9, SMTT(30) DEF IsPrev, IsNext
      <3> QED
        BY <2>2, <3>3, <3>4, <3>5, <3>10
    <2> QED
      BY <2>1, <2>2
  <1>5. k = IF front THEN [h EXCEPT !.free = b, !.hdr = stored]
            ELSE [h EXCEPT !.hdr = [stored EXCEPT ![prev].next_sto = b]]
    BY DEF store_free_block
  <1>6. front <=> prev = 0
    <2>1. front => prev = 0
      OBVIOUS
    <2> HIDE DEF prev, front
    <2> QED
      BY <1>1, <1>4, <2>1
  <1> HIDE DEF Walk, front, prev, next, linked, stored
  <1>7. PICK hdr : hdr = h.hdr
    OBVIOUS
  <1>8. PICK p : p = prev
    OBVIOUS
  <1>9. PICK n : n = next
    OBVIOUS
  <1>10. PICK l : l = linked
    OBVIOUS
  <1>11. PICK s : s = SetPrev(l, n, b)
    OBVIOUS
  <1>12. /\ IsPrev(S, b, p) /\ IsNext(S, b, n)
        /\ l = [hdr EXCEPT ![b].next_sto = n, ![b].prev_sto = p]
        /\ k = IF p = 0 THEN [h EXCEPT !.free = b, !.hdr = s]
                ELSE [h EXCEPT !.hdr = [s EXCEPT ![p].next_sto = b]]
    BY <1>4, <1>5, <1>6, <1>8, <1>9, <1>10, <1>11, <1>7 DEF linked, stored
  <1>13. p \in D \cup {0} /\ n \in D \cup {0} /\ p # b /\ n # b
    BY <1>1, <1>12 DEF IsPrev, IsNext
  <1>14. /\ l \in [D -> Headers(D)] /\ SameBlocks(l, h.hdr)
        /\ \A c \in D :
             /\ l[c].next_sto = IF c = b THEN n ELSE h.hdr[c].next_sto
             /\ l[c].prev_sto = IF c = b THEN p ELSE h.hdr[c].prev_sto
    <2>1. hdr \in [D -> Headers(D)] /\ b \in D
      BY <1>1, <1>7
    <2> HIDE DEF D
    <2>2. LinksSet(l, hdr, D, D, b, n, p)
      BY <1>12, <1>13, <2>1, SetLinksFacts
    <2> QED
      BY <1>7, <2>2 DEF LinksSet
  <1>15. /\ s \in [D -> Headers(D)] /\ SameBlocks(s, l)
         /\ \A c \in D :
              /\ s[c].next_sto = l[c].next_sto
              /\ s[c].prev_sto = IF c = n THEN b ELSE l[c].prev_sto
    <2>1. 0 \notin D /\ b \in D \cup {0}
      BY <1>1
    <2> QED
      BY <1>11, <1>13, <1>14, <2>1, SetPrevFacts DEF PrevSet
  <1>16. PICK u : u = [s EXCEPT ![p].next_sto = b]
    OBVIOUS
  <1>17. p # 0 =>
           /\ u \in [D -> Headers(D)] /\ SameBlocks(u, s)
           /\ \A c \in D :
                /\ u[c].next_sto = IF c = p THEN b ELSE s[c].next_sto
                /\ u[c].prev_sto = s[c].prev_sto
    <2> SUFFICES ASSUME p # 0
                 PROVE  /\ u \in [D -> Headers(D)] /\ SameBlocks(u, s)
                        /\ \A c \in D :
                             /\ u[c].next_sto = IF c = p THEN b ELSE s[c].next_sto
                             /\ u[c].prev_sto = s[c].prev_sto
      OBVIOUS
    <2>1. p \in D /\ b \in D \cup {0}
      BY <1>13
    <2> HIDE DEF D
    <2>2. NextSet(u, s, D, D, p, b)
      BY <1>15, <1>16, <2>1, SetNextFacts
    <2> QED
      BY <2>2 DEF NextSet
  <1>18. /\ h \in [hdr : [D -> Headers(D)], blocks : D \cup {0},
                    last : D \cup {0}, free : D \cup {0}]
         /\ \E top \in Nat : \A c \in D : c <= top
    BY DEF HeapType
  <1>19. /\ k.hdr = IF p = 0 THEN s ELSE u
         /\ k.free = IF p = 0 THEN b ELSE h.free
         /\ k.blocks = h.blocks /\ k.last = h.last
         /\ k \in [hdr : [D -> Headers(D)], blocks : D \cup {0},
                   last : D \cup {0}, free : D \cup {0}]
    BY <1>12, <1>15, <1>16, <1>17, <1>18, ZenonT(30)
  <1>20. DOMAIN k.hdr = D
    BY <1>15, <1>17, <1>19
  <1>21. HeapType(k)
    BY <1>1, <1>18, <1>19, <1>20 DEF HeapType
  <1>22. SameBlocks(k.hdr, h.hdr)
    BY <1>14, <1>15, <1>17, <1>19 DEF SameBlocks
  <1>23. Spliced(k, h, b, p, n)
    <2>1. ASSUME NEW c \in D
          PROVE  /\ k.hdr[c].next_sto = IF c = b THEN n
                              ELSE IF c = p THEN b ELSE h.hdr[c].next_sto
                 /\ k.hdr[c].prev_sto = IF c = b THEN p
                              ELSE IF c = n THEN b ELSE h.hdr[c].prev_sto
      <3>1. p = 0 => c # p
        BY <1>1
      <3> QED
        BY <1>13, <1>14, <1>15, <1>17, <1>19, <3>1
    <2> QED
      BY <1>19, <1>20, <2>1 DEF Spliced
  <1>24. Listed(k, S \cup {b})
    BY <1>1, <1>12, <1>23, SpliceLists
  <1> QED
    BY <1>19, <1>21, <1>22, <1>24

\* The loop of get_free_block finds a free block that is large enough, or none.
LEMMA GetFreeFacts ==
  ASSUME NEW h, HeapType(h), NEW S, Listed(h, S), NEW size \in Nat,
         NEW b, b = get_free_block(h, size)
  PROVE  b # 0 => b \in S /\ h.hdr[b].capacity >= size
  <1> DEFINE D == DOMAIN h.hdr \cup {0}
             Search[c \in DOMAIN h.hdr \cup {0}] ==
               IF c = 0 THEN 0
               ELSE IF h.hdr[c].capacity >= size THEN c
               ELSE Search[h.hdr[c].next_sto]
             next == [c \in D |-> h.hdr[c].next_sto]
             value == [c \in D |-> c]
             G == {c \in D : c # 0 /\ ~(h.hdr[c].capacity >= size)}
  <1>1. PICK top \in Nat : \A c \in DOMAIN h.hdr : c <= top
    BY DEF HeapType
  <1> DEFINE measure == [c \in D |-> IF c = 0 THEN 0 ELSE top + 1 - c]
  <1>2. /\ DOMAIN h.hdr \subseteq Nat \ {0} /\ S \subseteq DOMAIN h.hdr
        /\ h.free \in S \cup {0}
    BY DEF HeapType, Listed, IsNext
  <1>3. measure \in [D -> Nat] /\ \A c \in D : measure[c] <= top
    <2>1. ASSUME NEW c \in D
          PROVE  measure[c] \in Nat /\ measure[c] <= top
      <3>1. c = 0 \/ (c \in Nat /\ c # 0 /\ c <= top)
        BY <1>1, <1>2
      <3> QED
        BY <3>1
    <2> QED
      BY <2>1
  <1>4. ASSUME NEW c \in G
        PROVE  /\ next[c] \in D /\ measure[next[c]] < measure[c]
               /\ c \in S => next[c] \in S \cup {0}
    <2>1. c \in D /\ c \in Nat /\ c # 0 /\ c <= top
      BY <1>1, <1>2
    <2>2. CASE c \in S
      <3>1. next[c] \in S \cup {0} /\ (next[c] # 0 => c < next[c]) /\ next[c] \in D
        BY <1>2, <2>1, <2>2, ListFacts
      <3>2. CASE next[c] = 0
        BY <2>1, <3>2
      <3>3. CASE next[c] # 0
        <4>1. next[c] \in Nat /\ measure[next[c]] = top + 1 - next[c]
          BY <1>2, <3>1, <3>3
        <4> QED
          BY <2>1, <3>1, <3>3, <4>1
      <3> QED
        BY <3>2, <3>3
    <2>3. CASE c \notin S
      <3>1. next[c] = 0 /\ 0 \in D
        BY <2>1, <2>3 DEF Listed
      <3> QED
        BY <2>1, <2>3, <3>1
    <2> QED
      BY <2>2, <2>3
  <1>5. G \in SUBSET D
    OBVIOUS
  <1>6. \E f : Follows(f, D, G, next, value)
    <2> HIDE DEF D, G, next, value, measure
    <2> QED
      BY <1>3, <1>4, <1>5, PointersEnd
  <1>7. \A c \in D : Search[c] = IF c \in G THEN Search[next[c]] ELSE c
    <2> DEFINE E(c, f) == IF c = 0 THEN 0
                          ELSE IF h.hdr[c].capacity >= size THEN c
                          ELSE f[h.hdr[c].next_sto]
    <2>1. PICK f : Follows(f, D, G, next, value)
      BY <1>6
    <2>2. \A c \in D : (IF c \in G THEN f[next[c]] ELSE value[c]) = E(c, f)
      OBVIOUS
    <2>3. f = [c \in D |-> E(c, f)]
      BY <2>1, <2>2, ZenonT(30) DEF Follows
    <2>4. Search = [c \in D |-> E(c, Search)]
      BY <2>3
    <2> HIDE DEF Search
    <2>5. \A c \in D : Search[c] = E(c, Search)
      BY <2>4
    <2> QED
      BY <2>5
  <1> HIDE DEF Search
  <1> DEFINE Fine(c) == /\ Search[c] \in S \cup {0}
                        /\ Search[c] # 0 => h.hdr[Search[c]].capacity >= size
             Bad == {k \in Nat : \E c \in S \cup {0} : measure[c] = k /\ ~Fine(c)}
  <1>8. Bad = {}
    <2> SUFFICES ASSUME Bad # {}
                 PROVE  FALSE
      OBVIOUS
    <2>1. Bad \in SUBSET Nat
      OBVIOUS
    <2>2. PICK k \in Bad : \A j \in Bad : k <= j
      <3> HIDE DEF Bad
      <3> QED
        BY <2>1, LeastNumber
    <2>3. PICK c \in S \cup {0} : measure[c] = k /\ ~Fine(c)
      OBVIOUS
    <2>4. c \in D
      BY <1>2
    <2>5. CASE c \in G
      <3>1. /\ next[c] \in S \cup {0} /\ measure[next[c]] < k
            /\ measure[next[c]] \in Nat /\ k \in Nat
        BY <1>3, <1>4, <2>3, <2>5
      <3>2. measure[next[c]] \notin Bad
        <4> HIDE DEF Bad
        <4> QED
          BY <2>2, <3>1
      <3>3. Fine(next[c])
        <4> HIDE DEF Fine
        <4> QED
          BY <3>1, <3>2
      <3> QED
        BY <1>7, <2>3, <2>4, <2>5, <3>3
    <2>6. CASE c \notin G
      BY <1>7, <2>3, <2>4, <2>6
    <2> QED
      BY <2>5, <2>6
  <1>9. Fine(h.free)
    <2>1. measure[h.free] \in Nat /\ measure[h.free] \notin Bad
      BY <1>2, <1>3, <1>8
    <2> HIDE DEF Fine, measure
    <2> QED
      BY <1>2, <2>1
  <1>10. b = Search[h.free]
    BY DEF get_free_block, Search
  <1> QED
    BY <1>9, <1>10

-----------------------------------------------------------------------------
(***************************************************************************)
(* The blocks lie one behind the other in what mmap returned.              *)
(***************************************************************************)
Ends(h, c) == c + Header + h.hdr[c].capacity

Laid(h, maps) ==
  /\ maps \subseteq Nat \X Nat
  /\ \A b \in DOMAIN h.hdr : \E i \in maps : i[1] <= b /\ Ends(h, b) <= i[2]
  /\ \A b, c \in DOMAIN h.hdr : b < c => Ends(h, b) <= c

\* Heap k is h with a block new cut off block b.
Cut(k, h, b, new) ==
  /\ DOMAIN k.hdr = DOMAIN h.hdr \cup {new} /\ new \notin DOMAIN h.hdr
  /\ k.blocks = h.blocks /\ k.last = IF h.last = b THEN new ELSE h.last
  /\ \A c \in DOMAIN h.hdr : c # b => k.hdr[c].capacity = h.hdr[c].capacity
  /\ \A c \in DOMAIN k.hdr :
       k.hdr[c].next_mem = IF c = b THEN new
                           ELSE IF c = new THEN h.hdr[b].next_mem
                           ELSE h.hdr[c].next_mem

\* The capacity a request for size bytes gets.
Fits(capacity, size) ==
  size <= capacity /\ capacity <= size + Header + MinBlock

\* split_block makes two blocks of one, side by side in memory and in the list.
LEMMA SplitFacts ==
  ASSUME NEW h, HeapType(h), NEW S, Listed(h, S), NEW maps, Laid(h, maps),
         NEW b \in S, NEW size \in Nat \ {0}, h.hdr[b].capacity >= size,
         NEW k, k = split_block(h, b, size)
  PROVE  /\ HeapType(k) /\ Laid(k, maps) /\ Fits(k.hdr[b].capacity, size)
         /\ \/ k = h
            \/ \E new : Cut(k, h, b, new) /\ Listed(k, S \cup {new})
  <1> DEFINE D == DOMAIN h.hdr
             old == h.hdr[b]
  <1>1. /\ Header \in Nat \ {0} /\ MinBlock \in Nat \ {0}
        /\ D \subseteq Nat \ {0} /\ S \subseteq D /\ b \in D /\ b \in Nat \ {0}
        /\ h.hdr \in [D -> Headers(D)] /\ old.capacity \in Nat
        /\ old.next_mem \in D \cup {0} /\ old.next_sto \in D \cup {0}
        /\ old.prev_sto \in D \cup {0}
    BY AllocatorAssumption DEF HeapType, Listed, Headers
  <1>2. CASE old.capacity <= size + Header + MinBlock
    <2>1. k = h
      BY <1>2 DEF split_block
    <2> QED
      BY <1>2, <2>1 DEF Fits
  <1>3. CASE ~(old.capacity <= size + Header + MinBlock)
    <2>1. PICK new : new = b + Header + size
      OBVIOUS
    <2>2. /\ new \in Nat \ {0} /\ b < new /\ new + Header + MinBlock < Ends(h, b)
          /\ old.capacity - size - Header \in Nat
          /\ b + Header + size = new
          /\ new + Header + (old.capacity - size - Header) = Ends(h, b)
          /\ Ends(h, b) \in Nat
      BY <1>1, <1>3, <2>1 DEF Ends
    <2>3. \A c \in D : (c < b => Ends(h, c) <= b) /\ (b < c => Ends(h, b) <= c)
      BY <1>1 DEF Laid
    <2>4. ASSUME NEW c \in D, b < c
          PROVE  new < c
      BY <1>1, <2>2, <2>3, <2>4
    <2>5. new \notin D
      BY <1>1, <2>2, <2>4
    <2> DEFINE E == D \cup {new}
               rest == [init_block(old.capacity - size - Header) EXCEPT
                          !.next_mem = old.next_mem, !.next_sto = old.next_sto,
                          !.prev_sto = b]
               kept == [old EXCEPT !.capacity = size, !.next_mem = new,
                                   !.next_sto = new]
    <2>6. /\ rest \in Headers(E) /\ rest.capacity = old.capacity - size - Header
          /\ rest.next_mem = old.next_mem /\ rest.next_sto = old.next_sto
          /\ rest.prev_sto = b
      BY <1>1, <2>2 DEF init_block, Headers
    <2>7. /\ kept \in Headers(E) /\ kept.capacity = size /\ kept.next_mem = new
          /\ kept.next_sto = new /\ kept.prev_sto = old.prev_sto
      BY <1>1 DEF Headers
    <2>8. PICK q : q = Put([h.hdr EXCEPT ![b] = kept], new, rest)
      OBVIOUS
    <2>9. PICK n : n = old.next_sto
      OBVIOUS
    <2>10. PICK s : s = SetPrev(q, n, new)
      OBVIOUS
    <2>11. k = [h EXCEPT !.hdr = s, !.last = IF h.last = b THEN new ELSE h.last]
      BY <1>3, <2>1, <2>8, <2>9, <2>10 DEF split_block
    <2> HIDE DEF rest, kept
    <2>12. /\ q \in [E -> Headers(E)] /\ q[new] = rest /\ q[b] = kept
           /\ \A c \in D : c # b => q[c] = h.hdr[c]
      <3>1. \A c \in D : h.hdr[c] \in Headers(E)
        BY <1>1 DEF Headers
      <3> QED
        BY <1>1, <2>5, <2>6, <2>7, <2>8, <3>1 DEF Put
    <2>13. /\ s \in [E -> Headers(E)] /\ SameBlocks(s, q)
           /\ \A c \in E : /\ s[c].next_sto = q[c].next_sto
                           /\ s[c].prev_sto = IF c = n THEN new ELSE q[c].prev_sto
      <3>1. 0 \notin E /\ n \in E \cup {0} /\ new \in E \cup {0}
        BY <1>1, <2>2, <2>9
      <3> HIDE DEF E
      <3> QED
        BY <2>10, <2>12, <3>1, SetPrevFacts DEF PrevSet
    <2>14. PICK top \in Nat : \A c \in D : c <= top
      BY DEF HeapType
    <2>15. \E max \in Nat : \A c \in E : c <= max
      <3>1. \A c \in E : c <= top + new
        BY <1>1, <2>2, <2>14
      <3>2. top + new \in Nat
        BY <2>2
      <3> QED
        BY <3>1, <3>2
    <2>16. h \in [hdr : [D -> Headers(D)], blocks : D \cup {0},
                  last : D \cup {0}, free : D \cup {0}]
      BY DEF HeapType
    <2>17. /\ k \in [hdr : [E -> Headers(E)], blocks : E \cup {0},
                     last : E \cup {0}, free : E \cup {0}]
           /\ k.hdr = s /\ k.blocks = h.blocks /\ k.free = h.free
           /\ k.last = IF h.last = b THEN new ELSE h.last
           /\ DOMAIN k.hdr = E
      BY <2>11, <2>13, <2>16
    <2>18. HeapType(k)
      <3>1. E \subseteq Nat \ {0}
        BY <1>1, <2>2
      <3> QED
        BY <2>15, <2>17, <3>1 DEF HeapType
    <2>19. /\ k.hdr[b].capacity = size
           /\ k.hdr[new].capacity = old.capacity - size - Header
           /\ \A c \in D : c # b => k.hdr[c].capacity = h.hdr[c].capacity
      BY <1>1, <2>5, <2>6, <2>7, <2>12, <2>13, <2>17 DEF SameBlocks
    <2>20. /\ k.hdr[b].next_mem = new
           /\ k.hdr[new].next_mem = old.next_mem
           /\ \A c \in D : c # b => k.hdr[c].next_mem = h.hdr[c].next_mem
      BY <1>1, <2>5, <2>6, <2>7, <2>12, <2>13, <2>17 DEF SameBlocks
    <2>21. /\ Ends(k, b) = new /\ Ends(k, new) = Ends(h, b)
           /\ \A c \in D : c # b => Ends(k, c) = Ends(h, c)
      BY <2>2, <2>19 DEF Ends
    <2>22. Fits(k.hdr[b].capacity, size)
      BY <1>1, <2>19 DEF Fits
    <2>23. Cut(k, h, b, new)
      BY <2>5, <2>17, <2>19, <2>20 DEF Cut
    <2>24. Laid(k, maps)
      <3>1. ASSUME NEW c \in E
            PROVE  \E i \in maps : i[1] <= c /\ Ends(k, c) <= i[2]
        <4>1. PICK i \in maps : i[1] <= b /\ Ends(h, b) <= i[2]
          BY <1>1 DEF Laid
        <4>2. i[1] \in Nat /\ i[2] \in Nat
          BY DEF Laid
        <4>3. CASE c = b
          BY <1>1, <2>2, <2>21, <4>1, <4>2, <4>3
        <4>4. CASE c = new
          BY <1>1, <2>2, <2>21, <4>1, <4>2, <4>4
        <4>5. CASE c \in D \ {b}
          BY <2>21, <4>5 DEF Laid
        <4> QED
          BY <4>3, <4>4, <4>5
      <3>2. ASSUME NEW c \in E, NEW d \in E, c < d
            PROVE  Ends(k, c) <= d
        <4>1. CASE c = b
          <5>1. d = new \/ (d \in D /\ new < d)
            BY <2>4, <3>2, <4>1
          <5> QED
            BY <1>1, <2>2, <2>21, <4>1, <5>1
        <4>2. CASE c = new
          <5>1. d \in D /\ d # b /\ d \in Nat
            BY <1>1, <2>2, <3>2, <4>2
          <5>2. b < d
            BY <1>1, <2>2, <3>2, <4>2, <5>1
          <5> QED
            BY <2>3, <2>21, <4>2, <5>1, <5>2
        <4>3. CASE c \in D \ {b} /\ d = new
          <5>1. c \in Nat /\ c < b
            BY <1>1, <2>2, <2>4, <3>2, <4>3
          <5>2. Ends(h, c) <= b /\ Ends(h, c) \in Nat
            <6>1. h.hdr[c].capacity \in Nat
              BY <1>1, <4>3 DEF Headers
            <6> QED
              BY <1>1, <2>3, <4>3, <5>1, <6>1 DEF Ends
          <5> QED
            BY <1>1, <2>2, <2>21, <4>3, <5>2
        <4>4. CASE c \in D \ {b} /\ d \in D
          BY <2>21, <3>2, <4>4 DEF Laid
        <4> QED
          BY <4>1, <4>2, <4>3, <4>4
      <3> QED
        BY <2>17, <3>1, <3>2 DEF Laid
    <2>25. Listed(k, S \cup {new})
      <3>1. new \notin S
        BY <1>1, <2>5
      <3>2. IsPrev(S, new, b)
        <4>1. \A c \in S : c < new => c <= b
          <5>1. ASSUME NEW c \in S, c < new, ~(c <= b)
                PROVE  FALSE
            <6>1. c \in D /\ c \in Nat /\ b < c
              BY <1>1, <5>1
            <6> QED
              BY <2>2, <2>4, <5>1, <6>1
          <5> QED
            BY <5>1
        <4> QED
          BY <2>2, <4>1 DEF IsPrev
      <3>3. IsNext(S, new, n)
        <4>1. IsNext(S, b, n)
          BY <2>9 DEF Listed
        <4>2. n # 0 => new < n
          BY <1>1, <2>4, <4>1 DEF IsNext
        <4>3. \A c \in S : new < c => b < c
          <5>1. ASSUME NEW c \in S, new < c
                PROVE  b < c
            <6>1. c \in Nat
              BY <1>1
            <6> QED
              BY <1>1, <2>2, <5>1, <6>1
          <5> QED
            BY <5>1
        <4> QED
          BY <4>1, <4>2, <4>3 DEF IsNext
      <3>4. Spliced(k, h, new, b, n)
        <4>1. b # 0 /\ b # new
          BY <1>1, <2>2
        <4>2. ASSUME NEW c \in E
              PROVE  /\ k.hdr[c].next_sto = IF c = new THEN n
                              ELSE IF c = b THEN new ELSE h.hdr[c].next_sto
                     /\ k.hdr[c].prev_sto = IF c = new THEN b
                              ELSE IF c = n THEN new ELSE h.hdr[c].prev_sto
          <5>1. n # new
            BY <1>1, <2>5, <2>2, <2>9
          <5>2. CASE c = new
            BY <2>6, <2>9, <2>12, <2>13, <2>17, <5>1, <5>2
          <5>3. CASE c = b
            BY <2>7, <2>12, <2>13, <2>17, <4>1, <5>3
          <5>4. CASE c # new /\ c # b
            BY <2>12, <2>13, <2>17, <5>4
          <5> QED
            BY <5>2, <5>3, <5>4
        <4> QED
          BY <2>17, <4>1, <4>2 DEF Spliced
      <3> QED
        BY <2>2, <3>1, <3>2, <3>3, <3>4, SpliceLists
    <2> QED
      BY <2>18, <2>22, <2>23, <2>24, <2>25
  <1> QED
    BY <1>2, <1>3

\* The block leaves the free list, and nothing else changes.
Unlinked(k, s, T, b) ==
  /\ HeapType(k) /\ Listed(k, T \ {b}) /\ SameBlocks(k.hdr, s.hdr)
  /\ k.blocks = s.blocks /\ k.last = s.last

\* What cook_free_block does to the block it has split.
Unlink(s, b) ==
  LET prev == s.hdr[b].prev_sto
      next == s.hdr[b].next_sto
      linked == IF prev = 0 THEN s.hdr
                ELSE [s.hdr EXCEPT ![prev].next_sto = next]
  IN  [s EXCEPT !.free = IF prev = 0 THEN next ELSE @,
                !.hdr = [SetPrev(linked, next, prev) EXCEPT
                           ![b].prev_sto = 0, ![b].next_sto = 0]]

LEMMA UnlinkFacts ==
  ASSUME NEW s, HeapType(s), NEW T, Listed(s, T), NEW b \in T,
         NEW k, k = Unlink(s, b)
  PROVE  Unlinked(k, s, T, b)
  <1>1. PICK D : D = DOMAIN s.hdr
    OBVIOUS
  <1>2. PICK hdr : hdr = s.hdr
    OBVIOUS
  <1>p. PICK prev : prev = hdr[b].prev_sto
    OBVIOUS
  <1>n. PICK next : next = hdr[b].next_sto
    OBVIOUS
  <1>l. PICK linked : linked = IF prev = 0 THEN hdr
                               ELSE [hdr EXCEPT ![prev].next_sto = next]
    OBVIOUS
  <1>3. /\ D \subseteq Nat \ {0} /\ T \subseteq D /\ b \in D /\ b # 0
        /\ hdr \in [D -> Headers(D)] /\ 0 \notin D
        /\ s \in [hdr : [D -> Headers(D)], blocks : D \cup {0},
                  last : D \cup {0}, free : D \cup {0}]
        /\ \E top \in Nat : \A c \in D : c <= top
    BY <1>1, <1>2 DEF HeapType, Listed
  <1>4. prev \in D \cup {0} /\ next \in D \cup {0} /\ prev # b /\ next # b
    <2>1. /\ prev \in T \cup {0} /\ prev < b /\ b \in Nat
          /\ next \in T \cup {0} /\ (next # 0 => b < next)
      BY <1>2, <1>p, <1>n, <1>3, ListFacts
    <2> QED
      BY <1>3, <2>1
  <1>5. /\ linked \in [D -> Headers(D)] /\ SameBlocks(linked, hdr)
        /\ \A c \in D : /\ linked[c].next_sto = IF c = prev THEN next
                                                ELSE hdr[c].next_sto
                        /\ linked[c].prev_sto = hdr[c].prev_sto
    <2>1. CASE prev = 0
      BY <1>l, <1>3, <2>1 DEF SameBlocks
    <2>2. CASE prev # 0
      <3>1. prev \in D /\ linked = [hdr EXCEPT ![prev].next_sto = next]
        BY <1>l, <1>4, <2>2
      <3>2. NextSet(linked, hdr, D, D, prev, next)
        BY <1>3, <1>4, <3>1, SetNextFacts
      <3> QED
        BY <3>2 DEF NextSet
    <2> QED
      BY <2>1, <2>2
  <1>6. PICK r : r = SetPrev(linked, next, prev)
    OBVIOUS
  <1>7. /\ r \in [D -> Headers(D)] /\ SameBlocks(r, linked)
        /\ \A c \in D : /\ r[c].next_sto = linked[c].next_sto
                        /\ r[c].prev_sto = IF c = next THEN prev
                                           ELSE linked[c].prev_sto
    <2>1. PrevSet(r, linked, D, D, next, prev)
      BY <1>3, <1>4, <1>5, <1>6, SetPrevFacts
    <2> QED
      BY <2>1 DEF PrevSet
  <1>8. PICK u : u = [r EXCEPT ![b].prev_sto = 0, ![b].next_sto = 0]
    OBVIOUS
  <1>9. LinksSet(u, r, D, D, b, 0, 0)
    <2>1. PICK z : z = 0
      OBVIOUS
    <2>2. /\ z \in D \cup {0}
          /\ u = [r EXCEPT ![b].prev_sto = z, ![b].next_sto = z]
      BY <1>8, <2>1
    <2>3. LinksSet(u, r, D, D, b, z, z)
      BY <1>3, <1>7, <2>2, SetLinksFacts
    <2> QED
      BY <2>1, <2>3
  <1>10. /\ k = [s EXCEPT !.free = IF prev = 0 THEN next ELSE s.free, !.hdr = u]
         /\ u \in [D -> Headers(D)]
    BY <1>2, <1>p, <1>n, <1>l, <1>6, <1>8, <1>9 DEF LinksSet, Unlink
  <1>11. /\ k \in [hdr : [D -> Headers(D)], blocks : D \cup {0},
                   last : D \cup {0}, free : D \cup {0}]
         /\ k.hdr = u /\ k.blocks = s.blocks /\ k.last = s.last
         /\ k.free = IF prev = 0 THEN next ELSE s.free
         /\ DOMAIN k.hdr = D
    BY <1>3, <1>4, <1>10
  <1>12. HeapType(k)
    BY <1>3, <1>11 DEF HeapType
  <1>13. SameBlocks(k.hdr, s.hdr)
    BY <1>2, <1>5, <1>7, <1>9, <1>11 DEF SameBlocks, LinksSet
  <1>14. Unspliced(k, s, b, prev, next)
    <2>1. ASSUME NEW c \in D
          PROVE  /\ k.hdr[c].next_sto = IF c = b THEN 0
                              ELSE IF c = prev THEN next ELSE s.hdr[c].next_sto
                 /\ k.hdr[c].prev_sto = IF c = b THEN 0
                              ELSE IF c = next THEN prev ELSE s.hdr[c].prev_sto
      BY <1>2, <1>5, <1>7, <1>9, <1>11 DEF LinksSet
    <2> QED
      BY <1>1, <1>11, <2>1 DEF Unspliced
  <1>15. Listed(k, T \ {b})
    BY <1>2, <1>p, <1>n, <1>14, UnspliceLists
  <1> QED
    BY <1>11, <1>12, <1>13, <1>15 DEF Unlinked

\* Who is before whom in memory, how large, is not told by the free list.
LEMMA LaidSame ==
  ASSUME NEW h, NEW k, SameBlocks(k.hdr, h.hdr), NEW maps, Laid(h, maps)
  PROVE  Laid(k, maps)
  <1>1. DOMAIN k.hdr = DOMAIN h.hdr
    BY DEF SameBlocks
  <1>2. \A c \in DOMAIN h.hdr : Ends(k, c) = Ends(h, c)
    BY DEF SameBlocks, Ends
  <1> QED
    BY <1>1, <1>2 DEF Laid

\* What a call makes of the blocks when it hands b out, S being free before
\* and T after.
Cooked(k, h, S, T, b) ==
  \/ SameBlocks(k.hdr, h.hdr) /\ k.last = h.last /\ T = S \ {b}
  \/ \E new : Cut(k, h, b, new) /\ T = (S \cup {new}) \ {b}

\* cook_free_block makes the block fit and hands it out.
LEMMA CookFacts ==
  ASSUME NEW h, HeapType(h), NEW S, Listed(h, S), NEW maps, Laid(h, maps),
         NEW b \in S, NEW size \in Nat \ {0}, h.hdr[b].capacity >= size,
         NEW k, k = cook_free_block(h, b, size)
  PROVE  /\ HeapType(k) /\ Laid(k, maps) /\ Fits(k.hdr[b].capacity, size)
         /\ k.blocks = h.blocks
         /\ \E T : Listed(k, T) /\ Cooked(k, h, S, T, b)
  <1>1. PICK s : s = split_block(h, b, size)
    OBVIOUS
  <1>2. /\ HeapType(s) /\ Laid(s, maps) /\ Fits(s.hdr[b].capacity, size)
        /\ \/ s = h
           \/ \E new : Cut(s, h, b, new) /\ Listed(s, S \cup {new})
    BY <1>1, SplitFacts
  <1>3. PICK T : /\ Listed(s, T) /\ b \in T
                 /\ \/ s = h /\ T = S
                    \/ \E new : Cut(s, h, b, new) /\ T = S \cup {new}
    <2>1. CASE s = h
      BY <2>1
    <2>2. CASE \E new : Cut(s, h, b, new) /\ Listed(s, S \cup {new})
      BY <2>2
    <2> QED
      BY <1>2, <2>1, <2>2
  <1>4. Unlinked(k, s, T, b)
    <2>1. k = Unlink(s, b)
      BY <1>1 DEF cook_free_block, Unlink
    <2> QED
      BY <1>2, <1>3, <2>1, UnlinkFacts
  <1>5. /\ HeapType(k) /\ Listed(k, T \ {b}) /\ SameBlocks(k.hdr, s.hdr)
        /\ k.blocks = s.blocks /\ k.last = s.last
    BY <1>4 DEF Unlinked
  <1>6. Laid(k, maps)
    BY <1>2, <1>5, LaidSame
  <1>7. b \in DOMAIN s.hdr
    BY <1>3 DEF Listed
  <1>8. Fits(k.hdr[b].capacity, size)
    BY <1>2, <1>5, <1>7 DEF SameBlocks
  <1>9. Cooked(k, h, S, T \ {b}, b) /\ k.blocks = h.blocks
    <2>1. CASE s = h /\ T = S
      BY <1>5, <2>1 DEF Cooked
    <2>2. CASE \E new : Cut(s, h, b, new) /\ T = S \cup {new}
      <3>1. PICK new : Cut(s, h, b, new) /\ T = S \cup {new}
        BY <2>2
      <3>2. Cut(k, h, b, new) /\ k.blocks = h.blocks
        BY <1>5, <3>1 DEF Cut, SameBlocks
      <3> QED
        BY <3>1, <3>2 DEF Cooked
    <2> QED
      BY <1>3, <2>1, <2>2
  <1> QED
    BY <1>5, <1>6, <1>8, <1>9

\* Rounding up to a multiple loses nothing, and adds less than a multiple.
LEMMA AlignFacts ==
  ASSUME NEW value \in Nat \ {0}, NEW divisor \in Nat \ {0}
  PROVE  /\ align(value, divisor) \in Nat \ {0}
         /\ value <= align(value, divisor)
         /\ align(value, divisor) < value + divisor
  <1>1. PICK v \in Nat : v = value - 1
    BY value - 1 \in Nat
  <1>2. /\ v \div divisor \in Nat
        /\ v = (divisor * (v \div divisor)) + (v % divisor)
        /\ v % divisor \in 0..(divisor - 1)
    OBVIOUS
  <1>3. PICK p \in Nat : p = (v \div divisor) * divisor
    BY <1>2
  <1>4. v = p + (v % divisor)
    BY <1>2, <1>3
  <1>5. align(value, divisor) = p + divisor
    BY <1>1, <1>3 DEF align
  <1> QED
    BY <1>1, <1>2, <1>4, <1>5

\* What malloc looks for has room for the 10 bytes nobody asked for.
LEMMA SizeFacts ==
  ASSUME NEW n \in Nat
  PROVE  Size(n) \in Nat \ {0} /\ n + 10 <= Size(n)
  <1>1. /\ n + 10 \in Nat \ {0} /\ Word \in Nat \ {0} /\ MinBlock \in Nat \ {0}
        /\ n + 10 \in Int
    BY AllocatorAssumption
  <1>2. PICK m : m = n + 10
    OBVIOUS
  <1>3. PICK s : s = align(m, Word)
    OBVIOUS
  <1>4. s \in Nat \ {0} /\ m <= s
    BY <1>1, <1>2, <1>3, AlignFacts
  <1>5. Size(n) = IF s < MinBlock THEN MinBlock ELSE s
    BY <1>2, <1>3 DEF Size
  <1> QED
    BY <1>1, <1>2, <1>4, <1>5

\* Heap k is h with a block of its own mapping at base, behind all others.
Added(k, h, base) ==
  /\ DOMAIN k.hdr = DOMAIN h.hdr \cup {base} /\ base \notin DOMAIN h.hdr
  /\ k.blocks = h.blocks /\ k.last = base
  /\ \A c \in DOMAIN h.hdr : k.hdr[c].capacity = h.hdr[c].capacity
  /\ \A c \in DOMAIN k.hdr :
       k.hdr[c].next_mem = IF c = h.last THEN base
                           ELSE IF c = base THEN 0 ELSE h.hdr[c].next_mem

\* create_new_block maps memory that touches nobody's, and lists it as free.
LEMMA CreateFacts ==
  ASSUME NEW r, NEW h, h = r.heap, HeapType(h), NEW S, Listed(h, S),
         NEW maps, maps = r.mapped, Laid(h, maps), h.last # 0,
         NEW size \in Nat \ {0},
         NEW base \in Places(maps, align(size + Header, Page)),
         NEW q, q = create_new_block(r, base, size)
  PROVE  /\ HeapType(q.heap) /\ Listed(q.heap, S \cup {base})
         /\ Laid(q.heap, q.mapped) /\ Added(q.heap, h, base)
         /\ q.heap.hdr[base].capacity >= size
         /\ maps \subseteq q.mapped
  <1>1. PICK D : D = DOMAIN h.hdr
    OBVIOUS
  <1>2. /\ Header \in Nat \ {0} /\ Page \in Nat \ {0}
        /\ D \subseteq Nat \ {0} /\ S \subseteq D
        /\ h \in [hdr : [D -> Headers(D)], blocks : D \cup {0},
                  last : D \cup {0}, free : D \cup {0}]
        /\ h.last \in D
        /\ \A c \in D : h.hdr[c].capacity \in Nat
        /\ \E top \in Nat : \A c \in D : c <= top
    BY <1>1, AllocatorAssumption DEF HeapType, Listed, Headers
  <1>3. PICK len : len = align(size + Header, Page)
    OBVIOUS
  <1>4. len \in Nat \ {0} /\ size + Header <= len
    <2>1. PICK v : v = size + Header
      OBVIOUS
    <2>2. v \in Nat \ {0}
      BY <1>2, <2>1
    <2> QED
      BY <1>2, <1>3, <2>1, <2>2, AlignFacts
  <1>5. /\ base \in Nat \ {0}
        /\ \A i \in maps : base + len <= i[1] \/ i[2] <= base
    BY <1>3, AllocatorAssumption DEF Places, Disjoint
  <1>6. ASSUME NEW c \in D
        PROVE  /\ c < base => Ends(h, c) <= base
               /\ c >= base => base + len <= c
               /\ c # base
    <2>1. PICK i \in maps : i[1] <= c /\ Ends(h, c) <= i[2]
      BY <1>1 DEF Laid
    <2>2. i[1] \in Nat /\ i[2] \in Nat /\ c \in Nat /\ Ends(h, c) \in Nat
          /\ c < Ends(h, c)
      BY <1>2 DEF Laid, Ends
    <2> QED
      BY <1>4, <1>5, <2>1, <2>2
  <1>7. base \notin D
    BY <1>6
  <1> DEFINE E == D \cup {base}
  <1>8. PICK p : p = Put(h.hdr, base, init_block(len - Header))
    OBVIOUS
  <1>9. PICK last : last = h.last
    OBVIOUS
  <1>10. PICK u : u = [p EXCEPT ![last].next_mem = base]
    OBVIOUS
  <1>11. PICK g : g = [h EXCEPT !.hdr = u, !.last = base]
    OBVIOUS
  <1>12. q = [heap |-> store_free_block(g, base),
              mapped |-> maps \cup {<<base, base + len>>}]
    BY <1>3, <1>8, <1>9, <1>10, <1>11 DEF create_new_block
  <1>13. /\ p \in [E -> Headers(E)] /\ p[base] = init_block(len - Header)
         /\ \A c \in D : p[c] = h.hdr[c]
    <2>1. init_block(len - Header) \in Headers(E)
      BY <1>2, <1>4 DEF init_block, Headers
    <2>2. \A c \in D : h.hdr[c] \in Headers(E)
      BY <1>2 DEF Headers
    <2> QED
      BY <1>1, <1>7, <1>8, <2>1, <2>2 DEF Put
  <1>14. /\ u \in [E -> Headers(E)]
         /\ \A c \in E :
              /\ u[c].capacity = p[c].capacity
              /\ u[c].next_mem = IF c = last THEN base ELSE p[c].next_mem
              /\ u[c].next_sto = p[c].next_sto
              /\ u[c].prev_sto = p[c].prev_sto
    <2>1. last \in E /\ base \in E
      BY <1>2, <1>9
    <2> QED
      BY <1>10, <1>13, <2>1 DEF Headers
  <1>15. /\ u[base].capacity = len - Header /\ u[base].next_mem = 0
         /\ u[base].next_sto = 0 /\ u[base].prev_sto = 0
         /\ \A c \in D :
              /\ u[c].capacity = h.hdr[c].capacity
              /\ u[c].next_mem = IF c = last THEN base ELSE h.hdr[c].next_mem
              /\ u[c].next_sto = h.hdr[c].next_sto
              /\ u[c].prev_sto = h.hdr[c].prev_sto
    <2>1. base # last
      BY <1>2, <1>7, <1>9
    <2> QED
      BY <1>13, <1>14, <2>1 DEF init_block
  <1>16. /\ g \in [hdr : [E -> Headers(E)], blocks : E \cup {0},
                   last : E \cup {0}, free : E \cup {0}]
         /\ g.hdr = u /\ g.last = base /\ g.blocks = h.blocks /\ g.free = h.free
         /\ DOMAIN g.hdr = E
    BY <1>2, <1>11, <1>14
  <1>17. HeapType(g)
    <2>1. PICK top \in Nat : \A c \in D : c <= top
      BY <1>2
    <2>2. top + base \in Nat /\ \A c \in E : c <= top + base
      BY <1>2, <1>5, <2>1
    <2>3. E \subseteq Nat \ {0}
      BY <1>2, <1>5
    <2>4. \E max \in Nat : \A c \in E : c <= max
      BY <2>2
    <2> QED
      BY <1>16, <2>3, <2>4 DEF HeapType
  <1>18. Listed(g, S)
    <2>1. ASSUME NEW c \in E \ S
          PROVE  u[c].next_sto = 0 /\ u[c].prev_sto = 0
      <3>1. c \in D \ S => h.hdr[c].next_sto = 0 /\ h.hdr[c].prev_sto = 0
        BY <1>1 DEF Listed
      <3> QED
        BY <1>15, <3>1
    <2>2. ASSUME NEW c \in S
          PROVE  IsNext(S, c, u[c].next_sto) /\ IsPrev(S, c, u[c].prev_sto)
      BY <1>2, <1>15 DEF Listed
    <2>3. S \subseteq E /\ IsNext(S, 0, g.free)
      BY <1>2, <1>16 DEF Listed
    <2> QED
      BY <1>16, <2>1, <2>2, <2>3 DEF Listed
  <1>19. PICK k : k = store_free_block(g, base)
    OBVIOUS
  <1>20. /\ HeapType(k) /\ Listed(k, S \cup {base}) /\ SameBlocks(k.hdr, g.hdr)
         /\ k.blocks = g.blocks /\ k.last = g.last
    <2>1. base \in DOMAIN g.hdr /\ base \notin S
      BY <1>2, <1>7, <1>16
    <2> QED
      BY <1>17, <1>18, <1>19, <2>1, StoreFacts
  <1>21. q.heap = k /\ q.mapped = maps \cup {<<base, base + len>>}
    BY <1>12, <1>19
  <1>22. /\ DOMAIN k.hdr = E
         /\ k.hdr[base].capacity = len - Header /\ k.hdr[base].next_mem = 0
         /\ \A c \in D :
              /\ k.hdr[c].capacity = h.hdr[c].capacity
              /\ k.hdr[c].next_mem = IF c = last THEN base ELSE h.hdr[c].next_mem
    <2>1. \A c \in E : /\ k.hdr[c].capacity = u[c].capacity
                       /\ k.hdr[c].next_mem = u[c].next_mem
      BY <1>16, <1>20 DEF SameBlocks
    <2>2. DOMAIN k.hdr = E
      BY <1>16, <1>20 DEF SameBlocks
    <2> QED
      BY <1>15, <2>1, <2>2
  <1>23. Added(k, h, base)
    <2>1. base # last
      BY <1>2, <1>7, <1>9
    <2> QED
      BY <1>1, <1>7, <1>9, <1>16, <1>20, <1>22, <2>1 DEF Added
  <1>24. k.hdr[base].capacity >= size
    BY <1>2, <1>4, <1>22
  <1>25. Laid(k, q.mapped)
    <2>1. Ends(k, base) = base + len /\ \A c \in D : Ends(k, c) = Ends(h, c)
      BY <1>2, <1>4, <1>5, <1>22 DEF Ends
    <2>2. q.mapped \subseteq Nat \X Nat
      BY <1>4, <1>5, <1>21 DEF Laid
    <2>3. ASSUME NEW c \in E
          PROVE  \E i \in q.mapped : i[1] <= c /\ Ends(k, c) <= i[2]
      <3>1. CASE c \in D
        BY <1>1, <1>21, <2>1, <3>1 DEF Laid
      <3>2. CASE c = base
        <4>1. <<base, base + len>> \in q.mapped
          BY <1>21
        <4>2. base <= base /\ Ends(k, base) <= base + len
          BY <1>4, <1>5, <2>1
        <4> QED
          BY <3>2, <4>1, <4>2
      <3> QED
        BY <3>1, <3>2
    <2>4. ASSUME NEW c \in E, NEW d \in E, c < d
          PROVE  Ends(k, c) <= d
      <3>1. CASE c \in D /\ d \in D
        BY <1>1, <2>1, <2>4, <3>1 DEF Laid
      <3>2. CASE c \in D /\ d = base
        BY <1>6, <2>1, <2>4, <3>2
      <3>3. CASE c = base /\ d \in D
        <4>1. d >= base
          BY <1>2, <1>5, <2>4, <3>3
        <4> QED
          BY <1>6, <2>1, <3>3, <4>1
      <3>4. ~(c = base /\ d = base)
        BY <1>5, <2>4
      <3> QED
        BY <3>1, <3>2, <3>3, <3>4
    <2> QED
      BY <1>22, <2>2, <2>3, <2>4 DEF Laid
  <1> QED
    BY <1>20, <1>21, <1>23, <1>24, <1>25

-----------------------------------------------------------------------------
(***************************************************************************)
(* The chain of all blocks, free or not: s runs through them from the      *)
(* first to the last, each once.                                           *)
(***************************************************************************)
Chain(h, n, s) ==
  /\ n \in Nat \ {0} /\ s \in [1..n -> DOMAIN h.hdr]
  /\ \A i, j \in 1..n : s[i] = s[j] => i = j
  /\ \A c \in DOMAIN h.hdr : \E i \in 1..n : s[i] = c
  /\ s[1] = h.blocks /\ s[n] = h.last
  /\ \A i \in 1..n : i < n => h.hdr[s[i]].next_mem = s[i + 1]
  /\ h.hdr[h.last].next_mem = 0

Chained(h) == \E n, s : Chain(h, n, s)

LEMMA ChainSame ==
  ASSUME NEW h, Chained(h), NEW k, SameBlocks(k.hdr, h.hdr),
         k.blocks = h.blocks, k.last = h.last
  PROVE  Chained(k)
  <1>1. PICK n, s : Chain(h, n, s)
    BY DEF Chained
  <1>2. /\ DOMAIN k.hdr = DOMAIN h.hdr
        /\ \A c \in DOMAIN h.hdr : k.hdr[c].next_mem = h.hdr[c].next_mem
    BY DEF SameBlocks
  <1>3. h.last \in DOMAIN h.hdr
    BY <1>1 DEF Chain
  <1>4. Chain(k, n, s)
    BY <1>1, <1>2, <1>3 DEF Chain
  <1> QED
    BY <1>4 DEF Chained

\* A block cut off another follows it.
LEMMA ChainCut ==
  ASSUME NEW h, Chained(h), NEW b \in DOMAIN h.hdr, NEW new, NEW k,
         Cut(k, h, b, new)
  PROVE  Chained(k)
  <1>1. PICK n, s : Chain(h, n, s)
    BY DEF Chained
  <1>2. /\ n \in Nat \ {0} /\ s \in [1..n -> DOMAIN h.hdr]
        /\ \A i, j \in 1..n : s[i] = s[j] => i = j
        /\ \A c \in DOMAIN h.hdr : \E i \in 1..n : s[i] = c
        /\ s[1] = h.blocks /\ s[n] = h.last
        /\ \A i \in 1..n : i < n => h.hdr[s[i]].next_mem = s[i + 1]
        /\ h.hdr[h.last].next_mem = 0
    BY <1>1 DEF Chain
  <1>3. /\ DOMAIN k.hdr = DOMAIN h.hdr \cup {new} /\ new \notin DOMAIN h.hdr
        /\ k.blocks = h.blocks /\ k.last = IF h.last = b THEN new ELSE h.last
        /\ \A c \in DOMAIN k.hdr :
             k.hdr[c].next_mem = IF c = b THEN new
                                 ELSE IF c = new THEN h.hdr[b].next_mem
                                 ELSE h.hdr[c].next_mem
    BY DEF Cut
  <1>4. PICK j \in 1..n : s[j] = b
    BY <1>2
  <1> DEFINE t == [i \in 1..(n + 1) |-> IF i <= j THEN s[i]
                                        ELSE IF i = j + 1 THEN new ELSE s[i - 1]]
  <1>5. /\ \A i \in 1..j : t[i] = s[i]
        /\ t[j + 1] = new
        /\ \A i \in (j + 1)..n : t[i + 1] = s[i]
    BY <1>2
  <1>6. t \in [1..(n + 1) -> DOMAIN k.hdr]
    BY <1>2, <1>3
  <1>7. ASSUME NEW i \in 1..(n + 1)
        PROVE  \/ i \in 1..j /\ t[i] = s[i] /\ i \in 1..n
               \/ i = j + 1 /\ t[i] = new
               \/ i - 1 \in (j + 1)..n /\ t[i] = s[i - 1] /\ i - 1 \in 1..n
    BY <1>2
  <1> HIDE DEF t
  <1>8. ASSUME NEW a \in 1..(n + 1), NEW c \in 1..(n + 1), t[a] = t[c]
        PROVE  a = c
    <2>1. \A i \in 1..n : s[i] # new
      BY <1>2, <1>3
    <2>2. \A d, e \in 1..n : s[d] = s[e] => d = e
      BY <1>2
    <2>3. CASE a \in 1..j /\ t[a] = s[a] /\ a \in 1..n
      <3>1. CASE c \in 1..j /\ t[c] = s[c] /\ c \in 1..n
        BY <1>8, <2>2, <2>3, <3>1
      <3>2. CASE c = j + 1 /\ t[c] = new
        BY <1>8, <2>1, <2>3, <3>2
      <3>3. CASE c - 1 \in (j + 1)..n /\ t[c] = s[c - 1] /\ c - 1 \in 1..n
        <4>1. s[a] = s[c - 1]
          BY <1>8, <2>3, <3>3
        <4>2. a = c - 1
          BY <2>2, <2>3, <3>3, <4>1
        <4> QED
          BY <2>3, <3>3, <4>2
      <3> QED
        BY <1>7, <3>1, <3>2, <3>3
    <2>4. CASE a = j + 1 /\ t[a] = new
      BY <1>2, <1>7, <1>8, <2>1, <2>4
    <2>5. CASE a - 1 \in (j + 1)..n /\ t[a] = s[a - 1] /\ a - 1 \in 1..n
      <3>1. CASE c \in 1..j /\ t[c] = s[c] /\ c \in 1..n
        <4>1. s[c] = s[a - 1]
          BY <1>8, <2>5, <3>1
        <4>2. c = a - 1
          BY <2>2, <2>5, <3>1, <4>1
        <4> QED
          BY <2>5, <3>1, <4>2
      <3>2. CASE c = j + 1 /\ t[c] = new
        BY <1>8, <2>1, <2>5, <3>2
      <3>3. CASE c - 1 \in (j + 1)..n /\ t[c] = s[c - 1] /\ c - 1 \in 1..n
        <4>1. s[a - 1] = s[c - 1]
          BY <1>8, <2>5, <3>3
        <4>2. a - 1 = c - 1
          BY <2>2, <2>5, <3>3, <4>1
        <4> QED
          BY <4>2
      <3> QED
        BY <1>7, <3>1, <3>2, <3>3
    <2> QED
      BY <1>7, <2>3, <2>4, <2>5
  <1>9. ASSUME NEW c \in DOMAIN k.hdr
        PROVE  \E i \in 1..(n + 1) : t[i] = c
    <2>1. CASE c = new
      <3>1. j + 1 \in 1..(n + 1)
        BY <1>2
      <3> QED
        BY <1>5, <2>1, <3>1
    <2>2. CASE c # new
      <3>1. PICK i \in 1..n : s[i] = c
        BY <1>2, <1>3, <2>2
      <3>2. i \in 1..j \/ i \in (j + 1)..n
        OBVIOUS
      <3>3. i \in 1..(n + 1) /\ i + 1 \in 1..(n + 1)
        BY <1>2
      <3> QED
        BY <1>5, <3>1, <3>2, <3>3
    <2> QED
      BY <2>1, <2>2
  <1>10. t[1] = k.blocks
    <2>1. 1 \in 1..j
      OBVIOUS
    <2> QED
      BY <1>2, <1>3, <1>5, <2>1
  <1>11. (h.last = b) <=> (j = n)
    BY <1>2, <1>4
  <1>12. t[n + 1] = k.last
    <2>1. CASE j = n
      BY <1>3, <1>5, <1>11, <2>1
    <2>2. CASE j # n
      <3>1. n \in (j + 1)..n
        BY <1>2, <2>2
      <3> QED
        BY <1>2, <1>3, <1>5, <1>11, <2>2, <3>1
    <2> QED
      BY <2>1, <2>2
  <1>13. ASSUME NEW i \in 1..(n + 1), i < n + 1
         PROVE  k.hdr[t[i]].next_mem = t[i + 1]
    <2>1. i \in 1..n
      BY <1>2, <1>13
    <2>2. CASE i < j
      <3>1. i \in 1..j /\ i + 1 \in 1..j /\ i < n
        BY <1>2, <2>2
      <3>2. t[i] = s[i] /\ t[i + 1] = s[i + 1]
        BY <1>5, <3>1
      <3>3. s[i] # b /\ s[i] # new /\ s[i] \in DOMAIN h.hdr
        BY <1>2, <1>3, <1>4, <2>1, <2>2
      <3> QED
        BY <1>2, <1>3, <2>1, <3>1, <3>2, <3>3
    <2>3. CASE i = j
      <3>1. t[i] = b /\ t[i + 1] = new
        BY <1>4, <1>5, <2>3
      <3> QED
        BY <1>3, <3>1
    <2>4. CASE i = j + 1
      <3>1. t[i] = new /\ j < n
        BY <1>2, <1>5, <1>13, <2>4
      <3>2. i \in (j + 1)..n
        BY <2>1, <2>4
      <3>3. t[i + 1] = s[i]
        BY <1>5, <3>2
      <3>4. h.hdr[b].next_mem = s[i]
        BY <1>2, <1>4, <2>4, <3>1
      <3>5. k.hdr[new].next_mem = h.hdr[b].next_mem
        BY <1>3
      <3> QED
        BY <3>1, <3>3, <3>4, <3>5
    <2>5. CASE i > j + 1
      <3>1. i - 1 \in (j + 1)..n /\ i \in (j + 1)..n /\ i - 1 \in 1..n /\ i - 1 < n
        BY <1>2, <2>1, <2>5
      <3>2. t[i] = s[i - 1] /\ t[i + 1] = s[i]
        <4>1. t[i - 1 + 1] = s[i - 1]
          BY <1>5, <3>1
        <4> QED
          BY <1>5, <2>1, <3>1, <4>1
      <3>3. s[i - 1] # b /\ s[i - 1] # new /\ s[i - 1] \in DOMAIN h.hdr
        <4>1. i - 1 # j
          BY <2>1, <2>5
        <4> QED
          BY <1>2, <1>3, <1>4, <3>1, <4>1
      <3>4. h.hdr[s[i - 1]].next_mem = s[i]
        <4>1. h.hdr[s[i - 1]].next_mem = s[i - 1 + 1] /\ i - 1 + 1 = i
          BY <1>2, <3>1
        <4> QED
          BY <4>1
      <3> QED
        BY <1>3, <3>2, <3>3, <3>4
    <2> QED
      BY <2>1, <2>2, <2>3, <2>4, <2>5
  <1>14. k.hdr[k.last].next_mem = 0
    BY <1>2, <1>3
  <1>15. Chain(k, n + 1, t)
    <2>1. n + 1 \in Nat \ {0}
      BY <1>2
    <2> QED
      BY <1>6, <1>8, <1>9, <1>10, <1>12, <1>13, <1>14, <2>1 DEF Chain
  <1> QED
    BY <1>15 DEF Chained

\* A block of its own mapping comes last.
LEMMA ChainAdded ==
  ASSUME NEW h, Chained(h), NEW base, NEW k, Added(k, h, base)
  PROVE  Chained(k)
  <1>1. PICK n, s : Chain(h, n, s)
    BY DEF Chained
  <1>2. /\ n \in Nat \ {0} /\ s \in [1..n -> DOMAIN h.hdr]
        /\ \A i, j \in 1..n : s[i] = s[j] => i = j
        /\ \A c \in DOMAIN h.hdr : \E i \in 1..n : s[i] = c
        /\ s[1] = h.blocks /\ s[n] = h.last
        /\ \A i \in 1..n : i < n => h.hdr[s[i]].next_mem = s[i + 1]
    BY <1>1 DEF Chain
  <1>3. /\ DOMAIN k.hdr = DOMAIN h.hdr \cup {base} /\ base \notin DOMAIN h.hdr
        /\ k.blocks = h.blocks /\ k.last = base
        /\ \A c \in DOMAIN k.hdr :
             k.hdr[c].next_mem = IF c = h.last THEN base
                                 ELSE IF c = base THEN 0 ELSE h.hdr[c].next_mem
    BY DEF Added
  <1> DEFINE t == [i \in 1..(n + 1) |-> IF i = n + 1 THEN base ELSE s[i]]
  <1>4. /\ t[n + 1] = base /\ t \in [1..(n + 1) -> DOMAIN k.hdr]
        /\ \A i \in 1..n : t[i] = s[i] /\ i \in 1..(n + 1) /\ s[i] # base
        /\ \A i \in 1..(n + 1) : i = n + 1 \/ i \in 1..n
    BY <1>2, <1>3
  <1> HIDE DEF t
  <1>5. ASSUME NEW a \in 1..(n + 1), NEW c \in 1..(n + 1), t[a] = t[c]
        PROVE  a = c
    BY <1>2, <1>4, <1>5
  <1>6. \A c \in DOMAIN k.hdr : \E i \in 1..(n + 1) : t[i] = c
    <2>1. n + 1 \in 1..(n + 1)
      BY <1>2
    <2> QED
      BY <1>2, <1>3, <1>4, <2>1
  <1>7. ASSUME NEW i \in 1..(n + 1), i < n + 1
        PROVE  k.hdr[t[i]].next_mem = t[i + 1]
    <2>1. i \in 1..n /\ t[i] = s[i] /\ s[i] # base /\ s[i] \in DOMAIN k.hdr
      BY <1>2, <1>3, <1>4, <1>7
    <2>2. CASE i = n
      BY <1>2, <1>3, <1>4, <2>1, <2>2
    <2>3. CASE i # n
      <3>1. i < n /\ i + 1 \in 1..n /\ n \in 1..n
        BY <1>2, <2>1, <2>3
      <3>2. s[i] # h.last
        BY <1>2, <2>1, <2>3, <3>1
      <3> QED
        BY <1>2, <1>3, <1>4, <2>1, <3>1, <3>2
    <2> QED
      BY <2>2, <2>3
  <1>8. t[1] = k.blocks
    <2>1. 1 \in 1..n
      BY <1>2
    <2> QED
      BY <1>2, <1>3, <1>4, <2>1
  <1>9. k.hdr[k.last].next_mem = 0
    <2>1. h.last \in DOMAIN h.hdr
      BY <1>2
    <2> QED
      BY <1>3, <2>1
  <1>10. Chain(k, n + 1, t)
    <2>1. n + 1 \in Nat \ {0}
      BY <1>2
    <2> QED
      BY <1>3, <1>4, <1>5, <1>6, <1>7, <1>8, <1>9, <2>1 DEF Chain
  <1> QED
    BY <1>10 DEF Chained

-----------------------------------------------------------------------------
(***************************************************************************)
(* The heap between two calls: typed, laid out, chained, and the free list *)
(* holds what is not in G, the blocks handed out.                          *)
(***************************************************************************)
Good(h, maps, G) ==
  /\ HeapType(h) /\ Laid(h, maps) /\ Chained(h)
  /\ G \subseteq DOMAIN h.hdr /\ Listed(h, DOMAIN h.hdr \ G)

\* Heap k has the blocks of h and maybe more; those in G are as large as ever.
Grown(k, h, G) ==
  /\ DOMAIN h.hdr \subseteq DOMAIN k.hdr
  /\ \A c \in G : k.hdr[c].capacity = h.hdr[c].capacity

\* cook_free_block makes b one more block that is handed out.
LEMMA CookKeeps ==
  ASSUME NEW h, NEW maps, NEW G, Good(h, maps, G),
         NEW b \in DOMAIN h.hdr \ G, NEW size \in Nat \ {0},
         h.hdr[b].capacity >= size,
         NEW k, k = cook_free_block(h, b, size)
  PROVE  /\ Good(k, maps, G \cup {b}) /\ Grown(k, h, G)
         /\ Fits(k.hdr[b].capacity, size)
  <1>1. PICK S : S = DOMAIN h.hdr \ G
    OBVIOUS
  <1>2. /\ HeapType(h) /\ Laid(h, maps) /\ Chained(h) /\ Listed(h, S) /\ b \in S
        /\ G \subseteq DOMAIN h.hdr
    BY <1>1 DEF Good
  <1>3. /\ HeapType(k) /\ Laid(k, maps) /\ Fits(k.hdr[b].capacity, size)
        /\ k.blocks = h.blocks
        /\ \E T : Listed(k, T) /\ Cooked(k, h, S, T, b)
    BY <1>2, CookFacts
  <1>4. PICK T : Listed(k, T) /\ Cooked(k, h, S, T, b)
    BY <1>3
  <1>5. CASE SameBlocks(k.hdr, h.hdr) /\ k.last = h.last /\ T = S \ {b}
    <2>1. Chained(k)
      BY <1>2, <1>3, <1>5, ChainSame
    <2>2. DOMAIN k.hdr = DOMAIN h.hdr /\ Grown(k, h, G)
      BY <1>2, <1>5 DEF SameBlocks, Grown
    <2>3. T = DOMAIN k.hdr \ (G \cup {b})
      BY <1>1, <1>5, <2>2
    <2> QED
      BY <1>2, <1>3, <1>4, <2>1, <2>2, <2>3 DEF Good
  <1>6. CASE \E new : Cut(k, h, b, new) /\ T = (S \cup {new}) \ {b}
    <2>1. PICK new : Cut(k, h, b, new) /\ T = (S \cup {new}) \ {b}
      BY <1>6
    <2>2. Chained(k)
      BY <1>2, <2>1, ChainCut
    <2>3. /\ DOMAIN k.hdr = DOMAIN h.hdr \cup {new} /\ new \notin DOMAIN h.hdr
          /\ Grown(k, h, G)
      BY <1>1, <1>2, <2>1 DEF Cut, Grown
    <2>4. T = DOMAIN k.hdr \ (G \cup {b})
      BY <1>1, <1>2, <2>1, <2>3
    <2> QED
      BY <1>2, <1>3, <1>4, <2>2, <2>3, <2>4 DEF Good
  <1> QED
    BY <1>4, <1>5, <1>6 DEF Cooked

\* create_new_block makes one more block that is free, and large enough.
LEMMA CreateKeeps ==
  ASSUME NEW r, NEW G, Good(r.heap, r.mapped, G), NEW size \in Nat \ {0},
         NEW base \in Places(r.mapped, align(size + Header, Page)),
         NEW q, q = create_new_block(r, base, size)
  PROVE  /\ Good(q.heap, q.mapped, G) /\ Grown(q.heap, r.heap, G)
         /\ base \in DOMAIN q.heap.hdr \ G
         /\ q.heap.hdr[base].capacity >= size
  <1>1. PICK h : h = r.heap
    OBVIOUS
  <1>2. PICK maps : maps = r.mapped
    OBVIOUS
  <1>3. PICK S : S = DOMAIN h.hdr \ G
    OBVIOUS
  <1>4. /\ HeapType(h) /\ Laid(h, maps) /\ Chained(h) /\ Listed(h, S)
        /\ G \subseteq DOMAIN h.hdr
    BY <1>1, <1>2, <1>3 DEF Good
  <1>5. h.last # 0
    <2>1. PICK n, s : Chain(h, n, s)
      BY <1>4 DEF Chained
    <2> QED
      BY <1>4, <2>1 DEF Chain, HeapType
  <1>6. /\ HeapType(q.heap) /\ Listed(q.heap, S \cup {base})
        /\ Laid(q.heap, q.mapped) /\ Added(q.heap, h, base)
        /\ q.heap.hdr[base].capacity >= size
    BY <1>1, <1>2, <1>4, <1>5, CreateFacts
  <1>7. PICK k : k = q.heap
    OBVIOUS
  <1>8. Chained(k)
    BY <1>4, <1>6, <1>7, ChainAdded
  <1>9. /\ DOMAIN k.hdr = DOMAIN h.hdr \cup {base} /\ base \notin DOMAIN h.hdr
        /\ Grown(k, h, G)
    BY <1>4, <1>6, <1>7 DEF Added, Grown
  <1>10. S \cup {base} = DOMAIN k.hdr \ G
    BY <1>3, <1>4, <1>9
  <1> QED
    BY <1>1, <1>4, <1>6, <1>7, <1>8, <1>9, <1>10 DEF Good

\* The two pages of the first call.
LEMMA FirstPages ==
  ASSUME mapped = {}, NEW r \in get_memory_data
  PROVE  Good(r.heap, r.mapped, {}) /\ r.mapped # {}
  <1>1. PICK m \in Places({}, Page) :
          \E b \in Places({<<m, m + Page>>}, Page) :
            r = [heap |-> [hdr |-> [c \in {b} |-> init_block(Page - Header)],
                           blocks |-> b, last |-> b, free |-> b],
                 mapped |-> {<<m, m + Page>>, <<b, b + Page>>}]
    BY DEF get_memory_data
  <1>2. PICK b \in Places({<<m, m + Page>>}, Page) :
          r = [heap |-> [hdr |-> [c \in {b} |-> init_block(Page - Header)],
                         blocks |-> b, last |-> b, free |-> b],
               mapped |-> {<<m, m + Page>>, <<b, b + Page>>}]
    BY <1>1
  <1>3. PICK h : h = r.heap
    OBVIOUS
  <1>4. /\ m \in Nat \ {0} /\ b \in Nat \ {0} /\ Page \in Nat \ {0}
        /\ Header \in Nat \ {0} /\ Page - Header \in Nat
    BY AllocatorAssumption DEF Places
  <1>5. /\ h.hdr = [c \in {b} |-> init_block(Page - Header)]
        /\ h = [hdr |-> h.hdr, blocks |-> b, last |-> b, free |-> b]
        /\ r.mapped = {<<m, m + Page>>, <<b, b + Page>>}
        /\ DOMAIN h.hdr = {b} /\ h.last = b /\ h.blocks = b /\ h.free = b
        /\ h.hdr[b].capacity = Page - Header /\ h.hdr[b].next_mem = 0
        /\ h.hdr[b].next_sto = 0 /\ h.hdr[b].prev_sto = 0
    BY <1>2, <1>3 DEF init_block
  <1>6. HeapType(h)
    <2>1. h.hdr \in [{b} -> Headers({b})]
      BY <1>4, <1>5 DEF init_block, Headers
    <2>2. h \in [hdr : [{b} -> Headers({b})], blocks : {b} \cup {0},
                 last : {b} \cup {0}, free : {b} \cup {0}]
      BY <1>5, <2>1
    <2>3. \E top \in Nat : \A c \in {b} : c <= top
      BY <1>4
    <2> QED
      BY <1>4, <1>5, <2>2, <2>3 DEF HeapType
  <1>7. Laid(h, r.mapped)
    <2>1. Ends(h, b) = b + Page
      BY <1>4, <1>5 DEF Ends
    <2>2. <<b, b + Page>> \in r.mapped /\ r.mapped \subseteq Nat \X Nat
      BY <1>4, <1>5
    <2>3. \E i \in r.mapped : i[1] <= b /\ Ends(h, b) <= i[2]
      <3>1. b <= b /\ b + Page <= b + Page
        BY <1>4
      <3> QED
        BY <2>1, <2>2, <3>1
    <2>4. ~(b < b)
      BY <1>4
    <2> QED
      BY <1>5, <2>2, <2>3, <2>4 DEF Laid
  <1>8. Listed(h, {b})
    BY <1>4, <1>5 DEF Listed, IsNext, IsPrev
  <1>9. Chained(h)
    <2>1. Chain(h, 1, [i \in 1..1 |-> b])
      BY <1>5 DEF Chain
    <2> QED
      BY <2>1 DEF Chained
  <1> QED
    <2>1. DOMAIN h.hdr \ {} = {b} /\ {} \subseteq DOMAIN h.hdr
      BY <1>5
    <2> QED
      BY <1>5, <1>3, <1>6, <1>7, <1>8, <1>9, <2>1 DEF Good

\* What headers and owners may have written.
MayWrite(h, G) ==
  {<<c, c + Header>> : c \in DOMAIN h.hdr} \cup {<<c, Ends(h, c)>> : c \in G}

\* The inductive invariant of the heap.
IInv ==
  /\ IF mapped = {} THEN heap = Null /\ DOMAIN given = {}
     ELSE Good(heap, mapped, DOMAIN given)
  /\ given \in [DOMAIN given -> Nat \ {0}]
  /\ \A b \in DOMAIN given : Fits(heap.hdr[b].capacity, Size(given[b]))
  /\ used \subseteq MayWrite(heap, DOMAIN given)
  /\ answer \in Block \cup {0}
  /\ calls \in 0..MaxCalls
  /\ status \in {"running", "crashed"}

\* What a call that hands out a block changes of the others.
Handed(b, n) ==
  /\ b \in DOMAIN heap'.hdr \ DOMAIN given
  /\ answer' = b /\ given' = Put(given, b, n)
  /\ Grown(heap', heap, DOMAIN given)
  /\ used' = used \cup {<<c, c + Header>> : c \in DOMAIN heap'.hdr}
                  \cup {<<b, Ends(heap', b)>>}

LEMMA HandOutKeeps ==
  ASSUME IInv, Running, NEW n \in Nat \ {0}, NEW r,
         Good(r.heap, r.mapped, DOMAIN given), r.mapped # {},
         Grown(r.heap, heap, DOMAIN given),
         NEW b \in DOMAIN r.heap.hdr \ DOMAIN given,
         r.heap.hdr[b].capacity >= Size(n),
         HandOut(r, b, n)
  PROVE  IInv' /\ Handed(b, n)
  <1>1. PICK G : G = DOMAIN given
    OBVIOUS
  <1>2. PICK size \in Nat \ {0} : size = Size(n)
    BY SizeFacts
  <1>3. PICK h : h = r.heap
    OBVIOUS
  <1>4. PICK k : k = cook_free_block(h, b, size)
    OBVIOUS
  <1>5. /\ heap' = k /\ mapped' = r.mapped /\ given' = Put(given, b, n)
        /\ answer' = b /\ calls' = calls + 1 /\ status' = status
        /\ used' = used \cup {<<c, c + Header>> : c \in DOMAIN k.hdr}
                        \cup {<<b, Ends(k, b)>>}
    BY <1>2, <1>3, <1>4 DEF HandOut, Ends
  <1>6. PICK maps : maps = r.mapped
    OBVIOUS
  <1>7. /\ Good(k, maps, G \cup {b}) /\ Grown(k, h, G)
        /\ Fits(k.hdr[b].capacity, size)
    <2>1. /\ Good(h, maps, G) /\ b \in DOMAIN h.hdr \ G
          /\ h.hdr[b].capacity >= size
      BY <1>1, <1>2, <1>3, <1>6
    <2> QED
      BY <1>4, <2>1, CookKeeps
  <1>8. /\ DOMAIN given' = G \cup {b} /\ given'[b] = n
        /\ \A c \in G : given'[c] = given[c]
        /\ given' \in [DOMAIN given' -> Nat \ {0}]
    <2>1. given \in [G -> Nat \ {0}]
      BY <1>1 DEF IInv
    <2> QED
      BY <1>1, <1>5, <2>1 DEF Put
  <1>9. Grown(k, heap, G) /\ b \in DOMAIN k.hdr
    BY <1>1, <1>3, <1>7 DEF Grown
  <1>10. Good(heap', mapped', DOMAIN given') /\ mapped' # {}
    BY <1>5, <1>6, <1>7, <1>8
  <1>11. \A c \in DOMAIN given' : Fits(heap'.hdr[c].capacity, Size(given'[c]))
    <2>1. ASSUME NEW c \in G
          PROVE  Fits(k.hdr[c].capacity, Size(given[c]))
      BY <1>1, <1>9 DEF Grown, IInv
    <2> QED
      BY <1>2, <1>5, <1>7, <1>8, <2>1
  <1>12. used' \subseteq MayWrite(heap', DOMAIN given')
    <2>1. \A c \in G : <<c, Ends(heap, c)>> = <<c, Ends(k, c)>>
      BY <1>9 DEF Grown, Ends
    <2>2. MayWrite(heap, G) \subseteq MayWrite(k, G \cup {b})
      BY <1>9, <2>1 DEF MayWrite, Grown
    <2>3. used \subseteq MayWrite(k, G \cup {b})
      BY <1>1, <2>2 DEF IInv
    <2>4. {<<c, c + Header>> : c \in DOMAIN k.hdr} \cup {<<b, Ends(k, b)>>}
            \subseteq MayWrite(k, G \cup {b})
      BY DEF MayWrite
    <2> QED
      BY <1>5, <1>8, <2>3, <2>4
  <1>13. calls' \in 0..MaxCalls /\ status' \in {"running", "crashed"}
         /\ answer' \in DOMAIN heap'.hdr
    BY <1>5, <1>9, AllocatorAssumption DEF IInv, Running
  <1>14. IInv'
    BY <1>8, <1>10, <1>11, <1>12, <1>13 DEF IInv, Block
  <1>15. Handed(b, n)
    BY <1>1, <1>5, <1>9 DEF Handed
  <1> QED
    BY <1>14, <1>15

LEMMA MallocKeeps ==
  ASSUME IInv, NEW n \in Nat \ {0}, malloc(n)
  PROVE  /\ IInv' /\ mapped' # {} /\ answer' # 0
         /\ Handed(answer', n)
  <1> DEFINE G == DOMAIN given
  <1>1. PICK r \in get_memory_data :
          LET b == get_free_block(r.heap, Size(n))
          IN  \/ b # 0 /\ HandOut(r, b, n)
              \/ /\ b = 0
                 /\ \E base \in Places(r.mapped, align(Size(n) + Header, Page)) :
                      HandOut(create_new_block(r, base, Size(n)), base, n)
    BY DEF malloc
  <1>2. PICK size \in Nat \ {0} : size = Size(n)
    BY SizeFacts
  <1>3. PICK h : h = r.heap
    OBVIOUS
  <1>4. /\ Good(h, r.mapped, G) /\ r.mapped # {} /\ Grown(h, heap, G)
    <2>1. CASE mapped = {}
      <3>1. G = {} /\ DOMAIN heap.hdr = {}
        BY <2>1 DEF IInv, Null
      <3>2. Good(r.heap, r.mapped, {}) /\ r.mapped # {}
        BY <2>1, FirstPages
      <3> QED
        BY <1>3, <3>1, <3>2 DEF Grown
    <2>2. CASE mapped # {}
      BY <1>3, <2>2 DEF get_memory_data, IInv, Grown
    <2> QED
      BY <2>1, <2>2
  <1>5. PICK S : S = DOMAIN h.hdr \ G
    OBVIOUS
  <1>6. HeapType(h) /\ Listed(h, S)
    BY <1>4, <1>5 DEF Good
  <1>7. PICK b : b = get_free_block(h, size)
    OBVIOUS
  <1>8. Running
    BY DEF malloc
  <1>9. CASE b # 0 /\ HandOut(r, b, n)
    <2>1. b \in S /\ h.hdr[b].capacity >= size
      <3>1. size \in Nat
        OBVIOUS
      <3> QED
        BY <1>6, <1>7, <1>9, <3>1, GetFreeFacts
    <2>2. /\ Good(r.heap, r.mapped, DOMAIN given)
          /\ Grown(r.heap, heap, DOMAIN given)
          /\ b \in DOMAIN r.heap.hdr \ DOMAIN given
          /\ r.heap.hdr[b].capacity >= Size(n)
      BY <1>2, <1>3, <1>4, <1>5, <2>1
    <2>3. IInv' /\ Handed(b, n)
      BY <1>4, <1>8, <1>9, <2>2, HandOutKeeps
    <2> QED
      BY <1>4, <1>9, <2>3 DEF Handed, HandOut
  <1>10. CASE \E base \in Places(r.mapped, align(size + Header, Page)) :
                HandOut(create_new_block(r, base, size), base, n)
    <2>1. PICK base \in Places(r.mapped, align(size + Header, Page)) :
            HandOut(create_new_block(r, base, size), base, n)
      BY <1>10
    <2>2. PICK q : q = create_new_block(r, base, size)
      OBVIOUS
    <2>3. /\ Good(q.heap, q.mapped, G) /\ Grown(q.heap, h, G)
          /\ base \in DOMAIN q.heap.hdr \ G
          /\ q.heap.hdr[base].capacity >= size
      <3>1. Good(r.heap, r.mapped, G)
        BY <1>3, <1>4
      <3> HIDE DEF G
      <3> QED
        BY <1>3, <2>2, <3>1, CreateKeeps
    <2>4. q.mapped # {} /\ base # 0
      <3>1. base \in Bases
        BY DEF Places
      <3> QED
        BY <2>2, <3>1, AllocatorAssumption DEF create_new_block
    <2>5. Grown(q.heap, heap, G)
      BY <1>4, <2>3 DEF Grown
    <2>6. IInv' /\ Handed(base, n)
      <3>1. /\ Good(q.heap, q.mapped, DOMAIN given)
            /\ Grown(q.heap, heap, DOMAIN given)
            /\ base \in DOMAIN q.heap.hdr \ DOMAIN given
            /\ q.heap.hdr[base].capacity >= Size(n)
            /\ HandOut(q, base, n)
        BY <1>2, <2>1, <2>2, <2>3, <2>5
      <3> QED
        BY <1>8, <2>4, <3>1, HandOutKeeps
    <2> QED
      BY <2>1, <2>2, <2>4, <2>6 DEF Handed, HandOut
  <1> QED
    BY <1>1, <1>2, <1>3, <1>7, <1>9, <1>10

\* A step of the heap alone, whatever its callers ask for.
HeapStep ==
  \/ \E n \in Nat \ {0} : malloc(n) \/ OutOfMemory(n)
  \/ NoBlock

LEMMA IInvInit == Init => IInv
  <1> SUFFICES ASSUME Init
               PROVE  IInv
    OBVIOUS
  <1>1. /\ heap = Null /\ mapped = {} /\ DOMAIN given = {} /\ answer = 0
        /\ calls = 0 /\ used = {} /\ status = "running"
        /\ given = [c \in {} |-> 0]
    BY DEF Init
  <1>2. given \in [DOMAIN given -> Nat \ {0}]
    BY <1>1
  <1> QED
    BY <1>1, <1>2, AllocatorAssumption DEF IInv

LEMMA IInvStep == IInv /\ [HeapStep]_vars => IInv'
  <1> SUFFICES ASSUME IInv, [HeapStep]_vars
               PROVE  IInv'
    OBVIOUS
  <1>1. ASSUME NEW n \in Nat \ {0}, malloc(n)
        PROVE  IInv'
    BY <1>1, MallocKeeps
  <1>2. ASSUME NEW n \in Nat \ {0}, OutOfMemory(n)
        PROVE  IInv'
    BY <1>2 DEF OutOfMemory, IInv, Block
  <1>3. CASE NoBlock
    BY <1>3 DEF NoBlock, IInv, Block
  <1>4. CASE UNCHANGED vars
    BY <1>4 DEF vars, IInv, Block
  <1> QED
    BY <1>1, <1>2, <1>3, <1>4 DEF HeapStep

\* What the invariant says whether or not pages were mapped.
LEMMA IInvFacts ==
  ASSUME IInv
  PROVE  /\ HeapType(heap) /\ Laid(heap, mapped)
         /\ DOMAIN given \subseteq Block /\ Listed(heap, Block \ DOMAIN given)
         /\ mapped # {} => Chained(heap)
  <1>1. CASE mapped = {}
    <2>1. /\ heap = Null /\ Block = {} /\ DOMAIN given = {}
          /\ DOMAIN heap.hdr = {}
      BY <1>1 DEF IInv, Null, Block
    <2>2. HeapType(heap)
      <3>1. heap \in [hdr : [{} -> Headers({})], blocks : {} \cup {0},
                      last : {} \cup {0}, free : {} \cup {0}]
        BY <2>1 DEF Null
      <3>2. \E top \in Nat : \A b \in {} : b <= top
        BY 0 \in Nat
      <3> QED
        BY <2>1, <3>1, <3>2 DEF HeapType
    <2>3. Laid(heap, mapped)
      BY <1>1, <2>1 DEF Laid
    <2>4. Listed(heap, {})
      <3>1. heap.free = 0
        BY <2>1 DEF Null
      <3> QED
        BY <2>1, <3>1 DEF Listed, IsNext
    <2> QED
      BY <1>1, <2>1, <2>2, <2>3, <2>4
  <1>2. CASE mapped # {}
    BY <1>2 DEF IInv, Good, Block
  <1> QED
    BY <1>1, <1>2

LEMMA TypeCorrect == IInv => TypeOK
  <1> SUFFICES ASSUME IInv
               PROVE  TypeOK
    OBVIOUS
  <1>1. /\ HeapType(heap) /\ Laid(heap, mapped) /\ DOMAIN given \subseteq Block
    BY IInvFacts
  <1>2. /\ Block \subseteq Nat \ {0}
        /\ heap.hdr \in [Block -> [capacity : Nat, next_mem : Block \cup {0},
                                   next_sto : Block \cup {0},
                                   prev_sto : Block \cup {0}]]
        /\ {heap.blocks, heap.last, heap.free} \subseteq Block \cup {0}
    BY <1>1 DEF HeapType, Headers, Block
  <1>3. mapped \subseteq Nat \X Nat
    BY <1>1 DEF Laid
  <1> QED
    BY <1>1, <1>2, <1>3 DEF TypeOK, IInv

LEMMA DisjointBlocks == IInv => BlocksDisjoint
  <1> SUFFICES ASSUME IInv
               PROVE  BlocksDisjoint
    OBVIOUS
  <1>1. HeapType(heap) /\ Laid(heap, mapped) /\ DOMAIN given \subseteq Block
    BY IInvFacts
  <1>2. ASSUME NEW b \in DOMAIN given
        PROVE  heap.hdr[b].capacity >= given[b] + 10
    <2>1. PICK n \in Nat \ {0} : n = given[b]
      BY DEF IInv
    <2>2. Size(n) \in Nat \ {0} /\ n + 10 <= Size(n)
      BY SizeFacts
    <2>3. Size(n) <= heap.hdr[b].capacity
      BY <2>1 DEF IInv, Fits
    <2>4. heap.hdr[b].capacity \in Nat
      BY <1>1 DEF HeapType, Headers, Block
    <2> QED
      BY <2>1, <2>2, <2>3, <2>4
  <1>3. ASSUME NEW b \in Block
        PROVE  \E i \in mapped : i[1] <= b /\ Extent(b)[2] <= i[2]
    <2>1. Extent(b)[2] = Ends(heap, b)
      BY DEF Extent, Ends
    <2> QED
      BY <1>1, <2>1 DEF Laid, Block
  <1>4. ASSUME NEW b \in Block, NEW c \in Block \ {b}
        PROVE  Disjoint(Extent(b), Extent(c))
    <2>1. Extent(b) = <<b, Ends(heap, b)>> /\ Extent(c) = <<c, Ends(heap, c)>>
      BY DEF Extent, Ends
    <2>2. b \in Nat /\ c \in Nat /\ b # c
      BY <1>1 DEF HeapType, Block
    <2>3. b < c \/ c < b
      BY <2>2
    <2> QED
      BY <1>1, <2>1, <2>3 DEF Laid, Block, Disjoint
  <1> QED
    BY <1>2, <1>3, <1>4 DEF BlocksDisjoint

LEMMA OrderedList == IInv => FreeListInOrder
  <1> SUFFICES ASSUME IInv
               PROVE  FreeListInOrder
    OBVIOUS
  <1> DEFINE F == Block \ DOMAIN given
             First(S) == IF S = {} THEN 0 ELSE CHOOSE b \in S : \A c \in S : b <= c
             Last(S) == IF S = {} THEN 0 ELSE CHOOSE b \in S : \A c \in S : c <= b
  <1>1. F \in SUBSET (Nat \ {0}) /\ Listed(heap, F)
    BY IInvFacts DEF HeapType, Block
  <1>2. ASSUME NEW S \in SUBSET Nat, NEW n, n \in S, \A c \in S : n <= c
        PROVE  First(S) = n
    <2>1. (CHOOSE b \in S : \A c \in S : b <= c) = n
      <3>1. PICK m : m = CHOOSE b \in S : \A c \in S : b <= c
        OBVIOUS
      <3>2. m \in S /\ \A c \in S : m <= c
        BY <1>2, <3>1
      <3>3. m \in Nat /\ n \in Nat /\ m <= n /\ n <= m
        BY <1>2, <3>2
      <3> QED
        BY <3>1, <3>3
    <2> QED
      BY <1>2, <2>1
  <1>3. ASSUME NEW S \in SUBSET Nat, NEW n, n \in S, \A c \in S : c <= n
        PROVE  Last(S) = n
    <2>1. (CHOOSE b \in S : \A c \in S : c <= b) = n
      <3>1. PICK m : m = CHOOSE b \in S : \A c \in S : c <= b
        OBVIOUS
      <3>2. m \in S /\ \A c \in S : c <= m
        BY <1>3, <3>1
      <3>3. m \in Nat /\ n \in Nat /\ m <= n /\ n <= m
        BY <1>3, <3>2
      <3> QED
        BY <3>1, <3>3
    <2> QED
      BY <1>3, <2>1
  <1>4. ASSUME NEW b \in Nat, NEW n, IsNext(F, b, n)
        PROVE  First({c \in F : c > b}) = n
    <2> DEFINE S == {c \in F : c > b}
    <2>1. S \in SUBSET Nat
      BY <1>1
    <2>2. CASE n = 0
      <3>1. S = {}
        BY <1>1, <1>4, <2>2 DEF IsNext
      <3> QED
        BY <2>2, <3>1
    <2>3. CASE n # 0
      <3>1. n \in S /\ \A c \in S : n <= c
        BY <1>1, <1>4, <2>3 DEF IsNext
      <3> HIDE DEF S, First
      <3>2. First(S) = n
        BY <1>2, <2>1, <3>1
      <3> QED
        BY <3>2 DEF S
    <2> QED
      BY <2>2, <2>3
  <1>5. ASSUME NEW b \in Nat, NEW p, IsPrev(F, b, p)
        PROVE  Last({c \in F : c < b}) = p
    <2> DEFINE S == {c \in F : c < b}
    <2>1. S \in SUBSET Nat
      BY <1>1
    <2>2. CASE p = 0
      <3>1. S = {}
        BY <1>1, <1>5, <2>2 DEF IsPrev
      <3> QED
        BY <2>2, <3>1
    <2>3. CASE p # 0
      <3>1. p \in S /\ \A c \in S : c <= p
        BY <1>1, <1>5, <2>3 DEF IsPrev
      <3> HIDE DEF S, Last
      <3>2. Last(S) = p
        BY <1>3, <2>1, <3>1
      <3> QED
        BY <3>2 DEF S
    <2> QED
      BY <2>2, <2>3
  <1>6. heap.free = First(F)
    <2>1. IsNext(F, 0, heap.free)
      BY <1>1 DEF Listed
    <2>2. {c \in F : c > 0} = F
      BY <1>1
    <2> HIDE DEF F, First
    <2> QED
      BY <1>4, <2>1, <2>2
  <1>7. ASSUME NEW b \in F
        PROVE  /\ heap.hdr[b].next_sto = First({c \in F : c > b})
               /\ heap.hdr[b].prev_sto = Last({c \in F : c < b})
    <2>1. /\ IsNext(F, b, heap.hdr[b].next_sto)
          /\ IsPrev(F, b, heap.hdr[b].prev_sto)
      BY <1>1 DEF Listed
    <2>2. b \in Nat
      BY <1>1
    <2> HIDE DEF F, First, Last
    <2> QED
      BY <1>4, <1>5, <2>1, <2>2
  <1> QED
    BY <1>6, <1>7 DEF FreeListInOrder

\* Following next_mem from the first block is going through the chain.
LEMMA ChainedBlocks == IInv => EveryBlockIsChained
  <1> SUFFICES ASSUME IInv, mapped # {}
               PROVE  LET n == Cardinality(Block)
                          Visit[k \in 1..n] ==
                            IF k = 1 THEN heap.blocks
                            ELSE IF Visit[k - 1] = 0 THEN 0
                            ELSE heap.hdr[Visit[k - 1]].next_mem
                      IN  /\ {Visit[k] : k \in 1..n} = Block
                          /\ heap.last = Visit[n]
                          /\ heap.hdr[heap.last].next_mem = 0
    BY DEF EveryBlockIsChained
  <1>1. PICK m, s : Chain(heap, m, s)
    BY IInvFacts DEF Chained
  <1>2. m = Cardinality(Block)
    <2>1. /\ m \in Nat \ {0} /\ s \in [1..m -> Block]
          /\ \A i, j \in 1..m : s[i] = s[j] => i = j
          /\ \A c \in Block : \E i \in 1..m : s[i] = c
      BY <1>1 DEF Chain, Block
    <2>2. s \in Bijection(1..m, Block)
      BY <2>1 DEF Bijection, Injection, Surjection, IsInjective
    <2>3. ExistsBijection(1..m, Block)
      BY <2>2 DEF ExistsBijection
    <2> QED
      BY <2>1, <2>3, FS_CountingElements
  <1> DEFINE n == Cardinality(Block)
  <1>3. /\ n \in Nat \ {0} /\ s \in [1..n -> Block]
        /\ \A c \in Block : \E i \in 1..n : s[i] = c
        /\ s[1] = heap.blocks /\ s[n] = heap.last
        /\ \A i \in 1..n : i < n => heap.hdr[s[i]].next_mem = s[i + 1]
        /\ heap.hdr[heap.last].next_mem = 0
    BY <1>1, <1>2 DEF Chain, Block
  <1>4. 0 \notin Block
    BY IInvFacts DEF HeapType, Block
  <1> DEFINE Visit[k \in 1..n] ==
               IF k = 1 THEN heap.blocks
               ELSE IF Visit[k - 1] = 0 THEN 0
               ELSE heap.hdr[Visit[k - 1]].next_mem
             E(k, f) == IF k = 1 THEN heap.blocks
                        ELSE IF f[k - 1] = 0 THEN 0
                        ELSE heap.hdr[f[k - 1]].next_mem
  <1> HIDE DEF n
  <1>5. s = [k \in 1..n |-> E(k, s)]
    <2>1. ASSUME NEW k \in 1..n
          PROVE  s[k] = E(k, s)
      <3>1. CASE k = 1
        BY <1>3, <3>1
      <3>2. CASE k # 1
        <4>1. k - 1 \in 1..n /\ k - 1 < n /\ k - 1 + 1 = k
          BY <1>3, <3>2
        <4>2. s[k - 1] # 0 /\ heap.hdr[s[k - 1]].next_mem = s[k - 1 + 1]
          BY <1>3, <1>4, <4>1, SMTT(30)
        <4> QED
          BY <3>2, <4>1, <4>2
      <3> QED
        BY <3>1, <3>2
    <2> HIDE DEF E
    <2> QED
      BY <1>3, <2>1
  <1>6. Visit = [k \in 1..n |-> E(k, Visit)]
    BY <1>5
  <1> HIDE DEF Visit
  <1>7. \A k \in 1..n : Visit[k] = s[k]
    <2> DEFINE Bad == {k \in Nat : k \in 1..n /\ Visit[k] # s[k]}
    <2> SUFFICES ASSUME Bad # {}
                 PROVE  FALSE
      OBVIOUS
    <2>1. Bad \in SUBSET Nat
      OBVIOUS
    <2>2. PICK k \in Bad : \A j \in Bad : k <= j
      <3> HIDE DEF Bad
      <3> QED
        BY <2>1, LeastNumber
    <2>3. k \in 1..n /\ Visit[k] # s[k]
      OBVIOUS
    <2>4. Visit[k] = E(k, Visit) /\ s[k] = E(k, s)
      <3> HIDE DEF E
      <3>1. \A i \in 1..n : Visit[i] = E(i, Visit)
        BY <1>6
      <3>2. \A i \in 1..n : s[i] = E(i, s)
        BY <1>5
      <3> QED
        BY <2>3, <3>1, <3>2
    <2>5. CASE k = 1
      BY <2>3, <2>4, <2>5
    <2>6. CASE k # 1
      <3>1. k - 1 \in 1..n /\ k - 1 \in Nat /\ ~(k <= k - 1)
        BY <1>3, <2>3, <2>6
      <3>2. k - 1 \notin Bad
        <4> HIDE DEF Bad
        <4> QED
          BY <2>2, <3>1
      <3>3. Visit[k - 1] = s[k - 1]
        BY <3>1, <3>2
      <3> QED
        BY <2>3, <2>4, <2>6, <3>3
    <2> QED
      BY <2>5, <2>6
  <1>8. {Visit[k] : k \in 1..n} = Block
    BY <1>3, <1>7, SMTT(30)
  <1>9. heap.last = Visit[n]
    <2>1. n \in 1..n
      BY <1>3
    <2> QED
      BY <1>3, <1>7, <2>1
  <1> QED
    BY <1>3, <1>8, <1>9 DEF Visit, n

-----------------------------------------------------------------------------
(***************************************************************************)
(* What stands behind free's `return`: the block is stored and merged with *)
(* the free blocks it touches.                                             *)
(***************************************************************************)

\* The free blocks of h are the set L, linked both ways in their order.
Linked(h, L) ==
  /\ IsNext(L, 0, h.free)
  /\ \A c \in L : /\ IsNext(L, c, h.hdr[c].next_sto)
                  /\ IsPrev(L, c, h.hdr[c].prev_sto)

\* The k-th block on the way along next_sto.
Nth(h, k, f) ==
  IF k = 1 THEN h.free
  ELSE IF f[k - 1] = 0 THEN 0 ELSE h.hdr[f[k - 1]].next_sto

LEMMA WayExists ==
  ASSUME NEW h, NEW n \in Nat
  PROVE  \E f : f = [k \in 1..n |-> Nth(h, k, f)]
  <1> DEFINE Bad == {m \in Nat : ~\E f : f = [k \in 1..m |-> Nth(h, k, f)]}
  <1> SUFFICES ASSUME Bad # {}
               PROVE  FALSE
    OBVIOUS
  <1>1. PICK m \in Bad : \A j \in Bad : m <= j
    <2>1. Bad \in SUBSET Nat
      OBVIOUS
    <2> HIDE DEF Bad
    <2> QED
      BY <2>1, LeastNumber
  <1>2. m \in Nat /\ ~\E f : f = [k \in 1..m |-> Nth(h, k, f)]
    OBVIOUS
  <1>3. CASE m = 0
    <2> DEFINE f == [k \in 1..0 |-> 0]
    <2>1. f = [k \in 1..m |-> Nth(h, k, f)]
      BY <1>3
    <2> QED
      BY <1>2, <2>1
  <1>4. CASE m # 0
    <2>1. m - 1 \in Nat /\ ~(m <= m - 1)
      BY <1>2, <1>4
    <2>2. m - 1 \notin Bad
      <3> HIDE DEF Bad
      <3> QED
        BY <1>1, <2>1
    <2>3. PICK g : g = [k \in 1..(m - 1) |-> Nth(h, k, g)]
      BY <2>1, <2>2
    <2> DEFINE f == [k \in 1..m |-> Nth(h, k, g)]
    <2>4. \A k \in 1..(m - 1) : f[k] = g[k]
      <3>1. \A k \in 1..(m - 1) : k \in 1..m
        BY <1>2
      <3>2. \A k \in 1..(m - 1) : g[k] = Nth(h, k, g)
        BY <2>3
      <3> QED
        BY <3>1, <3>2
    <2>5. \A k \in 1..m : Nth(h, k, f) = Nth(h, k, g)
      <3>1. \A k \in 1..m : k # 1 => k - 1 \in 1..(m - 1)
        BY <1>2
      <3> HIDE DEF f
      <3> QED
        BY <2>4, <3>1 DEF Nth
    <2>6. f = [k \in 1..m |-> Nth(h, k, f)]
      <3>1. [k \in 1..m |-> Nth(h, k, g)] = [k \in 1..m |-> Nth(h, k, f)]
        <4> HIDE DEF f
        <4> QED
          BY <2>5
      <3> QED
        BY <3>1
    <2> QED
      BY <1>2, <2>6
  <1> QED
    BY <1>3, <1>4

\* Following next_sto visits the whole list and nothing else.
LEMMA WayVisitsList ==
  ASSUME NEW h, NEW L \in SUBSET (Nat \ {0}), IsFiniteSet(L), Linked(h, L),
         NEW n \in Nat, Cardinality(L) <= n,
         NEW f, f = [k \in 1..n |-> Nth(h, k, f)]
  PROVE  {f[k] : k \in 1..n} \ {0} = L
  <1> DEFINE Upto(c) == {d \in L : d <= c}
             pos(c) == Cardinality(Upto(c))
  <1>1. \A k \in 1..n : f[k] = Nth(h, k, f)
    OBVIOUS
  <1>2. ASSUME NEW c \in L
        PROVE  /\ IsFiniteSet(Upto(c)) /\ pos(c) \in 1..n
    <2>1. IsFiniteSet(Upto(c)) /\ pos(c) \in Nat /\ pos(c) <= Cardinality(L)
      <3>1. Upto(c) \in SUBSET L
        OBVIOUS
      <3> HIDE DEF Upto
      <3> QED
        BY <3>1, FS_Subset, FS_CardinalityType
    <2>2. pos(c) # 0
      <3>1. c \in Upto(c)
        OBVIOUS
      <3> HIDE DEF Upto
      <3> QED
        BY <2>1, <3>1, FS_EmptySet
    <2>3. Cardinality(L) \in Nat
      BY FS_CardinalityType
    <2> HIDE DEF pos, Upto
    <2> QED
      BY <2>1, <2>2, <2>3
  <1>3. ASSUME NEW c \in L, h.hdr[c].prev_sto = 0
        PROVE  pos(c) = 1 /\ h.free = c
    <2>1. c \in Nat /\ IsPrev(L, c, 0)
      BY <1>3 DEF Linked
    <2>2. \A d \in L : d <= c => d = c
      <3> TAKE d \in L
      <3>1. d \in Nat /\ d # 0 /\ (d < c => d <= 0)
        BY <2>1 DEF IsPrev
      <3> QED
        BY <2>1, <3>1
    <2>3. Upto(c) = {c}
      <3>1. c <= c /\ c \in L
        BY <2>1
      <3>2. \A d : d \in Upto(c) <=> d = c
        BY <2>2, <3>1
      <3> HIDE DEF Upto
      <3> QED
        BY <3>2
    <2>4. pos(c) = 1
      BY <2>3, FS_Singleton
    <2>5. h.free = c
      <3>1. IsNext(L, 0, h.free) /\ 0 < c
        BY DEF Linked
      <3>2. h.free # 0 /\ h.free <= c
        BY <3>1 DEF IsNext
      <3>3. h.free \in L
        BY <3>1, <3>2 DEF IsNext
      <3> QED
        BY <2>2, <3>2, <3>3
    <2> QED
      BY <2>4, <2>5
  <1>4. ASSUME NEW c \in L, h.hdr[c].prev_sto # 0
        PROVE  LET p == h.hdr[c].prev_sto
               IN  /\ p \in L /\ p < c /\ h.hdr[p].next_sto = c
                   /\ pos(c) = pos(p) + 1
    <2> DEFINE p == h.hdr[c].prev_sto
    <2>1. p \in L /\ p < c /\ p \in Nat /\ c \in Nat /\ \A d \in L : d < c => d <= p
      BY <1>4 DEF Linked, IsPrev
    <2> HIDE DEF p
    <2>2. IsNext(L, p, c)
      <3>1. \A d \in L : p < d => c <= d
        <4> TAKE d \in L
        <4>1. d \in Nat /\ (d < c => d <= p)
          BY <2>1
        <4> QED
          BY <2>1, <4>1
      <3> QED
        BY <2>1, <3>1 DEF IsNext
    <2>3. h.hdr[p].next_sto = c
      BY <2>1, <2>2, OneNext DEF Linked
    <2>4. Upto(c) = Upto(p) \cup {c} /\ c \notin Upto(p)
      <3>1. ASSUME NEW d \in L
            PROVE  d <= c <=> d <= p \/ d = c
        <4>1. d \in Nat /\ (d < c => d <= p)
          BY <2>1
        <4> QED
          BY <2>1, <4>1
      <3>2. ~(c <= p) /\ c \in L
        BY <2>1
      <3>3. \A d : d \in Upto(c) <=> d \in Upto(p) \/ d = c
        BY <3>1, <3>2
      <3>4. c \notin Upto(p)
        BY <3>2
      <3> HIDE DEF Upto
      <3> QED
        BY <3>3, <3>4
    <2>5. pos(c) = pos(p) + 1
      <3>1. IsFiniteSet(Upto(p))
        BY <1>2, <2>1
      <3> HIDE DEF Upto
      <3> QED
        BY <2>4, <3>1, FS_AddElement
    <2> QED
      BY <2>1, <2>3, <2>5 DEF p
  <1> HIDE DEF pos
  <1>5. \A c \in L : f[pos(c)] = c
    <2> DEFINE Bad == {c \in L : f[pos(c)] # c}
    <2> SUFFICES ASSUME Bad # {}
                 PROVE  FALSE
      OBVIOUS
    <2>1. PICK c \in Bad : \A d \in Bad : c <= d
      <3>1. Bad \in SUBSET Nat
        OBVIOUS
      <3> HIDE DEF Bad
      <3> QED
        BY <3>1, LeastNumber
    <2>2. c \in L /\ f[pos(c)] # c
      OBVIOUS
    <2>3. pos(c) \in 1..n /\ f[pos(c)] = Nth(h, pos(c), f)
      BY <1>1, <1>2, <2>2
    <2>4. CASE h.hdr[c].prev_sto = 0
      BY <1>3, <2>2, <2>3, <2>4, ZenonT(30) DEF Nth
    <2>5. CASE h.hdr[c].prev_sto # 0
      <3>1. PICK p : p = h.hdr[c].prev_sto
        OBVIOUS
      <3>2. p \in L /\ p < c /\ h.hdr[p].next_sto = c /\ pos(c) = pos(p) + 1
        BY <1>4, <2>2, <2>5, <3>1
      <3>3. p \in Nat /\ c \in Nat /\ pos(p) \in 1..n /\ p # 0
        BY <1>2, <2>2, <3>2
      <3>4. f[pos(p)] = p
        <4>1. ~(c <= p)
          BY <3>2, <3>3
        <4>2. p \notin Bad
          <5> HIDE DEF Bad
          <5> QED
            BY <2>1, <4>1
        <4> QED
          BY <3>2, <4>2
      <3>5. pos(c) # 1 /\ pos(c) - 1 = pos(p)
        BY <3>2, <3>3
      <3> QED
        BY <2>2, <2>3, <3>2, <3>3, <3>4, <3>5 DEF Nth
    <2> QED
      BY <2>4, <2>5
  <1>6. \A k \in 1..n : f[k] \in L \cup {0}
    <2> DEFINE Bad == {k \in 1..n : f[k] \notin L \cup {0}}
    <2> SUFFICES ASSUME Bad # {}
                 PROVE  FALSE
      OBVIOUS
    <2>1. PICK k \in Bad : \A j \in Bad : k <= j
      <3>1. Bad \in SUBSET Nat
        OBVIOUS
      <3> HIDE DEF Bad
      <3> QED
        BY <3>1, LeastNumber
    <2>2. k \in 1..n /\ f[k] \notin L \cup {0} /\ f[k] = Nth(h, k, f)
      BY <1>1
    <2>3. CASE k = 1
      BY <2>2, <2>3 DEF Nth, Linked, IsNext
    <2>4. CASE k # 1
      <3>1. k - 1 \in 1..n /\ ~(k <= k - 1)
        BY <2>2, <2>4
      <3>2. f[k - 1] \in L \cup {0}
        BY <2>1, <3>1, SMTT(30)
      <3>3. f[k - 1] # 0 /\ f[k] = h.hdr[f[k - 1]].next_sto
        BY <2>2, <2>4 DEF Nth
      <3> QED
        BY <2>2, <3>2, <3>3 DEF Linked, IsNext
    <2> QED
      BY <2>3, <2>4
  <1>7. \A c \in L : c # 0 /\ pos(c) \in 1..n
    BY <1>2
  <1>8. \A c \in L : c \in {f[k] : k \in 1..n} \ {0}
    BY <1>5, <1>7
  <1> QED
    BY <1>6, <1>8
-----------------------------------------------------------------------------
\* The blocks of the list S from a to z follow one another without a gap.
Run(h, S, a, z) ==
  /\ a \in S /\ z \in S /\ a <= z
  /\ \A c \in S : a <= c /\ c < z => h.hdr[c].next_sto = Ends(h, c)

\* The two loops of merge_block, the first along prev_sto, the second along
\* next_sto, as long as the blocks touch.
Backs(h, f) ==
  f = [c \in DOMAIN h.hdr |->
         LET p == h.hdr[c].prev_sto
         IN  IF p # 0 /\ is_adjacent(h, p, c) THEN f[p] ELSE c]
Aheads(h, f) ==
  f = [c \in DOMAIN h.hdr |->
         LET n == h.hdr[c].next_sto
         IN  IF n # 0 /\ is_adjacent(h, c, n) THEN f[n] ELSE c]

LEMMA BacksExist ==
  ASSUME NEW h, HeapType(h), NEW S, Listed(h, S)
  PROVE  \E f : Backs(h, f)
  <1> DEFINE D == DOMAIN h.hdr
             next == [c \in D |-> h.hdr[c].prev_sto]
             G == {c \in D : next[c] # 0 /\ is_adjacent(h, next[c], c)}
             value == [c \in D |-> c]
             measure == [c \in D |-> c]
  <1>1. PICK top \in Nat : \A c \in D : c <= top
    BY DEF HeapType
  <1>2. D \subseteq Nat \ {0}
    BY DEF HeapType
  <1>3. measure \in [D -> Nat] /\ \A c \in D : measure[c] <= top
    BY <1>1, <1>2
  <1>4. ASSUME NEW c \in G
        PROVE  next[c] \in D /\ measure[next[c]] < measure[c]
    <2>1. c \in D /\ next[c] = h.hdr[c].prev_sto /\ next[c] # 0
      OBVIOUS
    <2>2. c \in S
      BY <2>1 DEF Listed
    <2>3. next[c] \in S /\ next[c] < c
      BY <2>1, <2>2 DEF Listed, IsPrev
    <2>4. next[c] \in D
      BY <2>3 DEF Listed
    <2> HIDE DEF next, D
    <2> QED
      BY <2>1, <2>3, <2>4
  <1>5. G \in SUBSET D
    OBVIOUS
  <1> HIDE DEF D, G, next, measure, value
  <1>6. PICK f : Follows(f, D, G, next, value)
    BY <1>3, <1>4, <1>5, PointersEnd
  <1>7. \A c \in D : (IF c \in G THEN f[next[c]] ELSE value[c]) =
                     (LET p == h.hdr[c].prev_sto
                      IN  IF p # 0 /\ is_adjacent(h, p, c) THEN f[p] ELSE c)
    BY DEF D, G, next, value
  <1> QED
    BY <1>6, <1>7 DEF D, Follows, Backs

LEMMA AheadsExist ==
  ASSUME NEW h, HeapType(h), NEW S, Listed(h, S)
  PROVE  \E f : Aheads(h, f)
  <1> DEFINE D == DOMAIN h.hdr
             next == [c \in D |-> h.hdr[c].next_sto]
             G == {c \in D : next[c] # 0 /\ is_adjacent(h, c, next[c])}
             value == [c \in D |-> c]
  <1>1. PICK top \in Nat : \A c \in D : c <= top
    BY DEF HeapType
  <1> DEFINE measure == [c \in D |-> top - c]
  <1>2. D \subseteq Nat \ {0}
    BY DEF HeapType
  <1>3. measure \in [D -> Nat] /\ \A c \in D : measure[c] <= top
    BY <1>1, <1>2
  <1>4. ASSUME NEW c \in G
        PROVE  next[c] \in D /\ measure[next[c]] < measure[c]
    <2>1. c \in D /\ next[c] = h.hdr[c].next_sto /\ next[c] # 0
      OBVIOUS
    <2>2. c \in S
      BY <2>1 DEF Listed
    <2>3. next[c] \in S /\ c < next[c]
      BY <2>1, <2>2 DEF Listed, IsNext
    <2>4. next[c] \in D
      BY <2>3 DEF Listed
    <2>5. measure[c] = top - c /\ measure[next[c]] = top - next[c]
      BY <2>1, <2>4
    <2>6. c \in Nat /\ next[c] \in Nat
      BY <1>2, <2>1, <2>4
    <2> HIDE DEF next, D, measure
    <2> QED
      BY <2>3, <2>4, <2>5, <2>6
  <1>5. G \in SUBSET D
    OBVIOUS
  <1> HIDE DEF D, G, next, measure, value
  <1>6. PICK f : Follows(f, D, G, next, value)
    BY <1>3, <1>4, <1>5, PointersEnd
  <1>7. \A c \in D : (IF c \in G THEN f[next[c]] ELSE value[c]) =
                     (LET n == h.hdr[c].next_sto
                      IN  IF n # 0 /\ is_adjacent(h, c, n) THEN f[n] ELSE c)
    BY DEF D, G, next, value
  <1> QED
    BY <1>6, <1>7 DEF D, Follows, Aheads

\* The first loop stops at a free block.
LEMMA BacksStop ==
  ASSUME NEW h, HeapType(h), NEW S, Listed(h, S), NEW f, Backs(h, f)
  PROVE  \A c \in S : f[c] \in S
  <1> DEFINE Bad == {c \in S : f[c] \notin S}
  <1>0. S \in SUBSET (Nat \ {0}) /\ S \subseteq DOMAIN h.hdr
    BY DEF HeapType, Listed
  <1> SUFFICES ASSUME Bad # {}
               PROVE  FALSE
    OBVIOUS
  <1>1. PICK c \in Bad : \A d \in Bad : c <= d
    <2>1. Bad \in SUBSET Nat
      BY <1>0
    <2> HIDE DEF Bad
    <2> QED
      BY <2>1, LeastNumber
  <1>2. PICK p : p = h.hdr[c].prev_sto
    OBVIOUS
  <1>3. c \in S /\ f[c] = IF p # 0 /\ is_adjacent(h, p, c) THEN f[p] ELSE c
    BY <1>0, <1>2 DEF Backs
  <1>4. p # 0 /\ f[p] \notin S
    BY <1>3
  <1>5. p \in S /\ p < c /\ p \in Nat /\ c \in Nat
    BY <1>0, <1>2, <1>3, <1>4 DEF Listed, IsPrev
  <1>6. ~(c <= p)
    BY <1>5
  <1> QED
    BY <1>1, <1>4, <1>5, <1>6

\* The second loop goes over blocks without a gap.
LEMMA AheadsRun ==
  ASSUME NEW h, HeapType(h), NEW S, Listed(h, S), NEW f, Aheads(h, f)
  PROVE  \A c \in S : Run(h, S, c, f[c])
  <1> DEFINE Bad == {c \in S : ~Run(h, S, c, f[c])}
  <1>0. S \in SUBSET (Nat \ {0}) /\ S \subseteq DOMAIN h.hdr
    BY DEF HeapType, Listed
  <1> SUFFICES ASSUME Bad # {}
               PROVE  FALSE
    OBVIOUS
  <1>1. PICK top \in Nat : \A c \in DOMAIN h.hdr : c <= top
    BY DEF HeapType
  <1> DEFINE Far == {top - c : c \in Bad}
  <1>2. PICK c \in Bad : \A d \in Bad : d <= c
    <2>1. Far \in SUBSET Nat /\ Far # {}
      <3>1. ASSUME NEW c \in Bad
            PROVE  top - c \in Nat
        <4>1. c \in Nat /\ c <= top
          BY <1>0, <1>1
        <4> QED
          BY <4>1
      <3> HIDE DEF Bad
      <3> QED
        BY <3>1
    <2>2. PICK x \in Far : \A y \in Far : x <= y
      <3> HIDE DEF Far
      <3> QED
        BY <2>1, LeastNumber
    <2>3. PICK c \in Bad : x = top - c
      OBVIOUS
    <2>4. ASSUME NEW d \in Bad
          PROVE  d <= c
      <3>1. top - c <= top - d
        BY <2>2, <2>3
      <3>2. c \in Nat /\ d \in Nat
        BY <1>0
      <3> QED
        BY <3>1, <3>2
    <2> QED
      BY <2>4
  <1>3. PICK n : n = h.hdr[c].next_sto
    OBVIOUS
  <1>4. /\ c \in S /\ ~Run(h, S, c, f[c])
        /\ f[c] = IF n # 0 /\ is_adjacent(h, c, n) THEN f[n] ELSE c
    BY <1>0, <1>3 DEF Aheads
  <1>5. c \in Nat /\ \A d \in S : d \in Nat
    BY <1>0
  <1>6. f[c] # c
    <2>1. Run(h, S, c, c)
      <3>1. c <= c /\ \A d \in S : ~(c <= d /\ d < c)
        BY <1>5
      <3> QED
        BY <1>4, <3>1 DEF Run
    <2> QED
      BY <1>4, <2>1
  <1>7. n # 0 /\ n = Ends(h, c) /\ f[c] = f[n]
    BY <1>4, <1>6 DEF is_adjacent, Ends
  <1>8. n \in S /\ c < n /\ \A d \in S : c < d => n <= d
    BY <1>3, <1>4, <1>7 DEF Listed, IsNext
  <1>9. Run(h, S, n, f[n])
    <2>1. ~(n <= c)
      BY <1>5, <1>8
    <2> QED
      BY <1>2, <1>8, <2>1
  <1>10. Run(h, S, c, f[c])
    <2>1. f[n] \in S /\ n <= f[n] /\ f[n] \in Nat /\ n \in Nat
      BY <1>5, <1>8, <1>9 DEF Run
    <2>2. c <= f[c]
      BY <1>5, <1>7, <1>8, <2>1
    <2>3. ASSUME NEW d \in S, c <= d, d < f[c]
          PROVE  h.hdr[d].next_sto = Ends(h, d)
      <3>1. d = c \/ c < d
        BY <1>5, <2>3
      <3>2. CASE d = c
        BY <1>3, <1>7, <3>2
      <3>3. CASE c < d
        BY <1>7, <1>8, <1>9, <2>3, <3>3 DEF Run
      <3> QED
        BY <3>1, <3>2, <3>3
    <2> QED
      BY <1>4, <1>7, <2>1, <2>2, <2>3 DEF Run
  <1> QED
    BY <1>4, <1>10

\* Heap h is k where block a has swallowed those behind it up to z.
Joined(h, k, a, z) ==
  LET next == k.hdr[z].next_sto
  IN  /\ DOMAIN h.hdr = DOMAIN k.hdr /\ h.free = k.free
      /\ h.hdr[a].next_sto = next
      /\ a + Header + h.hdr[a].capacity = Ends(k, z)
      /\ h.hdr[a].capacity \in Nat
      /\ \A c \in DOMAIN k.hdr : c # a =>
           /\ h.hdr[c].next_sto = k.hdr[c].next_sto
           /\ h.hdr[c].capacity = k.hdr[c].capacity
      /\ \A c \in DOMAIN k.hdr :
           h.hdr[c].prev_sto = IF c = next THEN a ELSE k.hdr[c].prev_sto

LEMMA MergeFacts ==
  ASSUME NEW k, HeapType(k), NEW T, Listed(k, T), NEW b \in T,
         NEW h, h = merge_block(k, b)
  PROVE  \E a, z : Run(k, T, a, z) /\ Joined(h, k, a, z)
  <1> DEFINE D == DOMAIN k.hdr
             Back[c \in D] ==
               LET p == k.hdr[c].prev_sto
               IN  IF p # 0 /\ is_adjacent(k, p, c) THEN Back[p] ELSE c
             Ahead[c \in D] ==
               LET n == k.hdr[c].next_sto
               IN  IF n # 0 /\ is_adjacent(k, c, n) THEN Ahead[n] ELSE c
             a == Back[b]
             z == Ahead[a]
             next == k.hdr[z].next_sto
             whole == [k.hdr[a] EXCEPT
                         !.capacity = z + k.hdr[z].capacity - a,
                         !.next_sto = next, !.next_mem = k.hdr[z].next_mem]
  <1>1. Backs(k, Back)
    <2>1. \E f : Backs(k, f)
      BY BacksExist
    <2> QED
      BY <2>1 DEF Backs
  <1>2. Aheads(k, Ahead)
    <2>1. \E f : Aheads(k, f)
      BY AheadsExist
    <2> QED
      BY <2>1 DEF Aheads
  <1>3. h = IF a = z THEN k
            ELSE [k EXCEPT !.hdr = SetPrev([@ EXCEPT ![a] = whole], next, a),
                           !.last = IF k.hdr[z].next_mem = 0 THEN a ELSE @]
    BY DEF merge_block
  <1> HIDE DEF Back, Ahead
  <1>4. a \in T
    BY <1>1, BacksStop
  <1>5. Run(k, T, a, z)
    <2> HIDE DEF a
    <2> QED
      BY <1>2, <1>4, AheadsRun
  <1> HIDE DEF a, z
  <1>6. a \in T /\ z \in T /\ a <= z
    BY <1>5 DEF Run
  <1>7. /\ T \subseteq D /\ D \subseteq Nat \ {0} /\ 0 \notin D
        /\ k.hdr \in [D -> Headers(D)] /\ a \in Nat /\ z \in Nat /\ a \in D /\ z \in D
    BY <1>6 DEF HeapType, Listed
  <1>8. next \in D \cup {0} /\ k.hdr[z].capacity \in Nat /\ k.hdr[a] \in Headers(D)
        /\ k.hdr[z].next_mem \in D \cup {0}
    BY <1>7 DEF Headers
  <1>9. CASE a = z
    <2>1. \A c \in D : c = next => k.hdr[c].prev_sto = a
      <3> SUFFICES ASSUME next # 0
                   PROVE  k.hdr[next].prev_sto = a
        BY <1>7
      <3>1. next \in T /\ a < next /\ \A d \in T : a < d => next <= d
        BY <1>6, <1>9 DEF Listed, IsNext
      <3>2. PICK p : p = k.hdr[next].prev_sto
        OBVIOUS
      <3>3. p \in T \cup {0} /\ p < next /\ a <= p
        BY <1>6, <3>1, <3>2 DEF Listed, IsPrev
      <3>4. p \in Nat /\ next \in Nat /\ a # 0
        <4>1. T \cup {0} \subseteq Nat
          BY <1>7
        <4> HIDE DEF next
        <4> QED
          BY <1>7, <3>1, <3>3, <4>1
      <3>5. ~(next <= p)
        BY <3>3, <3>4
      <3>6. p # 0 /\ ~(a < p)
        BY <1>7, <3>1, <3>3, <3>4, <3>5
      <3> QED
        BY <1>7, <3>2, <3>3, <3>4, <3>6
    <2>2. h = k
      BY <1>3, <1>9
    <2>3. Joined(h, k, a, z)
      BY <1>8, <1>9, <2>1, <2>2 DEF Joined, Ends
    <2> QED
      BY <1>5, <2>3
  <1>10. CASE a # z
    <2>1. /\ z + k.hdr[z].capacity - a \in Nat
          /\ a + Header + (z + k.hdr[z].capacity - a) = Ends(k, z)
      BY <1>6, <1>7, <1>8, AllocatorAssumption DEF Ends
    <2> DEFINE mid == [k.hdr EXCEPT ![a] = whole]
    <2>2. /\ whole \in Headers(D) /\ whole.next_sto = next
          /\ whole.capacity = z + k.hdr[z].capacity - a
          /\ whole.prev_sto = k.hdr[a].prev_sto
      BY <1>8, <2>1 DEF Headers
    <2> HIDE DEF whole
    <2>3. /\ mid \in [D -> Headers(D)] /\ mid[a] = whole
          /\ \A c \in D : c # a => mid[c] = k.hdr[c]
      BY <1>7, <2>2
    <2>4. h.hdr = SetPrev(mid, next, a) /\ h.free = k.free
      <3>1. k \in [hdr : [D -> Headers(D)], blocks : D \cup {0},
                   last : D \cup {0}, free : D \cup {0}]
        BY DEF HeapType
      <3> HIDE DEF D
      <3> QED
        BY <1>3, <1>10, <3>1
    <2> HIDE DEF mid
    <2>5. PrevSet(h.hdr, mid, D, D, next, a)
      BY <1>7, <1>8, <2>3, <2>4, SetPrevFacts
    <2>6. DOMAIN h.hdr = D /\ DOMAIN mid = D
      BY <2>3, <2>5 DEF PrevSet
    <2>7. \A c \in D : /\ h.hdr[c].next_sto = mid[c].next_sto
                       /\ h.hdr[c].prev_sto = IF c = next THEN a ELSE mid[c].prev_sto
                       /\ h.hdr[c].capacity = mid[c].capacity
      BY <2>5, <2>6 DEF PrevSet, SameBlocks
    <2>8. \A c \in D : mid[c].prev_sto = k.hdr[c].prev_sto
      BY <2>2, <2>3
    <2>9. Joined(h, k, a, z)
      BY <1>7, <2>1, <2>2, <2>3, <2>4, <2>6, <2>7, <2>8 DEF Joined
    <2> QED
      BY <1>5, <2>9
  <1> QED
    BY <1>9, <1>10
-----------------------------------------------------------------------------
\* What is left of the list T when the blocks from a to z are one.
Rest(T, a, z) == {c \in T : c <= a \/ z < c}

LEMMA JoinedLinked ==
  ASSUME NEW k, HeapType(k), NEW T, Listed(k, T), NEW a, NEW z, Run(k, T, a, z),
         NEW h, Joined(h, k, a, z)
  PROVE  Linked(h, Rest(T, a, z))
  <1> DEFINE R == Rest(T, a, z)
             next == k.hdr[z].next_sto
  <1>1. /\ T \subseteq DOMAIN k.hdr /\ DOMAIN k.hdr \subseteq Nat \ {0}
        /\ a \in T /\ z \in T /\ a <= z /\ a \in Nat \ {0} /\ z \in Nat \ {0}
        /\ \A c \in T : c \in Nat \ {0}
    BY DEF HeapType, Listed, Run
  <1>2. /\ a \in R /\ R \subseteq T /\ \A c \in R : c <= a \/ z < c
        /\ \A c \in T : c <= a \/ z < c => c \in R
    BY <1>1 DEF Rest
  <1>3. IsNext(T, z, next)
    BY <1>1 DEF Listed
  <1>4. next # 0 => next \in R /\ next \in Nat /\ z < next /\ a < next
    BY <1>1, <1>2, <1>3 DEF IsNext
  <1>5. /\ h.free = k.free /\ h.hdr[a].next_sto = next
        /\ \A c \in T : c # a => h.hdr[c].next_sto = k.hdr[c].next_sto
        /\ \A c \in T : h.hdr[c].prev_sto =
                          IF c = next THEN a ELSE k.hdr[c].prev_sto
    BY <1>1 DEF Joined
  <1> HIDE DEF R, next
  <1>6. IsNext(R, 0, h.free)
    <2>1. IsNext(T, 0, k.free)
      BY DEF Listed
    <2>2. k.free # 0 => k.free \in R
      BY <1>1, <1>2, <2>1 DEF IsNext
    <2> QED
      BY <1>2, <1>5, <2>1, <2>2 DEF IsNext
  <1>7. ASSUME NEW c \in R
        PROVE  IsNext(R, c, h.hdr[c].next_sto)
    <2>1. CASE c = a
      <3>1. \A d \in R : a < d => next # 0 /\ next <= d
        <4> SUFFICES ASSUME NEW d \in R, a < d
                     PROVE  next # 0 /\ next <= d
          OBVIOUS
        <4>1. d \in T /\ d \in Nat /\ z < d
          BY <1>1, <1>2
        <4> QED
          BY <1>3, <4>1 DEF IsNext
      <3>2. IsNext(R, a, next)
        BY <1>4, <3>1 DEF IsNext
      <3> QED
        BY <1>5, <2>1, <3>2
    <2>2. CASE c # a
      <3>1. PICK n : n = k.hdr[c].next_sto
        OBVIOUS
      <3>2. IsNext(T, c, n) /\ c \in T /\ c \in Nat /\ (c < a \/ z < c)
        BY <1>1, <1>2, <2>2, <3>1 DEF Listed
      <3>3. n # 0 => n \in R
        <4> SUFFICES ASSUME n # 0
                     PROVE  n \in R
          OBVIOUS
        <4>1. n \in T /\ n \in Nat /\ c < n
          BY <1>1, <3>2 DEF IsNext
        <4>2. c < a => n <= a
          BY <1>1, <3>2 DEF IsNext
        <4> QED
          BY <1>1, <1>2, <3>2, <4>1, <4>2
      <3>4. IsNext(R, c, n)
        BY <1>2, <3>2, <3>3 DEF IsNext
      <3> QED
        BY <1>2, <1>5, <2>2, <3>1, <3>4
    <2> QED
      BY <2>1, <2>2
  <1>8. ASSUME NEW c \in R
        PROVE  IsPrev(R, c, h.hdr[c].prev_sto)
    <2>1. CASE c = next
      <3>1. a < c /\ z < c /\ c \in Nat
        BY <1>1, <1>2, <1>4, <2>1
      <3>2. ASSUME NEW d \in R, d < c
            PROVE  d <= a
        <4>1. d \in T /\ d \in Nat
          BY <1>1, <1>2
        <4>2. z < d => c <= d
          BY <1>3, <2>1, <4>1 DEF IsNext
        <4> QED
          BY <1>2, <3>1, <3>2, <4>1, <4>2
      <3>3. IsPrev(R, c, a)
        BY <1>2, <3>1, <3>2 DEF IsPrev
      <3> QED
        BY <1>2, <1>5, <2>1, <3>3
    <2>2. CASE c # next
      <3>1. PICK p : p = k.hdr[c].prev_sto
        OBVIOUS
      <3>2. IsPrev(T, c, p) /\ c \in T /\ c \in Nat /\ (c <= a \/ z < c)
        BY <1>1, <1>2, <3>1 DEF Listed
      <3>3. p # 0 => p \in R
        <4> SUFFICES ASSUME p # 0
                     PROVE  p \in R
          OBVIOUS
        <4>1. p \in T /\ p \in Nat /\ p < c
          BY <1>1, <3>2 DEF IsPrev
        <4>2. CASE c <= a
          BY <1>1, <1>2, <3>2, <4>1, <4>2
        <4>3. CASE z < c
          <5>1. next # 0 /\ next <= c
            BY <1>3, <3>2, <4>3 DEF IsNext
          <5>2. next \in T /\ next \in Nat /\ next < c /\ z < next
            BY <1>2, <1>4, <2>2, <3>2, <5>1
          <5>3. next <= p
            BY <3>2, <5>2 DEF IsPrev
          <5> QED
            BY <1>1, <1>2, <4>1, <5>2, <5>3
        <4> QED
          BY <3>2, <4>2, <4>3
      <3>4. IsPrev(R, c, p)
        BY <1>2, <3>2, <3>3 DEF IsPrev
      <3> QED
        BY <1>2, <1>5, <2>2, <3>1, <3>4
    <2> QED
      BY <2>1, <2>2
  <1> QED
    BY <1>6, <1>7, <1>8 DEF Linked, R

\* The blocks of the list still lie one behind the other, and every block
\* that was in the list lies in one of them.
LEMMA JoinedLaid ==
  ASSUME NEW k, HeapType(k), NEW T, Listed(k, T), NEW maps, Laid(k, maps),
         NEW a, NEW z, Run(k, T, a, z), NEW h, Joined(h, k, a, z)
  PROVE  /\ \A c, d \in Rest(T, a, z) : c < d => Ends(h, c) <= d
         /\ \A s \in T : \E c \in Rest(T, a, z) : c <= s /\ Ends(k, s) <= Ends(h, c)
  <1> DEFINE R == Rest(T, a, z)
  <1>1. /\ T \subseteq DOMAIN k.hdr /\ DOMAIN k.hdr \subseteq Nat \ {0}
        /\ a \in T /\ z \in T /\ a <= z /\ a \in Nat \ {0} /\ z \in Nat \ {0}
        /\ \A c \in T : c \in Nat \ {0}
    BY DEF HeapType, Listed, Run
  <1>2. /\ a \in R /\ R \subseteq T /\ \A c \in R : c <= a \/ z < c
        /\ \A c \in T : c <= a \/ z < c => c \in R
    BY <1>1 DEF Rest
  <1>3. /\ Ends(h, a) = Ends(k, z)
        /\ \A c \in T : c # a => Ends(h, c) = Ends(k, c)
    BY <1>1 DEF Joined, Ends
  <1>4. ASSUME NEW c \in T
        PROVE  Ends(k, c) \in Nat /\ c <= Ends(k, c)
    <2>1. k.hdr[c].capacity \in Nat /\ c \in Nat
      BY <1>1 DEF HeapType, Headers
    <2> QED
      BY <2>1, AllocatorAssumption DEF Ends
  <1>5. \A c, d \in T : c < d => Ends(k, c) <= d
    BY <1>1 DEF Laid
  <1> HIDE DEF R
  <1>6. ASSUME NEW c \in R, NEW d \in R, c < d
        PROVE  Ends(h, c) <= d
    <2>1. CASE c # a
      BY <1>2, <1>3, <1>5, <1>6, <2>1
    <2>2. CASE c = a
      <3>1. z < d /\ d \in T
        <4>1. d \in T /\ d \in Nat /\ (d <= a \/ z < d) /\ a < d
          BY <1>1, <1>2, <1>6, <2>2
        <4> QED
          BY <1>1, <4>1
      <3> QED
        BY <1>1, <1>3, <1>5, <2>2, <3>1
    <2> QED
      BY <2>1, <2>2
  <1>7. ASSUME NEW s \in T
        PROVE  \E c \in R : c <= s /\ Ends(k, s) <= Ends(h, c)
    <2>1. CASE s \in R /\ s # a
      BY <1>1, <1>3, <1>4, <2>1
    <2>2. CASE s \notin R \/ s = a
      <3>1. s \in Nat /\ a <= s /\ s <= z
        BY <1>1, <1>2, <2>2
      <3>2. Ends(k, s) <= Ends(k, z)
        <4>1. CASE s = z
          BY <1>4, <4>1
        <4>2. CASE s # z
          <5>1. Ends(k, s) <= z
            BY <1>1, <1>5, <3>1, <4>2
          <5> QED
            BY <1>1, <1>4, <5>1
        <4> QED
          BY <4>1, <4>2
      <3> QED
        BY <1>2, <1>3, <3>1, <3>2
    <2> QED
      BY <2>1, <2>2
  <1> QED
    BY <1>6, <1>7 DEF R

-----------------------------------------------------------------------------
\* The bytes of each block, header and all.
Bytes(h) == [c \in DOMAIN h.hdr |-> Header + h.hdr[c].capacity]

\* Blocks without a gap take what lies between their first and their last.
LEMMA RunBytes ==
  ASSUME NEW k, HeapType(k), NEW T, IsFiniteSet(T), Listed(k, T),
         NEW a, NEW z, Run(k, T, a, z)
  PROVE  \A c \in T : a <= c /\ c <= z =>
           a + SumFunctionOnSet(Bytes(k), {d \in T : a <= d /\ d <= c}) = Ends(k, c)
  <1> DEFINE f == Bytes(k)
             Part(c) == {d \in T : a <= d /\ d <= c}
             Bad == {c \in T : /\ a <= c /\ c <= z
                               /\ a + SumFunctionOnSet(f, Part(c)) # Ends(k, c)}
  <1>1. /\ T \subseteq DOMAIN k.hdr /\ DOMAIN k.hdr \subseteq Nat \ {0}
        /\ a \in T /\ z \in T /\ a <= z /\ a \in Nat \ {0} /\ z \in Nat \ {0}
        /\ \A c \in T : c \in Nat \ {0}
    BY DEF HeapType, Listed, Run
  <1>2. ASSUME NEW c \in T
        PROVE  f[c] \in Nat /\ Ends(k, c) = c + f[c]
    <2>1. k.hdr[c].capacity \in Nat /\ c \in Nat /\ c \in DOMAIN k.hdr
      BY <1>1 DEF HeapType, Headers
    <2> QED
      BY <2>1, AllocatorAssumption DEF Ends, Bytes
  <1> HIDE DEF f
  <1> SUFFICES ASSUME Bad # {}
               PROVE  FALSE
    BY DEF f
  <1>3. PICK c \in Bad : \A d \in Bad : c <= d
    <2>1. Bad \in SUBSET Nat
      BY <1>1
    <2> HIDE DEF Bad
    <2> QED
      BY <2>1, LeastNumber
  <1>4. /\ c \in T /\ c \in Nat /\ a <= c /\ c <= z
        /\ a + SumFunctionOnSet(f, Part(c)) # Ends(k, c)
    BY <1>1
  <1>5. CASE c = a
    <2>1. \A d : d \in Part(c) <=> d = a
      <3>1. \A d \in T : a <= d /\ d <= a <=> d = a
        BY <1>1
      <3> QED
        BY <1>1, <1>5, <3>1
    <2> HIDE DEF Part
    <2>2. Part(c) = {a}
      BY <2>1
    <2>3. SumFunctionOnSet(f, Part(c)) = f[a]
      BY <1>1, <1>2, <2>2, SumOne
    <2> QED
      BY <1>1, <1>2, <1>4, <1>5, <2>3
  <1>6. CASE c # a
    <2>1. PICK p : p = k.hdr[c].prev_sto
      OBVIOUS
    <2>2. /\ p \in T /\ a <= p /\ p < c /\ p \in Nat
          /\ \A d \in T : d < c => d <= p
      <3>1. IsPrev(T, c, p) /\ a < c
        BY <1>1, <1>4, <1>6, <2>1 DEF Listed
      <3>2. a <= p /\ p \in T \cup {0} /\ p < c
        BY <1>1, <3>1 DEF IsPrev
      <3>3. p # 0
        BY <1>1, <3>2
      <3> QED
        BY <1>1, <3>1, <3>2, <3>3 DEF IsPrev
    <2>3. k.hdr[p].next_sto = c
      <3>1. \A d \in T : p < d => c <= d
        <4> TAKE d \in T
        <4>1. d \in Nat /\ (d < c => d <= p)
          BY <1>1, <2>2
        <4> QED
          BY <1>4, <2>2, <4>1
      <3>2. IsNext(T, p, c) /\ IsNext(T, p, k.hdr[p].next_sto)
        BY <1>4, <2>2, <3>1 DEF Listed, IsNext
      <3> QED
        BY <1>1, <2>2, <3>2, OneNext
    <2>4. Ends(k, p) = c
      <3>1. p < z
        BY <1>1, <1>4, <2>2
      <3> QED
        BY <2>2, <2>3, <3>1 DEF Run
    <2>5. a + SumFunctionOnSet(f, Part(p)) = c
      <3>1. p \notin Bad
        <4>1. ~(c <= p)
          BY <1>4, <2>2
        <4> HIDE DEF Bad
        <4> QED
          BY <1>3, <4>1
      <3>2. p <= z
        BY <1>1, <1>4, <2>2
      <3> QED
        BY <2>2, <2>4, <3>1, <3>2
    <2>6. Part(c) = Part(p) \cup {c} /\ c \notin Part(p) /\ Part(p) \in SUBSET T
      <3>1. ASSUME NEW d \in T
            PROVE  d <= c <=> d <= p \/ d = c
        <4>1. d \in Nat /\ (d < c => d <= p)
          BY <1>1, <2>2
        <4> QED
          BY <1>4, <2>2, <4>1
      <3>2. ~(c <= p)
        BY <1>4, <2>2
      <3>3. \A d : d \in Part(c) <=> d \in Part(p) \/ d = c
        BY <1>4, <3>1
      <3>4. c \notin Part(p) /\ Part(p) \in SUBSET T
        BY <3>2
      <3> HIDE DEF Part
      <3> QED
        BY <3>3, <3>4
    <2> HIDE DEF Part
    <2>7. SumFunctionOnSet(f, Part(c)) = f[c] + SumFunctionOnSet(f, Part(p))
          /\ SumFunctionOnSet(f, Part(p)) \in Nat
      <3>1. IsFiniteSet(Part(p))
        BY <2>6, FS_Subset
      <3>2. /\ \A s \in Part(p) \cup {c} : f[s] \in Nat
            /\ \A s \in Part(p) : f[s] \in Nat
        BY <1>2, <1>4, <2>6
      <3>3. SumFunctionOnSet(f, Part(p)) \in Nat
        BY <3>1, <3>2, SumType
      <3>4. SumFunctionOnSet(f, Part(p) \cup {c}) = f[c] + SumFunctionOnSet(f, Part(p))
        BY <2>6, <3>1, <3>2, SumWith
      <3> QED
        BY <2>6, <3>3, <3>4
    <2> QED
      BY <1>1, <1>2, <1>4, <2>5, <2>7
  <1> QED
    BY <1>5, <1>6

\* Joining blocks neither adds bytes to the list nor takes any from it.
LEMMA JoinedBytes ==
  ASSUME NEW k, HeapType(k), NEW T, IsFiniteSet(T), Listed(k, T),
         NEW a, NEW z, Run(k, T, a, z), NEW h, Joined(h, k, a, z)
  PROVE  SumFunctionOnSet(Bytes(h), Rest(T, a, z)) = SumFunctionOnSet(Bytes(k), T)
  <1> DEFINE f == Bytes(k)
             g == Bytes(h)
             M == {d \in T : a <= d /\ d <= z}
             Q == T \ M
             Sum(u, S) == SumFunctionOnSet(u, S)
  <1>1. /\ T \subseteq DOMAIN k.hdr /\ DOMAIN k.hdr \subseteq Nat \ {0}
        /\ a \in T /\ z \in T /\ a <= z /\ a \in Nat \ {0} /\ z \in Nat \ {0}
        /\ \A c \in T : c \in Nat \ {0}
    BY DEF HeapType, Listed, Run
  <1>2. ASSUME NEW c \in T
        PROVE  f[c] \in Nat /\ g[c] \in Nat /\ (c # a => g[c] = f[c])
    <2>1. k.hdr[c].capacity \in Nat /\ c \in DOMAIN k.hdr
      BY <1>1 DEF HeapType, Headers
    <2>2. h.hdr[c].capacity \in Nat /\ c \in DOMAIN h.hdr
          /\ (c # a => h.hdr[c].capacity = k.hdr[c].capacity)
      BY <2>1 DEF Joined
    <2> QED
      BY <2>1, <2>2, AllocatorAssumption DEF Bytes
  <1>3. a + g[a] = Ends(k, z) /\ g[a] \in Nat
    <2>1. a \in DOMAIN h.hdr /\ a + Header + h.hdr[a].capacity = Ends(k, z)
          /\ h.hdr[a].capacity \in Nat
      BY <1>1 DEF Joined
    <2> QED
      BY <1>1, <2>1, AllocatorAssumption DEF Bytes
  <1>4. a + Sum(f, M) = Ends(k, z)
    <2>1. z <= z
      BY <1>1
    <2> QED
      BY <1>1, <2>1, RunBytes
  <1>5. /\ a \notin Q /\ Q \cap M = {} /\ Q \cup M = T /\ Q \subseteq T /\ M \subseteq T
        /\ Rest(T, a, z) = Q \cup {a}
    <2>1. ASSUME NEW c \in T
          PROVE  c <= a \/ z < c <=> ~(a <= c /\ c <= z) \/ c = a
      <3>1. c \in Nat
        BY <1>1
      <3> QED
        BY <1>1, <3>1
    <2>2. Rest(T, a, z) = Q \cup {a}
      BY <1>1, <2>1 DEF Rest
    <2>3. a \in M
      BY <1>1
    <2> QED
      BY <2>2, <2>3
  <1>6. IsFiniteSet(Q) /\ IsFiniteSet(M)
    <2> HIDE DEF Q, M
    <2> QED
      BY <1>5, FS_Subset
  <1> HIDE DEF f, g, M, Q
  <1>7. Sum(f, T) = Sum(f, Q) + Sum(f, M)
    <2>1. \A s \in Q \cup M : f[s] \in Nat
      BY <1>2, <1>5
    <2> QED
      BY <1>5, <1>6, <2>1, SumUnion
  <1>8. Sum(g, Q \cup {a}) = g[a] + Sum(g, Q)
    <2>1. \A s \in Q \cup {a} : g[s] \in Nat
      BY <1>1, <1>2, <1>5
    <2> QED
      BY <1>5, <1>6, <2>1, SumWith
  <1>9. Sum(g, Q) = Sum(f, Q) /\ Sum(f, Q) \in Nat /\ Sum(f, M) \in Nat
    <2>1. (\A s \in Q : g[s] = f[s] /\ f[s] \in Nat) /\ \A s \in M : f[s] \in Nat
      BY <1>2, <1>5
    <2>2. Sum(g, Q) = Sum(f, Q)
      BY <1>6, <2>1, SumSame
    <2>3. Sum(f, Q) \in Nat /\ Sum(f, M) \in Nat
      BY <1>6, <2>1, SumType
    <2> QED
      BY <2>2, <2>3
  <1>10. g[a] = Sum(f, M)
    <2> HIDE DEF Sum
    <2> QED
      BY <1>1, <1>3, <1>4, <1>9
  <1>11. Sum(g, Q \cup {a}) = Sum(f, T)
    <2> HIDE DEF Sum
    <2> QED
      BY <1>7, <1>8, <1>9, <1>10, SMTT(30)
  <1> QED
    BY <1>5, <1>11 DEF f, g
-----------------------------------------------------------------------------
LEMMA FreeBodyKeeps == IInv => FreeBodyKeepsTheList
  <1> SUFFICES ASSUME IInv, NEW b \in DOMAIN given
               PROVE  LET h == FreeBody(heap, b)
                          n == Cardinality(Block)
                          Way[k \in 1..n] ==
                            IF k = 1 THEN h.free
                            ELSE IF Way[k - 1] = 0 THEN 0
                            ELSE h.hdr[Way[k - 1]].next_sto
                          list == {Way[k] : k \in 1..n} \ {0}
                          stored == (Block \ DOMAIN given) \cup {b}
                          bytes(hdr) == [c \in DOMAIN hdr |-> Header + hdr[c].capacity]
                      IN  /\ \A k \in 1..n - 1 : Way[k + 1] # 0 =>
                               Way[k] + Header + h.hdr[Way[k]].capacity <= Way[k + 1]
                          /\ \A c \in list : h.hdr[c].next_sto # 0 =>
                               h.hdr[h.hdr[c].next_sto].prev_sto = c
                          /\ \A s \in stored : \E c \in list :
                               /\ c <= s
                               /\ Extent(s)[2] <= c + Header + h.hdr[c].capacity
                          /\ SumFunctionOnSet(bytes(h.hdr), list) =
                               SumFunctionOnSet(bytes(heap.hdr), stored)
    BY DEF FreeBodyKeepsTheList
  <1> DEFINE S == Block \ DOMAIN given
             T == S \cup {b}
             n == Cardinality(Block)
             k0 == store_free_block(heap, b)
             h == FreeBody(heap, b)
  <1>1. /\ HeapType(heap) /\ Laid(heap, mapped) /\ Listed(heap, S)
        /\ b \in DOMAIN heap.hdr /\ b \notin S /\ Block = DOMAIN heap.hdr
        /\ T \subseteq Block
    BY IInvFacts DEF Block
  <1> HIDE DEF S
  <1>2. /\ HeapType(k0) /\ Listed(k0, T) /\ SameBlocks(k0.hdr, heap.hdr)
    BY <1>1, StoreFacts
  <1>3. Laid(k0, mapped)
    BY <1>1, <1>2, LaidSame
  <1>4. h = merge_block(k0, b) /\ b \in T
    BY DEF FreeBody
  <1>5. IsFiniteSet(Block) /\ IsFiniteSet(T) /\ n \in Nat
    <2>1. Block \subseteq Nat \ {0}
      BY <1>1 DEF HeapType
    <2>2. PICK m \in Nat : \A c \in Block : c <= m
      BY <1>1 DEF HeapType
    <2>3. IsFiniteSet(0..m)
      BY <2>2, FS_Interval
    <2>4. Block \in SUBSET (0..m)
      BY <2>1, <2>2
    <2>5. IsFiniteSet(Block)
      BY <2>3, <2>4, FS_Subset
    <2>6. IsFiniteSet(T)
      BY <1>1, <2>5, FS_Subset
    <2> QED
      BY <2>5, <2>6, FS_CardinalityType
  <1> HIDE DEF T, n, k0, h
  <1>6. PICK a, z : Run(k0, T, a, z) /\ Joined(h, k0, a, z)
    BY <1>2, <1>4, MergeFacts
  <1> DEFINE R == Rest(T, a, z)
  <1>7. /\ Linked(h, R)
        /\ \A c, d \in R : c < d => Ends(h, c) <= d
        /\ \A s \in T : \E c \in R : c <= s /\ Ends(k0, s) <= Ends(h, c)
        /\ SumFunctionOnSet(Bytes(h), R) = SumFunctionOnSet(Bytes(k0), T)
    <2>1. Linked(h, R)
      BY <1>2, <1>6, JoinedLinked
    <2>2. /\ \A c, d \in R : c < d => Ends(h, c) <= d
          /\ \A s \in T : \E c \in R : c <= s /\ Ends(k0, s) <= Ends(h, c)
      BY <1>2, <1>3, <1>6, JoinedLaid
    <2>3. SumFunctionOnSet(Bytes(h), R) = SumFunctionOnSet(Bytes(k0), T)
      BY <1>2, <1>5, <1>6, JoinedBytes
    <2> QED
      BY <2>1, <2>2, <2>3
  <1>8. R \in SUBSET (Nat \ {0}) /\ IsFiniteSet(R) /\ Cardinality(R) <= n
    <2>1. R \subseteq T /\ T \subseteq Nat \ {0}
      BY <1>1 DEF Rest, HeapType
    <2>2. R \in SUBSET Block
      BY <1>1, <2>1
    <2> HIDE DEF R
    <2>3. IsFiniteSet(R) /\ Cardinality(R) <= Cardinality(Block)
      BY <1>5, <2>2, FS_Subset
    <2> QED
      BY <2>1, <2>3 DEF n
  <1> DEFINE Way[k \in 1..n] == IF k = 1 THEN h.free
                               ELSE IF Way[k - 1] = 0 THEN 0
                               ELSE h.hdr[Way[k - 1]].next_sto
             list == {Way[k] : k \in 1..n} \ {0}
  <1>9. Way = [k \in 1..n |-> Nth(h, k, Way)]
    <2>1. \E f : f = [k \in 1..n |-> Nth(h, k, f)]
      BY <1>5, WayExists
    <2> QED
      BY <2>1 DEF Nth
  <1> HIDE DEF R, Way
  <1>10. list = R
    BY <1>5, <1>7, <1>8, <1>9, WayVisitsList
  <1>11. \A c \in R : /\ h.hdr[c].next_sto # 0 =>
                           /\ h.hdr[c].next_sto \in R /\ c < h.hdr[c].next_sto
                           /\ h.hdr[h.hdr[c].next_sto].prev_sto = c
    <2> SUFFICES ASSUME NEW c \in R, NEW d, d = h.hdr[c].next_sto, d # 0
                 PROVE  d \in R /\ c < d /\ h.hdr[d].prev_sto = c
      OBVIOUS
    <2>1. d \in R /\ c < d /\ \A e \in R : c < e => d <= e
      BY <1>7 DEF Linked, IsNext
    <2>2. PICK p : p = h.hdr[d].prev_sto
      OBVIOUS
    <2>3. p \in R \cup {0} /\ p < d /\ c <= p
      BY <1>7, <2>1, <2>2 DEF Linked, IsPrev
    <2>4. c \in Nat \ {0} /\ d \in Nat /\ p \in Nat
      BY <1>8, <2>1, <2>3
    <2>5. p \in R
      BY <2>3, <2>4
    <2>6. ~(c < p)
      <3>1. c < p => d <= p
        BY <2>1, <2>5
      <3> QED
        BY <2>3, <2>4, <3>1
    <2> QED
      BY <2>1, <2>2, <2>3, <2>4, <2>6
  <1>12. ASSUME NEW k \in 1..n - 1, Way[k + 1] # 0
         PROVE  Way[k] + Header + h.hdr[Way[k]].capacity <= Way[k + 1]
    <2>1. k \in 1..n /\ k + 1 \in 1..n /\ k + 1 # 1 /\ (k + 1) - 1 = k
      BY <1>5
    <2>2. Way[k + 1] = IF Way[k] = 0 THEN 0 ELSE h.hdr[Way[k]].next_sto
      BY <1>9, <2>1 DEF Nth
    <2>3. Way[k] # 0 /\ Way[k + 1] = h.hdr[Way[k]].next_sto
      BY <1>12, <2>2
    <2>4. Way[k] \in R
      BY <1>10, <2>1, <2>3
    <2>5. Way[k + 1] \in R /\ Way[k] < Way[k + 1]
      BY <1>11, <1>12, <2>3, <2>4
    <2> QED
      BY <1>7, <2>4, <2>5 DEF Ends
  <1>13. ASSUME NEW s \in T
         PROVE  \E c \in R : c <= s /\ Extent(s)[2] <= c + Header + h.hdr[c].capacity
    <2>1. Extent(s)[2] = Ends(k0, s)
      <3>1. s \in DOMAIN heap.hdr
        BY <1>1
      <3>2. k0.hdr[s].capacity = heap.hdr[s].capacity
        BY <1>2, <3>1 DEF SameBlocks
      <3> QED
        BY <3>2 DEF Extent, Ends
    <2> QED
      BY <1>7, <2>1 DEF Ends
  <1>14. Bytes(k0) = Bytes(heap)
    BY <1>2 DEF Bytes, SameBlocks
  <1>15. SumFunctionOnSet(Bytes(h), list) = SumFunctionOnSet(Bytes(heap), T)
    BY <1>7, <1>10, <1>14
  <1>16. /\ \A k \in 1..n - 1 : Way[k + 1] # 0 =>
              Way[k] + Header + h.hdr[Way[k]].capacity <= Way[k + 1]
         /\ \A c \in list : h.hdr[c].next_sto # 0 =>
              h.hdr[h.hdr[c].next_sto].prev_sto = c
         /\ \A s \in T : \E c \in list :
              c <= s /\ Extent(s)[2] <= c + Header + h.hdr[c].capacity
    <2> HIDE DEF list
    <2> QED
      BY <1>10, <1>11, <1>12, <1>13
  <1> QED
    BY <1>15, <1>16, ZenonT(30) DEF Bytes, Way, T, S, n, h

-----------------------------------------------------------------------------
(***************************************************************************)
(* Each call implements a step of module Arena.                            *)
(***************************************************************************)
owned == {<<b + Header, Extent(b)[2]>> : b \in DOMAIN given}

Give ==
  \E i \in owned' \ owned :
    /\ owned' = owned \cup {i} /\ used \subseteq used'
    /\ \A w \in used : i[2] <= w[1] \/ w[2] <= i[1]
    /\ \E w \in used' : w[1] <= i[1] /\ i[2] <= w[2]

\* A block handed out was neither written nor owned by anybody before.
LEMMA MallocGives ==
  ASSUME IInv, NEW n \in Nat \ {0}, malloc(n)
  PROVE  Give
  <1>1. PICK G : G = DOMAIN given
    OBVIOUS
  <1>2. PICK b : b = answer'
    OBVIOUS
  <1>3. PICK k : k = heap'
    OBVIOUS
  <1>4. IInv' /\ Handed(b, n)
    BY <1>2, MallocKeeps
  <1>5. /\ b \in DOMAIN k.hdr \ G /\ given' = Put(given, b, n)
        /\ DOMAIN heap.hdr \subseteq DOMAIN k.hdr
        /\ \A c \in G : k.hdr[c].capacity = heap.hdr[c].capacity
        /\ used' = used \cup {<<c, c + Header>> : c \in DOMAIN k.hdr}
                        \cup {<<b, Ends(k, b)>>}
    BY <1>1, <1>3, <1>4 DEF Handed, Grown
  <1>6. HeapType(k) /\ Laid(k, mapped')
    <2>1. Good(heap', mapped', DOMAIN given')
      BY <1>4, MallocKeeps DEF IInv
    <2> QED
      BY <1>3, <2>1 DEF Good
  <1>7. G \subseteq DOMAIN heap.hdr /\ used \subseteq MayWrite(heap, G)
    BY <1>1, IInvFacts DEF IInv, Block
  <1>8. /\ DOMAIN k.hdr \subseteq Nat \ {0} /\ Header \in Nat \ {0}
        /\ \A c \in DOMAIN k.hdr : /\ k.hdr[c].capacity \in Nat
                                   /\ Ends(k, c) \in Nat /\ c + Header <= Ends(k, c)
                                   /\ c + Header \in Nat
    BY <1>6, AllocatorAssumption DEF HeapType, Headers, Ends
  <1> DEFINE new == <<b + Header, Ends(k, b)>>
  <1>9. /\ owned = {<<c + Header, Ends(heap, c)>> : c \in G}
        /\ owned' = {<<c + Header, Ends(k, c)>> : c \in G \cup {b}}
    <2>1. DOMAIN given' = G \cup {b}
      BY <1>1, <1>5 DEF Put
    <2>2. \A c \in G : Extent(c)[2] = Ends(heap, c)
      BY DEF Extent, Ends
    <2>3. \A c \in G \cup {b} : (Extent(c)[2])' = Ends(k, c)
      BY <1>3 DEF Extent, Ends
    <2>4. owned' = {<<c + Header, (Extent(c)[2])'>> : c \in DOMAIN given'}
      BY DEF owned
    <2> QED
      BY <1>1, <2>1, <2>2, <2>3, <2>4 DEF owned
  <1>10. owned' = owned \cup {new}
    <2>1. \A c \in G : Ends(heap, c) = Ends(k, c)
      BY <1>5 DEF Ends
    <2> QED
      BY <1>9, <2>1
  <1>11. new \notin owned
    <2> SUFFICES ASSUME NEW c \in G, b + Header = c + Header
                 PROVE  FALSE
      BY <1>9
    <2>1. b \in Nat /\ c \in Nat /\ b # c
      BY <1>5, <1>7, <1>8
    <2> QED
      BY <1>8, <2>1
  <1>12. new \in owned' \ owned
    BY <1>10, <1>11
  <1>13. ASSUME NEW w \in used
         PROVE  Ends(k, b) <= w[1] \/ w[2] <= b + Header
    <2>1. \A c \in DOMAIN k.hdr : c # b => Ends(k, b) <= c \/ Ends(k, c) <= b
      <3>1. ASSUME NEW c \in DOMAIN k.hdr, c # b
            PROVE  Ends(k, b) <= c \/ Ends(k, c) <= b
        <4>1. b < c \/ c < b
          BY <1>5, <1>8, <3>1
        <4> QED
          BY <1>5, <1>6, <4>1 DEF Laid
      <3> QED
        BY <3>1
    <2>2. CASE \E c \in DOMAIN heap.hdr : w = <<c, c + Header>>
      <3>1. PICK c \in DOMAIN heap.hdr : w = <<c, c + Header>>
        BY <2>2
      <3>2. c \in DOMAIN k.hdr /\ w[1] = c /\ w[2] = c + Header
        BY <1>5, <3>1
      <3>3. CASE c = b
        BY <1>8, <3>2, <3>3
      <3>4. CASE c # b
        BY <1>5, <1>8, <2>1, <3>2, <3>4
      <3> QED
        BY <3>3, <3>4
    <2>3. CASE \E c \in G : w = <<c, Ends(heap, c)>>
      <3>1. PICK c \in G : w = <<c, Ends(heap, c)>>
        BY <2>3
      <3>2. c \in DOMAIN k.hdr /\ w[1] = c /\ w[2] = Ends(k, c) /\ c # b
        BY <1>5, <1>7, <3>1 DEF Ends
      <3> QED
        BY <1>5, <1>8, <2>1, <3>2
    <2> QED
      BY <1>7, <2>2, <2>3 DEF MayWrite
  <1>14. /\ <<b, Ends(k, b)>> \in used'
         /\ b <= b + Header /\ Ends(k, b) <= Ends(k, b)
    BY <1>5, <1>8
  <1>15. /\ \A w \in used : new[2] <= w[1] \/ w[2] <= new[1]
         /\ \E w \in used' : w[1] <= new[1] /\ new[2] <= w[2]
    <2>1. new[1] = b + Header /\ new[2] = Ends(k, b)
      OBVIOUS
    <2> QED
      BY <1>13, <1>14, <2>1
  <1>16. used \subseteq used'
    BY <1>5
  <1> HIDE DEF new
  <1> QED
    BY <1>10, <1>12, <1>15, <1>16 DEF Give

LEMMA StepGives ==
  ASSUME IInv, [HeapStep]_vars
  PROVE  Give \/ UNCHANGED <<owned, used>>
  <1>1. ASSUME NEW n \in Nat \ {0}, malloc(n)
        PROVE  Give
    BY <1>1, MallocGives
  <1>2. ASSUME NEW n \in Nat \ {0}, OutOfMemory(n)
        PROVE  UNCHANGED <<owned, used>>
    BY <1>2 DEF OutOfMemory, owned, Extent
  <1>3. CASE NoBlock
    BY <1>3 DEF NoBlock, owned, Extent
  <1>4. CASE UNCHANGED vars
    BY <1>4 DEF vars, owned, Extent
  <1> QED
    BY <1>1, <1>2, <1>3, <1>4 DEF HeapStep

-----------------------------------------------------------------------------
(***************************************************************************)
(* The vectors.                                                            *)
(***************************************************************************)

\* The array of v holds what was pushed to v, and zeroes behind it.
Holds(v) ==
  LET n == vec[v].size
      a == vec[v].array
  IN  /\ a \in DOMAIN cells /\ n = Len(elts[v])
      /\ vec[v].capacity = Capacity[n] /\ given[a] = vec[v].capacity * Word
      /\ \A i \in 1..Words(a) : cells[a][i] = IF i <= n THEN elts[v][i] ELSE 0

\* A vector that may still grow shares its array with nobody.
Alone(v) == \A w \in Vector \ {v} : vec[w].array # vec[v].array

Vectors ==
  [Vector -> [life : {"unborn", "live", "shared", "destroyed"}, capacity : Nat,
              size : Nat, array : DOMAIN given \cup {0}]]

\* The inductive invariant of the vectors.
VInv ==
  /\ vec \in Vectors /\ elts \in [Vector -> Seq(Nat)]
  /\ DOMAIN cells \subseteq DOMAIN given
  /\ \A b \in DOMAIN cells : cells[b] \in [1..Words(b) -> Nat]
  /\ \A v \in Readable : Holds(v)
  /\ \A v \in Vector : /\ vec[v].life = "live" => Alone(v)
                       /\ vec[v].life = "unborn" => elts[v] = <<>>

LEMMA DivFacts ==
  ASSUME NEW a \in Nat, NEW d \in Nat \ {0}
  PROVE  /\ a \div d \in Nat
         /\ \A k \in Nat : k * d <= a => k <= a \div d
         /\ \A b \in Nat : a <= b => a \div d <= b \div d
  <1>1. ASSUME NEW b \in Nat
        PROVE  /\ b \div d \in Nat
               /\ \A k \in Nat : k * d <= b => k <= b \div d
               /\ (b \div d) * d <= b
    <2>1. PICK q \in Nat : q = b \div d
      OBVIOUS
    <2>2. /\ b = (d * (b \div d)) + (b % d)
          /\ b % d \in 0..(d - 1)
      OBVIOUS
    <2>3. PICK p \in Nat : p = q * d
      OBVIOUS
    <2>4. p <= b /\ b < p + d
      BY <2>1, <2>2, <2>3
    <2>5. ASSUME NEW k \in Nat, k * d <= b, q < k
          PROVE  FALSE
      <3>1. PICK j \in Nat : j = k - (q + 1)
        BY <2>5, k - (q + 1) \in Nat
      <3>2. k = q + 1 + j
        BY <3>1
      <3>3. k * d = p + d + j * d /\ j * d \in Nat /\ j * d >= 0
        BY <2>3, <3>2
      <3> QED
        BY <2>4, <2>5, <3>3
    <2> QED
      BY <2>1, <2>3, <2>4, <2>5
  <1>2. ASSUME NEW b \in Nat, a <= b
        PROVE  a \div d <= b \div d
    <2>1. PICK k \in Nat : k = a \div d /\ k * d <= a
      BY <1>1
    <2>2. k * d <= b
      BY <1>2, <2>1
    <2> QED
      BY <1>1, <2>1, <2>2
  <1> QED
    BY <1>1, <1>2

\* What a call of the heap leaves to those who have blocks already.
Left(c) == given'[c] = given[c] /\ heap'.hdr[c].capacity = heap.hdr[c].capacity

LEMMA HeapFrame ==
  ASSUME IInv, [HeapStep]_vars
  PROVE  DOMAIN given \subseteq DOMAIN given' /\ \A c \in DOMAIN given : Left(c)
  <1>1. ASSUME NEW n \in Nat \ {0}, malloc(n)
        PROVE  DOMAIN given \subseteq DOMAIN given' /\ \A c \in DOMAIN given : Left(c)
    <2>1. Handed(answer', n)
      BY <1>1, MallocKeeps
    <2> QED
      BY <2>1 DEF Handed, Grown, Left, Put
  <1>2. CASE UNCHANGED <<heap, given>>
    BY <1>2 DEF Left
  <1>3. ASSUME NEW n \in Nat \ {0}, OutOfMemory(n)
        PROVE  UNCHANGED <<heap, given>>
    BY <1>3 DEF OutOfMemory
  <1>4. CASE NoBlock
    BY <1>4 DEF NoBlock, Left
  <1>5. CASE UNCHANGED vars
    BY <1>2, <1>5 DEF vars
  <1> QED
    BY <1>1, <1>2, <1>3, <1>4, <1>5 DEF HeapStep

\* A vector whose fields and array stay as they are holds what it held.
LEMMA StillHolds ==
  ASSUME \A c \in DOMAIN given : Left(c), DOMAIN cells \subseteq DOMAIN given,
         NEW v, Holds(v), DOMAIN cells \subseteq DOMAIN cells',
         vec'[v].size = vec[v].size, vec'[v].array = vec[v].array,
         vec'[v].capacity = vec[v].capacity, elts'[v] = elts[v],
         cells'[vec[v].array] = cells[vec[v].array]
  PROVE  Holds(v)'
  <1>1. PICK a : a = vec[v].array
    OBVIOUS
  <1>2. a \in DOMAIN cells /\ a \in DOMAIN given
    BY <1>1 DEF Holds
  <1>3. Words(a)' = Words(a) /\ given'[a] = given[a]
    BY <1>2 DEF Left, Words
  <1>4. /\ vec[v].size = Len(elts[v]) /\ vec[v].capacity = Capacity[vec[v].size]
        /\ given[a] = vec[v].capacity * Word
        /\ \A i \in 1..Words(a) :
             cells[a][i] = IF i <= vec[v].size THEN elts[v][i] ELSE 0
    BY <1>1 DEF Holds
  <1>5. a \in DOMAIN cells'
    BY <1>2
  <1> QED
    BY <1>1, <1>3, <1>4, <1>5 DEF Holds

\* Whatever the heap does meanwhile.
LEMMA QuietKeeps ==
  ASSUME IInv, VInv, [HeapStep]_vars, UNCHANGED vectorVars
  PROVE  VInv'
  <1>1. DOMAIN given \subseteq DOMAIN given' /\ \A c \in DOMAIN given : Left(c)
    BY HeapFrame
  <1>2. vec' = vec /\ cells' = cells /\ elts' = elts
    BY DEF vectorVars
  <1>3. /\ vec \in Vectors /\ elts \in [Vector -> Seq(Nat)]
        /\ DOMAIN cells \subseteq DOMAIN given
        /\ \A b \in DOMAIN cells : cells[b] \in [1..Words(b) -> Nat]
        /\ \A v \in Readable : Holds(v)
        /\ \A v \in Vector : /\ vec[v].life = "live" => Alone(v)
                             /\ vec[v].life = "unborn" => elts[v] = <<>>
    BY DEF VInv
  <1>4. vec' \in Vectors'
    BY <1>1, <1>2, <1>3 DEF Vectors
  <1>5. \A b \in DOMAIN cells' : (cells[b] \in [1..Words(b) -> Nat])'
    BY <1>1, <1>2, <1>3 DEF Left, Words
  <1>6. Readable' = Readable
    BY <1>2 DEF Readable
  <1>7. \A v \in Readable' : Holds(v)'
    <2>1. ASSUME NEW v \in Readable
          PROVE  Holds(v)'
      BY <1>1, <1>2, <1>3, StillHolds
    <2> QED
      BY <1>6, <2>1
  <1>8. \A v \in Vector : /\ vec'[v].life = "live" => Alone(v)'
                          /\ vec'[v].life = "unborn" => elts'[v] = <<>>
    BY <1>2, <1>3 DEF Alone
  <1> QED
    BY <1>1, <1>2, <1>3, <1>4, <1>5, <1>7, <1>8 DEF VInv

\* A constructor gets an array of its own, all zeroes.
LEMMA ConstructKeeps ==
  ASSUME IInv, VInv, NEW v \in Vector, Construct(v)
  PROVE  VInv'
  <1>1. PICK b : b = answer'
    OBVIOUS
  <1>2. PICK n \in Nat \ {0} : n = 2 * Word
    <2>1. 2 * Word \in Nat \ {0}
      BY AllocatorAssumption
    <2> QED
      BY <2>1
  <1>3. PICK words : words = heap'.hdr[b].capacity \div Word
    OBVIOUS
  <1>4. PICK fresh : fresh = [life |-> "live", capacity |-> 2, size |-> 0,
                              array |-> b]
    OBVIOUS
  <1>5. /\ malloc(n) /\ cells' = Put(cells, b, Zeroes(words)) /\ elts' = elts
        /\ vec' = [vec EXCEPT ![v] = fresh]
        /\ vec[v].life = "unborn"
    BY <1>1, <1>2, <1>3, <1>4 DEF Construct
  <1>6. /\ IInv' /\ b # 0 /\ Handed(b, n)
    BY <1>1, <1>5, MallocKeeps
  <1>7. DOMAIN given \subseteq DOMAIN given' /\ \A c \in DOMAIN given : Left(c)
    BY <1>5, HeapFrame DEF HeapStep
  <1>8. /\ vec \in Vectors /\ elts \in [Vector -> Seq(Nat)]
        /\ DOMAIN cells \subseteq DOMAIN given
        /\ \A c \in DOMAIN cells : cells[c] \in [1..Words(c) -> Nat]
        /\ \A w \in Readable : Holds(w)
        /\ \A w \in Vector : /\ vec[w].life = "live" => Alone(w)
                             /\ vec[w].life = "unborn" => elts[w] = <<>>
    BY DEF VInv
  <1>9. /\ b \in DOMAIN given' /\ b \notin DOMAIN given /\ given'[b] = n
        /\ b \notin DOMAIN cells
    BY <1>6, <1>8 DEF Handed, Put
  <1>10. /\ vec'[v] = fresh /\ fresh.life = "live" /\ fresh.capacity = 2
         /\ fresh.size = 0 /\ fresh.array = b
         /\ \A w \in Vector \ {v} : vec'[w] = vec[w]
         /\ \A w \in Vector : vec[w].array # b /\ vec[w].array \in DOMAIN given \cup {0}
    BY <1>4, <1>5, <1>6, <1>8, <1>9 DEF Vectors
  <1>11. vec' \in Vectors'
    <2>1. fresh \in [life : {"unborn", "live", "shared", "destroyed"},
                     capacity : Nat, size : Nat, array : DOMAIN given' \cup {0}]
      BY <1>4, <1>9
    <2>2. vec \in [Vector -> [life : {"unborn", "live", "shared", "destroyed"},
                              capacity : Nat, size : Nat,
                              array : DOMAIN given' \cup {0}]]
      BY <1>7, <1>8 DEF Vectors
    <2> QED
      BY <1>5, <2>1, <2>2 DEF Vectors
  <1>12. /\ DOMAIN cells' = DOMAIN cells \cup {b} /\ cells'[b] = Zeroes(words)
         /\ \A c \in DOMAIN cells : cells'[c] = cells[c]
    BY <1>5, <1>9 DEF Put
  <1>13. Words(b)' = words
    BY <1>3 DEF Words
  <1>14. \A c \in DOMAIN cells' : (cells[c] \in [1..Words(c) -> Nat])'
    <2>1. cells'[b] \in [1..Words(b)' -> Nat]
      BY <1>12, <1>13 DEF Zeroes
    <2>2. ASSUME NEW c \in DOMAIN cells
          PROVE  cells'[c] \in [1..Words(c)' -> Nat]
      BY <1>7, <1>8, <1>12 DEF Left, Words
    <2> QED
      BY <1>12, <2>1, <2>2
  <1>15. Holds(v)'
    <2>1. Capacity[0] = 2
      BY CapacityEquation DEF After
    <2>2. elts'[v] = <<>> /\ Len(<<>>) = 0
      BY <1>5, <1>8
    <2>3. /\ vec'[v].size = 0 /\ vec'[v].array = b /\ vec'[v].capacity = 2
          /\ given'[b] = 2 * Word /\ b \in DOMAIN cells'
      BY <1>2, <1>9, <1>10, <1>12
    <2>4. \A i \in 1..words : cells'[b][i] = 0 /\ ~(i <= 0)
      BY <1>12 DEF Zeroes
    <2> QED
      BY <1>13, <2>1, <2>2, <2>3, <2>4 DEF Holds
  <1>16. ASSUME NEW w \in Readable', w # v
         PROVE  Holds(w)'
    <2>1. w \in Readable /\ w \in Vector /\ vec'[w] = vec[w]
      BY <1>10, <1>16 DEF Readable
    <2>2. Holds(w) /\ vec[w].array \in DOMAIN cells
      BY <1>8, <2>1 DEF Holds
    <2> QED
      BY <1>5, <1>7, <1>8, <1>12, <2>1, <2>2, StillHolds
  <1>17. \A w \in Vector : /\ vec'[w].life = "live" => Alone(w)'
                           /\ vec'[w].life = "unborn" => elts'[w] = <<>>
    BY <1>5, <1>8, <1>10 DEF Alone
  <1>18. DOMAIN cells' \subseteq DOMAIN given'
    BY <1>7, <1>8, <1>9, <1>12
  <1> QED
    BY <1>5, <1>8, <1>11, <1>14, <1>15, <1>16, <1>17, <1>18 DEF VInv

\* A block has room for the words that were asked for.
LEMMA RoomFacts ==
  ASSUME NEW cap \in Nat, NEW k \in Nat \ {0}, NEW n \in Nat \ {0}, n = k * Word,
         Fits(cap, Size(n))
  PROVE  /\ cap \div Word \in Nat /\ k <= cap \div Word
         /\ k <= Lesser(n, cap) \div Word
         /\ Lesser(n, cap) \div Word \in Nat
         /\ Lesser(n, cap) \div Word <= cap \div Word
  <1>1. Size(n) \in Nat \ {0} /\ n + 10 <= Size(n)
    BY SizeFacts
  <1>2. n <= cap /\ Size(n) <= cap
    BY <1>1 DEF Fits
  <1>3. Lesser(n, cap) = n \/ Lesser(n, cap) = cap
    BY DEF Lesser
  <1>4. Word \in Nat \ {0}
    BY AllocatorAssumption
  <1>5. PICK m \in Nat : m = Lesser(n, cap)
    BY <1>3
  <1>6. m <= cap /\ k * Word <= m /\ k * Word <= cap
    BY <1>2, <1>3, <1>5
  <1>7. /\ m \div Word \in Nat
        /\ \A j \in Nat : j * Word <= m => j <= m \div Word
        /\ \A b \in Nat : m <= b => m \div Word <= b \div Word
    BY <1>4, DivFacts
  <1>8. /\ cap \div Word \in Nat
        /\ \A j \in Nat : j * Word <= cap => j <= cap \div Word
    BY <1>4, DivFacts
  <1> QED
    BY <1>5, <1>6, <1>7, <1>8

\* A vector that can be read: its array has room for one more element.
LEMMA ReadableFacts ==
  ASSUME IInv, VInv, NEW v \in Readable,
         NEW a, a = vec[v].array, NEW n, n = vec[v].size,
         NEW k, k = vec[v].capacity
  PROVE  /\ a \in DOMAIN cells /\ a \in DOMAIN given
         /\ n \in Nat /\ n = Len(elts[v]) /\ k \in Nat \ {0} /\ k = Capacity[n]
         /\ n + 1 <= k /\ given[a] = k * Word /\ given[a] \in Nat \ {0}
         /\ heap.hdr[a].capacity \in Nat
         /\ Fits(heap.hdr[a].capacity, Size(given[a]))
         /\ Words(a) \in Nat /\ k <= Words(a)
         /\ cells[a] \in [1..Words(a) -> Nat]
         /\ \A i \in 1..Words(a) : cells[a][i] = IF i <= n THEN elts[v][i] ELSE 0
  <1>1. /\ Holds(v) /\ v \in Vector /\ vec \in Vectors
        /\ DOMAIN cells \subseteq DOMAIN given
        /\ \A b \in DOMAIN cells : cells[b] \in [1..Words(b) -> Nat]
    BY DEF VInv, Readable
  <1>2. /\ a \in DOMAIN cells /\ n = Len(elts[v]) /\ k = Capacity[n]
        /\ given[a] = k * Word
        /\ \A i \in 1..Words(a) : cells[a][i] = IF i <= n THEN elts[v][i] ELSE 0
    BY <1>1 DEF Holds
  <1>3. n \in Nat
    BY <1>1 DEF Vectors
  <1>4. k \in Nat \ {0} /\ n + 1 <= k
    <2>1. Capacity[n] \in Nat /\ Capacity[n] > n
      BY <1>3, CapacityFacts
    <2> QED
      BY <1>2, <1>3, <2>1
  <1>5. a \in DOMAIN given /\ given[a] \in Nat \ {0} /\ Fits(heap.hdr[a].capacity, Size(given[a]))
    BY <1>1, <1>2 DEF IInv
  <1>6. heap.hdr[a].capacity \in Nat
    BY <1>5, IInvFacts DEF HeapType, Headers, Block
  <1>7. PICK cap \in Nat : cap = heap.hdr[a].capacity
    BY <1>6
  <1>8. PICK m \in Nat \ {0} : m = given[a]
    BY <1>5
  <1>9. cap \div Word \in Nat /\ k <= cap \div Word
    BY <1>2, <1>4, <1>5, <1>7, <1>8, RoomFacts
  <1> QED
    BY <1>1, <1>2, <1>3, <1>4, <1>5, <1>6, <1>7, <1>9 DEF Words

\* An element pushed in place.
LEMMA PushInPlaceKeeps ==
  ASSUME IInv, VInv, NEW v \in Vector, NEW e \in Nat, push_back(v, e),
         vec[v].size + 1 # vec[v].capacity
  PROVE  VInv' /\ UNCHANGED heapVars
  <1>1. PICK a : a = vec[v].array
    OBVIOUS
  <1>2. PICK n : n = vec[v].size
    OBVIOUS
  <1>3. PICK k : k = vec[v].capacity
    OBVIOUS
  <1>4. PICK fresh : fresh = [vec[v] EXCEPT !.size = n + 1]
    OBVIOUS
  <1>5. /\ vec[v].life = "live"
        /\ elts' = [elts EXCEPT ![v] = Append(elts[v], e)]
        /\ cells' = [cells EXCEPT ![a][n + 1] = e]
        /\ vec' = [vec EXCEPT ![v] = fresh]
        /\ UNCHANGED heapVars
    BY <1>1, <1>2, <1>4 DEF push_back
  <1>6. v \in Readable
    BY <1>5 DEF Readable
  <1>7. /\ a \in DOMAIN cells /\ a \in DOMAIN given
        /\ n \in Nat /\ n = Len(elts[v]) /\ k \in Nat \ {0} /\ k = Capacity[n]
        /\ n + 1 <= k /\ given[a] = k * Word
        /\ Words(a) \in Nat /\ k <= Words(a)
        /\ cells[a] \in [1..Words(a) -> Nat]
        /\ \A i \in 1..Words(a) : cells[a][i] = IF i <= n THEN elts[v][i] ELSE 0
    BY <1>1, <1>2, <1>3, <1>6, ReadableFacts
  <1>8. /\ vec \in Vectors /\ elts \in [Vector -> Seq(Nat)]
        /\ DOMAIN cells \subseteq DOMAIN given
        /\ \A b \in DOMAIN cells : cells[b] \in [1..Words(b) -> Nat]
        /\ \A w \in Readable : Holds(w)
        /\ \A w \in Vector : /\ vec[w].life = "live" => Alone(w)
                             /\ vec[w].life = "unborn" => elts[w] = <<>>
    BY DEF VInv
  <1>9. /\ given' = given /\ heap' = heap /\ \A c \in DOMAIN given : Left(c)
        /\ \A c : Words(c)' = Words(c)
    BY <1>5 DEF heapVars, Left, Words
  <1>10. /\ vec'[v] = fresh /\ fresh.life = "live" /\ fresh.capacity = k
         /\ fresh.size = n + 1 /\ fresh.array = a
         /\ \A w \in Vector \ {v} : vec'[w] = vec[w]
    BY <1>1, <1>2, <1>3, <1>4, <1>5, <1>8 DEF Vectors
  <1>11. vec' \in Vectors'
    <2>1. vec \in [Vector -> [life : {"unborn", "live", "shared", "destroyed"},
                              capacity : Nat, size : Nat,
                              array : DOMAIN given \cup {0}]]
      BY <1>8 DEF Vectors
    <2>2. fresh \in [life : {"unborn", "live", "shared", "destroyed"},
                     capacity : Nat, size : Nat, array : DOMAIN given \cup {0}]
      <3>1. vec[v] \in [life : {"unborn", "live", "shared", "destroyed"},
                       capacity : Nat, size : Nat, array : DOMAIN given \cup {0}]
        BY <2>1
      <3>2. n + 1 \in Nat
        BY <1>7
      <3> QED
        BY <1>4, <3>1, <3>2
    <2>3. vec' \in [Vector -> [life : {"unborn", "live", "shared", "destroyed"},
                               capacity : Nat, size : Nat,
                               array : DOMAIN given \cup {0}]]
      BY <1>5, <2>1, <2>2
    <2> QED
      BY <1>9, <2>3 DEF Vectors
  <1>12. /\ elts' \in [Vector -> Seq(Nat)] /\ elts'[v] = Append(elts[v], e)
         /\ Len(elts'[v]) = n + 1 /\ elts'[v][n + 1] = e
         /\ \A i \in 1..n : elts'[v][i] = elts[v][i]
         /\ \A w \in Vector \ {v} : elts'[w] = elts[w]
    BY <1>5, <1>7, <1>8
  <1>13. /\ DOMAIN cells' = DOMAIN cells
         /\ cells'[a] \in [1..Words(a) -> Nat]
         /\ cells'[a][n + 1] = e
         /\ \A i \in 1..Words(a) : i # n + 1 => cells'[a][i] = cells[a][i]
         /\ \A c \in DOMAIN cells : c # a => cells'[c] = cells[c]
    <2>1. n + 1 \in 1..Words(a)
      BY <1>7
    <2>2. PICK row : row = [cells[a] EXCEPT ![n + 1] = e]
      OBVIOUS
    <2>3. cells' = [cells EXCEPT ![a] = row]
      BY <1>5, <2>2
    <2> QED
      BY <1>7, <2>1, <2>2, <2>3
  <1>14. \A c \in DOMAIN cells' : (cells[c] \in [1..Words(c) -> Nat])'
    BY <1>8, <1>9, <1>13
  <1>15. Holds(v)'
    <2>1. Capacity[n + 1] = k
      <3>1. n \in Nat
        BY <1>7
      <3>2. PICK m \in Nat : m = n + 1
        BY <3>1
      <3>3. Capacity[m] = After(m, Capacity[m - 1])
        BY CapacityEquation
      <3>4. m - 1 = n
        BY <3>1, <3>2
      <3> QED
        BY <1>2, <1>3, <1>7, <3>2, <3>3, <3>4 DEF After
    <2>2. ASSUME NEW i \in 1..Words(a)
          PROVE  cells'[a][i] = IF i <= n + 1 THEN elts'[v][i] ELSE 0
      <3>1. i \in 1..n \/ i = n + 1 \/ (i > n + 1 /\ ~(i <= n))
        BY <1>7
      <3> QED
        BY <1>7, <1>12, <1>13, <3>1
    <2>3. /\ vec'[v].size = n + 1 /\ vec'[v].array = a /\ vec'[v].capacity = k
          /\ a \in DOMAIN cells' /\ given'[a] = k * Word /\ Words(a)' = Words(a)
          /\ Len(elts'[v]) = n + 1
      BY <1>7, <1>9, <1>10, <1>12, <1>13
    <2> QED
      BY <2>1, <2>2, <2>3 DEF Holds
  <1>16. ASSUME NEW w \in Readable', w # v
         PROVE  Holds(w)'
    <2>1. w \in Readable /\ w \in Vector /\ vec'[w] = vec[w] /\ elts'[w] = elts[w]
      BY <1>10, <1>12, <1>16 DEF Readable
    <2>2. Holds(w) /\ vec[w].array \in DOMAIN cells
      BY <1>8, <2>1 DEF Holds
    <2>3. vec[w].array # a
      BY <1>1, <1>5, <1>8, <1>16, <2>1 DEF Alone
    <2> QED
      BY <1>8, <1>9, <1>13, <2>1, <2>2, <2>3, StillHolds
  <1>17. \A w \in Vector : /\ vec'[w].life = "live" => Alone(w)'
                           /\ vec'[w].life = "unborn" => elts'[w] = <<>>
    <2>1. \A w \in Vector : /\ vec'[w].array = vec[w].array
                            /\ vec'[w].life = vec[w].life
      BY <1>1, <1>5, <1>10
    <2> QED
      BY <1>5, <1>8, <1>12, <2>1 DEF Alone
  <1> QED
    BY <1>5, <1>8, <1>9, <1>11, <1>12, <1>13, <1>14, <1>15, <1>16, <1>17 DEF VInv

LEMMA Doubled ==
  ASSUME NEW k \in Nat, NEW d \in Nat
  PROVE  2 * k * d = k * d + k * d
  OBVIOUS

\* An element pushed while the array moves.
LEMMA PushMovingKeeps ==
  ASSUME IInv, VInv, NEW v \in Vector, NEW e \in Nat, push_back(v, e),
         vec[v].size + 1 = vec[v].capacity
  PROVE  VInv' /\ HeapStep
  <1>1. PICK a : a = vec[v].array
    OBVIOUS
  <1>2. PICK n : n = vec[v].size
    OBVIOUS
  <1>3. PICK k : k = vec[v].capacity
    OBVIOUS
  <1>4. PICK b : b = answer'
    OBVIOUS
  <1>5. PICK words : words = heap'.hdr[b].capacity \div Word
    OBVIOUS
  <1>6. PICK bytes : bytes = 2 * k * Word
    OBVIOUS
  <1>7. PICK copy : copy = [i \in 1..words |->
                              IF i = n + 1 THEN e
                              ELSE IF i <= Moved(a, bytes) THEN Read(a, i) ELSE 0]
    OBVIOUS
  <1>8. PICK fresh : fresh = [vec[v] EXCEPT !.capacity = 2 * k, !.size = n + 1,
                                            !.array = b]
    OBVIOUS
  <1>9. /\ vec[v].life = "live"
        /\ elts' = [elts EXCEPT ![v] = Append(elts[v], e)]
        /\ malloc(bytes)
        /\ cells' = Put(cells, b, copy)
    BY <1>1, <1>2, <1>3, <1>4, <1>5, <1>6, <1>7 DEF push_back, realloc
  <1>10. vec' = [vec EXCEPT ![v] = fresh]
    <2>1. vec' = [vec EXCEPT ![v].capacity = 2 * @, ![v].size = @ + 1,
                             ![v].array = b]
      BY <1>4 DEF push_back
    <2> QED
      BY <1>2, <1>3, <1>8, <2>1 DEF VInv, Vectors
  <1>11. v \in Readable
    BY <1>9 DEF Readable
  <1>12. /\ a \in DOMAIN cells /\ a \in DOMAIN given
         /\ n \in Nat /\ n = Len(elts[v]) /\ k \in Nat \ {0} /\ k = Capacity[n]
         /\ n + 1 = k /\ given[a] = k * Word
         /\ heap.hdr[a].capacity \in Nat
         /\ Words(a) \in Nat /\ k <= Words(a)
         /\ cells[a] \in [1..Words(a) -> Nat]
         /\ \A i \in 1..Words(a) : cells[a][i] = IF i <= n THEN elts[v][i] ELSE 0
    BY <1>1, <1>2, <1>3, <1>11, ReadableFacts
  <1>13. /\ vec \in Vectors /\ elts \in [Vector -> Seq(Nat)]
         /\ DOMAIN cells \subseteq DOMAIN given
         /\ \A c \in DOMAIN cells : cells[c] \in [1..Words(c) -> Nat]
         /\ \A w \in Readable : Holds(w)
         /\ \A w \in Vector : /\ vec[w].life = "live" => Alone(w)
                              /\ vec[w].life = "unborn" => elts[w] = <<>>
    BY DEF VInv
  <1>14. PICK m \in Nat \ {0} : m = 2 * k
    <2>1. 2 * k \in Nat \ {0}
      BY <1>12
    <2> QED
      BY <2>1
  <1>15. bytes = m * Word /\ bytes = k * Word + k * Word /\ bytes \in Nat \ {0}
    <2>1. given[a] \in Nat \ {0}
      BY <1>12 DEF IInv
    <2>2. k * Word \in Nat \ {0}
      BY <1>12, <2>1
    <2>3. Word \in Nat /\ k \in Nat
      BY <1>12, AllocatorAssumption
    <2>4. 2 * k * Word = k * Word + k * Word
      BY <2>3, Doubled
    <2>5. k * Word + k * Word \in Nat \ {0}
      BY <2>2
    <2> QED
      BY <1>6, <1>14, <2>4, <2>5
  <1>16. IInv' /\ b # 0 /\ Handed(b, bytes)
    BY <1>4, <1>9, <1>15, MallocKeeps
  <1>17. HeapStep
    BY <1>9, <1>15 DEF HeapStep
  <1>18. DOMAIN given \subseteq DOMAIN given' /\ \A c \in DOMAIN given : Left(c)
    BY <1>17, HeapFrame
  <1>19. /\ b \in DOMAIN given' /\ b \notin DOMAIN given /\ given'[b] = bytes
         /\ b \notin DOMAIN cells /\ b # a
    BY <1>12, <1>13, <1>16 DEF Handed, Put
  <1>20. words \in Nat /\ m <= words
    <2>1. PICK cap : cap = heap'.hdr[b].capacity
      OBVIOUS
    <2>2. Fits(cap, Size(bytes))
      BY <1>16, <1>19, <2>1 DEF IInv
    <2>3. cap \in Nat
      <3>1. Good(heap', mapped', DOMAIN given')
        BY <1>9, <1>15, <1>16, MallocKeeps DEF IInv
      <3> QED
        BY <1>19, <2>1, <3>1 DEF Good, HeapType, Headers
    <2>4. cap \div Word \in Nat /\ m <= cap \div Word
      BY <1>15, <2>2, <2>3, RoomFacts
    <2> QED
      BY <1>5, <2>1, <2>4
  <1>21. PICK moved \in Nat : moved = Moved(a, bytes) /\ n <= moved /\ moved <= Words(a)
    <2>1. PICK cap \in Nat : cap = heap.hdr[a].capacity
      BY <1>12
    <2>2. PICK asked \in Nat \ {0} : asked = given[a]
      BY <1>12 DEF IInv
    <2>3. Fits(cap, Size(asked))
      BY <1>12, <2>1, <2>2 DEF IInv
    <2>4. k * Word <= cap /\ k * Word \in Nat
      <3>1. Size(asked) \in Nat \ {0} /\ asked + 10 <= Size(asked)
        BY SizeFacts
      <3> QED
        BY <1>12, <2>2, <2>3, <3>1 DEF Fits
    <2>5. k * Word <= bytes
      <3>1. PICK p \in Nat : p = k * Word
        BY <2>4
      <3>2. bytes = p + p
        BY <1>15, <3>1
      <3> QED
        BY <3>1, <3>2
    <2>6. PICK l \in Nat : l = Lesser(bytes, cap) /\ l <= cap /\ k * Word <= l
      BY <1>15, <2>4, <2>5 DEF Lesser
    <2>7. Word \in Nat \ {0}
      BY AllocatorAssumption
    <2>8. /\ l \div Word \in Nat /\ k <= l \div Word /\ l \div Word <= cap \div Word
      BY <1>12, <2>6, <2>7, DivFacts
    <2>9. Moved(a, bytes) = l \div Word /\ Words(a) = cap \div Word
      BY <2>1, <2>6 DEF Moved, Words
    <2> QED
      BY <1>12, <2>8, <2>9
  <1>22. \A i \in 1..moved : Read(a, i) = cells[a][i] /\ i \in 1..Words(a)
    <2>1. Len(cells[a]) = Words(a)
      BY <1>12, FunctionIsSeq
    <2> QED
      BY <1>12, <1>21, <2>1 DEF Read
  <1>23. /\ copy \in [1..words -> Nat]
         /\ \A i \in 1..n : copy[i] = elts[v][i] /\ i \in 1..words
         /\ copy[n + 1] = e
         /\ \A i \in 1..words : i > n + 1 => copy[i] = 0
    <2>1. ASSUME NEW i \in 1..words
          PROVE  /\ copy[i] \in Nat
                 /\ i \in 1..n => copy[i] = elts[v][i]
                 /\ i = n + 1 => copy[i] = e
                 /\ i > n + 1 => copy[i] = 0
      <3>1. copy[i] = IF i = n + 1 THEN e
                      ELSE IF i <= moved THEN Read(a, i) ELSE 0
        BY <1>7, <1>21
      <3>2. CASE i = n + 1
        BY <1>12, <3>1, <3>2
      <3>3. CASE i # n + 1 /\ i <= moved
        <4>1. copy[i] = cells[a][i] /\ i \in 1..Words(a)
          BY <1>22, <3>1, <3>3
        <4> QED
          BY <1>12, <3>3, <4>1
      <3>4. CASE i # n + 1 /\ ~(i <= moved)
        BY <1>12, <1>21, <3>1, <3>4
      <3> QED
        BY <3>2, <3>3, <3>4
    <2>2. DOMAIN copy = 1..words
      BY <1>7
    <2>3. copy = [i \in 1..words |-> copy[i]]
      BY <1>7
    <2>4. n + 1 \in 1..words /\ \A i \in 1..n : i \in 1..words
      BY <1>12, <1>14, <1>20, SMTT(30)
    <2> QED
      BY <2>1, <2>3, <2>4
  <1>24. /\ vec'[v] = fresh /\ fresh.life = "live" /\ fresh.capacity = 2 * k
         /\ fresh.size = n + 1 /\ fresh.array = b
         /\ \A w \in Vector \ {v} : vec'[w] = vec[w]
         /\ \A w \in Vector : vec[w].array # b /\ vec[w].array \in DOMAIN given \cup {0}
    BY <1>8, <1>9, <1>10, <1>13, <1>16, <1>19 DEF Vectors
  <1>25. vec' \in Vectors'
    <2>1. vec \in [Vector -> [life : {"unborn", "live", "shared", "destroyed"},
                              capacity : Nat, size : Nat,
                              array : DOMAIN given' \cup {0}]]
      BY <1>13, <1>18 DEF Vectors
    <2>2. fresh \in [life : {"unborn", "live", "shared", "destroyed"},
                     capacity : Nat, size : Nat, array : DOMAIN given' \cup {0}]
      <3>1. vec[v] \in [life : {"unborn", "live", "shared", "destroyed"},
                       capacity : Nat, size : Nat, array : DOMAIN given' \cup {0}]
        BY <2>1
      <3>2. n + 1 \in Nat /\ 2 * k \in Nat
        BY <1>12, <1>14
      <3> QED
        BY <1>8, <1>19, <3>1, <3>2
    <2> QED
      BY <1>10, <2>1, <2>2 DEF Vectors
  <1>26. /\ elts' \in [Vector -> Seq(Nat)]
         /\ Len(elts'[v]) = n + 1 /\ elts'[v][n + 1] = e
         /\ \A i \in 1..n : elts'[v][i] = elts[v][i]
         /\ \A w \in Vector \ {v} : elts'[w] = elts[w]
    BY <1>9, <1>12, <1>13
  <1>27. /\ DOMAIN cells' = DOMAIN cells \cup {b} /\ cells'[b] = copy
         /\ \A c \in DOMAIN cells : cells'[c] = cells[c]
    BY <1>9, <1>19 DEF Put
  <1>28. Words(b)' = words
    BY <1>5 DEF Words
  <1>29. \A c \in DOMAIN cells' : (cells[c] \in [1..Words(c) -> Nat])'
    <2>1. ASSUME NEW c \in DOMAIN cells
          PROVE  cells'[c] \in [1..Words(c)' -> Nat]
      BY <1>13, <1>18, <1>27 DEF Left, Words
    <2> QED
      BY <1>23, <1>27, <1>28, <2>1
  <1>30. Holds(v)'
    <2>1. Capacity[n + 1] = 2 * k
      <3>1. PICK j \in Nat : j = n + 1
        BY <1>12
      <3>2. Capacity[j] = After(j, Capacity[j - 1]) /\ j - 1 = n
        BY <1>12, <3>1, CapacityEquation, SMTT(30)
      <3> QED
        BY <1>12, <3>1, <3>2 DEF After
    <2>2. ASSUME NEW i \in 1..words
          PROVE  cells'[b][i] = IF i <= n + 1 THEN elts'[v][i] ELSE 0
      <3>1. i \in 1..n \/ i = n + 1 \/ (i > n + 1 /\ ~(i <= n + 1))
        BY <1>12
      <3> QED
        BY <1>12, <1>23, <1>26, <1>27, <3>1, SMTT(30)
    <2>3. given'[b] = 2 * k * Word
      BY <1>6, <1>19
    <2> QED
      BY <1>24, <1>26, <1>27, <1>28, <2>1, <2>2, <2>3 DEF Holds
  <1>31. ASSUME NEW w \in Readable', w # v
         PROVE  Holds(w)'
    <2>1. w \in Readable /\ w \in Vector /\ vec'[w] = vec[w] /\ elts'[w] = elts[w]
      BY <1>24, <1>26, <1>31 DEF Readable
    <2>2. Holds(w) /\ vec[w].array \in DOMAIN cells
      BY <1>13, <2>1 DEF Holds
    <2> QED
      BY <1>13, <1>18, <1>27, <2>1, <2>2, StillHolds
  <1>32. \A w \in Vector : /\ vec'[w].life = "live" => Alone(w)'
                           /\ vec'[w].life = "unborn" => elts'[w] = <<>>
    <2>1. ASSUME NEW w \in Vector
          PROVE  /\ vec'[w].array = IF w = v THEN b ELSE vec[w].array
                 /\ vec'[w].life = IF w = v THEN "live" ELSE vec[w].life
                 /\ vec[w].array # b
      BY <1>24
    <2>2. ASSUME NEW w \in Vector, vec'[w].life = "live"
          PROVE  Alone(w)'
      <3>1. CASE w = v
        BY <2>1, <3>1 DEF Alone
      <3>2. CASE w # v
        BY <1>13, <2>1, <2>2, <3>2, ZenonT(30) DEF Alone
      <3> QED
        BY <3>1, <3>2
    <2>3. ASSUME NEW w \in Vector, vec'[w].life = "unborn"
          PROVE  elts'[w] = <<>>
      BY <1>13, <1>26, <2>1, <2>3
    <2> QED
      BY <2>2, <2>3
  <1>33. DOMAIN cells' \subseteq DOMAIN given'
    BY <1>13, <1>18, <1>19, <1>27
  <1> QED
    BY <1>17, <1>25, <1>26, <1>29, <1>30, <1>31, <1>32, <1>33 DEF VInv

\* An assignment: two vectors, one array, and neither grows any more.
LEMMA AssignKeeps ==
  ASSUME IInv, VInv, Assign
  PROVE  VInv' /\ UNCHANGED heapVars
  <1>1. PICK fresh : fresh = [vec["loaded"] EXCEPT !.life = "shared"]
    OBVIOUS
  <1>2. PICK l : l = "loaded"
    OBVIOUS
  <1>3. PICK d : d = "dependencies"
    OBVIOUS
  <1>4. l # d /\ Vector = {l, d}
    BY <1>2, <1>3 DEF Vector
  <1>5. /\ vec[l].life = "live" /\ vec[d].life = "live"
        /\ vec' = [vec EXCEPT ![l].life = "shared", ![d] = fresh]
        /\ elts' = [elts EXCEPT ![d] = elts[l]]
        /\ UNCHANGED heapVars /\ cells' = cells
    BY <1>1, <1>2, <1>3 DEF Assign
  <1>6. /\ vec \in Vectors /\ elts \in [Vector -> Seq(Nat)]
        /\ DOMAIN cells \subseteq DOMAIN given
        /\ \A b \in DOMAIN cells : cells[b] \in [1..Words(b) -> Nat]
        /\ \A w \in Readable : Holds(w)
    BY DEF VInv
  <1>7. /\ given' = given /\ heap' = heap /\ \A c \in DOMAIN given : Left(c)
        /\ \A c : Words(c)' = Words(c)
    BY <1>5 DEF heapVars, Left, Words
  <1>8. vec = [w \in Vector |-> vec[w]]
           /\ \A w \in Vector :
                vec[w] \in [life : {"unborn", "live", "shared", "destroyed"},
                            capacity : Nat, size : Nat,
                            array : DOMAIN given \cup {0}]
    BY <1>6 DEF Vectors
  <1>9. /\ fresh \in [life : {"unborn", "live", "shared", "destroyed"},
                      capacity : Nat, size : Nat, array : DOMAIN given \cup {0}]
        /\ fresh.life = "shared" /\ fresh.size = vec[l].size
        /\ fresh.capacity = vec[l].capacity /\ fresh.array = vec[l].array
    BY <1>1, <1>2, <1>4, <1>8
  <1>10. vec' = [w \in Vector |-> fresh]
    <2>1. [vec EXCEPT ![l].life = "shared"] = [vec EXCEPT ![l] = fresh]
      BY <1>1, <1>2, <1>4, <1>8
    <2>2. vec' = [[vec EXCEPT ![l].life = "shared"] EXCEPT ![d] = fresh]
      BY <1>5
    <2>3. vec' = [[vec EXCEPT ![l] = fresh] EXCEPT ![d] = fresh]
      BY <2>1, <2>2
    <2> QED
      BY <1>4, <1>8, <2>3
  <1>11. vec' \in Vectors'
    BY <1>7, <1>9, <1>10 DEF Vectors
  <1>12. elts' \in [Vector -> Seq(Nat)] /\ \A w \in Vector : elts'[w] = elts[l]
    BY <1>4, <1>5, <1>6
  <1>13. \A w \in Vector : Holds(w)'
    <2>1. Holds(l)
      BY <1>4, <1>5, <1>6 DEF Readable
    <2>2. ASSUME NEW w \in Vector
          PROVE  Holds(w)'
      <3>1. /\ vec'[w].size = vec[l].size /\ vec'[w].array = vec[l].array
            /\ vec'[w].capacity = vec[l].capacity /\ elts'[w] = elts[l]
        BY <1>9, <1>10, <1>12
      <3> QED
        BY <1>5, <1>7, <2>1, <3>1 DEF Holds
    <2> QED
      BY <2>2
  <1>14. \A w \in Vector : vec'[w].life = "shared"
    BY <1>9, <1>10
  <1>15. \A w \in Vector : /\ vec'[w].life = "live" => Alone(w)'
                           /\ vec'[w].life = "unborn" => elts'[w] = <<>>
    BY <1>14
  <1>16. \A c \in DOMAIN cells' : (cells[c] \in [1..Words(c) -> Nat])'
    BY <1>5, <1>6, <1>7
  <1> QED
    BY <1>5, <1>6, <1>7, <1>11, <1>12, <1>13, <1>15, <1>16 DEF VInv, Readable

\* A destructor takes nothing from the other vector, whosever the array is.
LEMMA DestroyKeeps ==
  ASSUME IInv, VInv, NEW v \in Vector, Destroy(v)
  PROVE  VInv' /\ HeapStep
  <1>1. PICK fresh : fresh = [vec[v] EXCEPT !.life = "destroyed"]
    OBVIOUS
  <1>2. /\ vec[v].life \in {"live", "shared"} /\ free(vec[v].array)
        /\ vec' = [vec EXCEPT ![v] = fresh] /\ cells' = cells /\ elts' = elts
    BY <1>1 DEF Destroy
  <1>3. HeapStep
    BY <1>2 DEF HeapStep, free
  <1>4. /\ vec \in Vectors /\ elts \in [Vector -> Seq(Nat)]
        /\ DOMAIN cells \subseteq DOMAIN given
        /\ \A b \in DOMAIN cells : cells[b] \in [1..Words(b) -> Nat]
        /\ \A w \in Readable : Holds(w)
        /\ \A w \in Vector : /\ vec[w].life = "live" => Alone(w)
                             /\ vec[w].life = "unborn" => elts[w] = <<>>
    BY DEF VInv
  <1>5. /\ given' = given /\ heap' = heap /\ \A c \in DOMAIN given : Left(c)
        /\ \A c : Words(c)' = Words(c)
    BY <1>2 DEF free, NoBlock, Left, Words
  <1>6. /\ vec'[v].life = "destroyed" /\ vec'[v].array = vec[v].array
        /\ \A w \in Vector \ {v} : vec'[w] = vec[w]
        /\ vec' \in Vectors'
    <2>1. vec[v] \in [life : {"unborn", "live", "shared", "destroyed"},
                      capacity : Nat, size : Nat, array : DOMAIN given \cup {0}]
      BY <1>4 DEF Vectors
    <2>2. /\ fresh \in [life : {"unborn", "live", "shared", "destroyed"},
                        capacity : Nat, size : Nat, array : DOMAIN given \cup {0}]
          /\ fresh.life = "destroyed" /\ fresh.array = vec[v].array
      BY <1>1, <2>1
    <2> QED
      BY <1>2, <1>4, <1>5, <2>2 DEF Vectors
  <1>7. ASSUME NEW w \in Readable'
        PROVE  Holds(w)'
    <2>1. w \in Readable /\ w \in Vector /\ vec'[w] = vec[w]
      BY <1>6 DEF Readable
    <2>2. Holds(w)
      BY <1>4, <2>1
    <2> QED
      BY <1>2, <1>4, <1>5, <2>1, <2>2, StillHolds
  <1>8. \A w \in Vector : /\ vec'[w].life = "live" => Alone(w)'
                          /\ vec'[w].life = "unborn" => elts'[w] = <<>>
    <2>1. ASSUME NEW w \in Vector
          PROVE  /\ vec'[w].array = vec[w].array
                 /\ vec'[w].life = "live" => vec[w].life = "live"
                 /\ vec'[w].life = "unborn" => vec[w].life = "unborn"
      BY <1>6
    <2> QED
      BY <1>2, <1>4, <2>1 DEF Alone
  <1>9. \A c \in DOMAIN cells' : (cells[c] \in [1..Words(c) -> Nat])'
    BY <1>2, <1>4, <1>5
  <1> QED
    BY <1>2, <1>3, <1>4, <1>5, <1>6, <1>7, <1>8, <1>9 DEF VInv

LEMMA VInvInit == VInit => IInv /\ VInv
  <1> SUFFICES ASSUME VInit
               PROVE  IInv /\ VInv
    OBVIOUS
  <1>1. IInv
    BY IInvInit DEF VInit
  <1>2. /\ vec = [v \in Vector |-> Unborn] /\ DOMAIN cells = {}
        /\ elts = [v \in Vector |-> <<>>]
    BY DEF VInit
  <1>3. /\ vec \in Vectors /\ elts \in [Vector -> Seq(Nat)]
        /\ \A v \in Vector : vec[v].life = "unborn"
    <2>1. <<>> \in Seq(Nat)
      OBVIOUS
    <2> QED
      BY <1>2, <2>1 DEF Vectors, Unborn
  <1>4. \A v \in Vector : elts[v] = <<>>
    BY <1>2
  <1> QED
    BY <1>1, <1>2, <1>3, <1>4 DEF VInv, Readable

\* Every step of the vectors is one of the heap, or leaves the heap alone.
LEMMA VInvStep == IInv /\ VInv /\ [VNext]_vvars => IInv' /\ VInv' /\ [HeapStep]_vars
  <1> SUFFICES ASSUME IInv, VInv, [VNext]_vvars
               PROVE  VInv' /\ [HeapStep]_vars
    BY IInvStep
  <1>1. ASSUME UNCHANGED heapVars
        PROVE  UNCHANGED vars
    BY <1>1 DEF heapVars, vars
  <1>2. ASSUME NEW v \in Vector, Construct(v)
        PROVE  VInv' /\ HeapStep
    <2>1. 2 * Word \in Nat \ {0}
      BY AllocatorAssumption
    <2>2. malloc(2 * Word)
      BY <1>2 DEF Construct
    <2> QED
      BY <1>2, <2>1, <2>2, ConstructKeeps DEF HeapStep
  <1>3. ASSUME NEW v \in Vector, push_back(v, vec[v].size + 1)
        PROVE  VInv' /\ [HeapStep]_vars
    <2>1. PICK e \in Nat : e = vec[v].size + 1
      BY DEF VInv, Vectors
    <2>2. push_back(v, e)
      BY <1>3, <2>1
    <2>3. CASE vec[v].size + 1 = vec[v].capacity
      BY <2>2, <2>3, PushMovingKeeps
    <2>4. CASE vec[v].size + 1 # vec[v].capacity
      BY <1>1, <2>2, <2>4, PushInPlaceKeeps
    <2> QED
      BY <2>3, <2>4
  <1>4. ASSUME NEW n \in Sizes, malloc(n) \/ calloc(n, 1) \/ OutOfMemory(n)
        PROVE  HeapStep
    <2>1. n \in Nat /\ n * 1 = n
      BY AllocatorAssumption
    <2>2. CASE n = 0
      BY <1>4, <2>1, <2>2 DEF calloc, malloc, OutOfMemory, HeapStep
    <2>3. CASE n # 0
      BY <1>4, <2>1, <2>3 DEF calloc, HeapStep
    <2> QED
      BY <2>2, <2>3
  <1>5. CASE \E n \in Others : Allocate(n) \/ Copy(n) \/ Exhausted(n)
    <2>1. PICK n \in Sizes : Allocate(n) \/ Copy(n) \/ Exhausted(n)
      BY <1>5, VectorsAssumption
    <2>2. /\ malloc(n) \/ calloc(n, 1) \/ OutOfMemory(n)
          /\ UNCHANGED vectorVars
      BY <2>1 DEF Allocate, Copy, Exhausted
    <2> QED
      BY <1>4, <2>2, QuietKeeps
  <1>6. CASE \E b \in DOMAIN given : Release(b)
    <2>1. PICK b \in DOMAIN given : free(b) /\ UNCHANGED vectorVars
      BY <1>6 DEF Release
    <2>2. HeapStep
      BY <2>1 DEF HeapStep, free
    <2> QED
      BY <2>1, <2>2, QuietKeeps
  <1>7. CASE UNCHANGED vvars
    <2>1. UNCHANGED vars /\ UNCHANGED vectorVars
      BY <1>7 DEF vvars, heapVars, vars, vectorVars
    <2> QED
      BY <2>1, QuietKeeps
  <1>8. CASE Assign
    BY <1>1, <1>8, AssignKeeps
  <1>9. ASSUME NEW v \in Vector, Destroy(v)
        PROVE  VInv' /\ HeapStep
    BY <1>9, DestroyKeeps
  <1> QED
    BY <1>2, <1>3, <1>5, <1>6, <1>7, <1>8, <1>9 DEF VNext, AtRest
-----------------------------------------------------------------------------
(***************************************************************************)
(* What holds of every execution.                                          *)
(***************************************************************************)

LEMMA Inductive == VSpec => [](IInv /\ VInv)
  BY VInvInit, VInvStep, PTL DEF VSpec

LEMMA HeapSteps == VSpec => [][HeapStep]_vars
  BY VInvInit, VInvStep, PTL DEF VSpec

\* An array's block has as many words as Vectors says it has.
LEMMA VectorsTyped == IInv /\ VInv => VectorTypeOK
  <1> SUFFICES ASSUME IInv, VInv
               PROVE  VectorTypeOK
    OBVIOUS
  <1>1. TypeOK
    BY TypeCorrect
  <1>2. \A v \in Vector :
          /\ vec[v].life \in {"unborn", "live", "shared", "destroyed"}
          /\ vec[v].capacity \in Nat /\ vec[v].size \in Nat
          /\ vec[v].array \in DOMAIN given \cup {0}
    BY DEF VInv, Vectors
  <1>3. ASSUME NEW b \in DOMAIN cells
        PROVE  Len(cells[b]) = Words(b)
    <2>1. PICK w : w = Words(b)
      OBVIOUS
    <2>2. cells[b] \in [1..w -> Nat] /\ b \in DOMAIN given
      BY <2>1 DEF VInv
    <2>3. w \in Nat
      <3>1. heap.hdr[b].capacity \in Nat
        BY <2>2, IInvFacts DEF IInv, HeapType, Headers, Block
      <3>2. Word \in Nat \ {0}
        BY AllocatorAssumption
      <3> QED
        BY <2>1, <3>1, <3>2, DivFacts DEF Words
    <2>4. cells[b] \in Seq(Nat)
      BY <2>2, <2>3, SeqDef
    <2> QED
      BY <2>1, <2>2, <2>3, <2>4, LenProperties
  <1> QED
    BY <1>1, <1>2, <1>3 DEF VectorTypeOK

\* Whatever is pushed, assigned and destroyed, the vectors and the heap below
\* them keep their types: an array that has not been lost is a block handed
\* out, and nobody else's.
THEOREM VectorTypes == VSpec => []VectorTypeOK
  BY Inductive, VectorsTyped, PTL

\* No byte of the heap of src/malloc has two owners, each block lies in a
\* mapping and has the 10 spare bytes that strdup's NUL needs, for every
\* sequence of calls of malloc, calloc, realloc and free, and wherever mmap
\* places its pages.
THEOREM BlocksApart == VSpec => []BlocksDisjoint
  BY Inductive, DisjointBlocks, PTL

\* The free list is sorted, linked both ways and complete, and stays sorted,
\* linked and complete to the byte if free does what stands behind its
\* `return`, store_free_block and merge_block, for any block handed out.
THEOREM FreeListIsSound == VSpec => []FreeListSound
  <1>1. IInv => FreeListSound
    BY OrderedList, FreeBodyKeeps DEF FreeListSound
  <1> QED
    BY <1>1, Inductive, PTL

\* next_mem leads from the first block through every block to the last one,
\* through every split_block and create_new_block.
THEOREM BlocksChained == VSpec => []EveryBlockIsChained
  BY Inductive, ChainedBlocks, PTL
\* With the sizes of an x86-64 build, the block of an array of k pointers
\* has k + 2 words, or 8, and at most 14 more.
LEMMA BlockWords ==
  ASSUME Word = 8, Header = 48, MinBlock = 64,
         NEW k \in Nat \ {0}, NEW cap \in Nat, Fits(cap, Size(k * Word))
  PROVE  LET slots == IF k + 2 < MinSlots THEN MinSlots ELSE k + 2
         IN  cap \div Word \in slots..slots + UnsplitSlack
  <1>1. align((k * 8) + 10, 8) = (8 * k) + 16
    <2>1. (((k * 8) + 10) - 1) \div 8 = k + 1
      OBVIOUS
    <2> QED
      BY <2>1 DEF align
  <1>2. Size(k * Word) = IF (8 * k) + 16 < 64 THEN 64 ELSE (8 * k) + 16
    BY <1>1 DEF Size
  <1>3. \/ k + 2 < 8 /\ 64 <= cap /\ cap <= 176
        \/ k + 2 >= 8 /\ (8 * k) + 16 <= cap /\ cap <= (8 * k) + 128
    BY <1>2 DEF Fits
  <1>4. cap \div 8 \in Nat /\ 8 * (cap \div 8) <= cap /\ cap < (8 * (cap \div 8)) + 8
    OBVIOUS
  <1>5. PICK q \in Nat : q = cap \div Word
    BY <1>4
  <1>6. 8 * q <= cap /\ cap < (8 * q) + 8
    BY <1>4, <1>5
  <1>7. CASE k + 2 < 8
    <2>1. 64 <= cap /\ cap <= 176
      BY <1>3, <1>7
    <2>2. 8 <= q /\ q <= 22
      BY <1>6, <2>1
    <2> QED
      BY <1>5, <1>7, <2>2 DEF MinSlots, UnsplitSlack
  <1>8. CASE k + 2 >= 8
    <2>1. (8 * k) + 16 <= cap /\ cap <= (8 * k) + 128
      BY <1>3, <1>8
    <2>2. k + 2 <= q /\ q <= k + 16
      BY <1>6, <2>1
    <2> QED
      BY <1>5, <1>8, <2>2 DEF MinSlots, UnsplitSlack
  <1> QED
    BY <1>7, <1>8

LEMMA ElementsHeld ==
  ASSUME Word = 8, Header = 48, MinBlock = 64, IInv, VInv
  PROVE  ElementsKept
  <1> SUFFICES ASSUME NEW v \in Readable
               PROVE  LET n == vec[v].size
                          words == Words(vec[v].array)
                      IN  /\ n = Len(elts[v])
                          /\ \A i \in 1..words :
                               At(v, i) = IF i <= n THEN elts[v][i] ELSE 0
                          /\ \A e \in 1..MaxPush["loaded"] :
                               contains(v, e) <=> \E k \in 1..n : elts[v][k] = e
                          /\ vec[v].capacity = Capacity[n]
                          /\ words \in BlockSlots(n)..BlockSlots(n) + UnsplitSlack
    BY DEF ElementsKept
  <1>1. PICK a : a = vec[v].array
    OBVIOUS
  <1>2. PICK n : n = vec[v].size
    OBVIOUS
  <1>3. PICK k : k = vec[v].capacity
    OBVIOUS
  <1>4. /\ n \in Nat /\ n = Len(elts[v]) /\ k \in Nat \ {0} /\ k = Capacity[n]
        /\ n + 1 <= k /\ given[a] = k * Word
        /\ heap.hdr[a].capacity \in Nat
        /\ Fits(heap.hdr[a].capacity, Size(given[a]))
        /\ Words(a) \in Nat /\ k <= Words(a)
        /\ \A i \in 1..Words(a) : cells[a][i] = IF i <= n THEN elts[v][i] ELSE 0
    <2> DEFINE b == vec[v].array
               m == vec[v].size
               c == vec[v].capacity
    <2>1. /\ m \in Nat /\ m = Len(elts[v]) /\ c \in Nat \ {0} /\ c = Capacity[m]
          /\ m + 1 <= c /\ given[b] = c * Word
      BY ReadableFacts
    <2>2. /\ heap.hdr[b].capacity \in Nat
          /\ Fits(heap.hdr[b].capacity, Size(given[b]))
          /\ Words(b) \in Nat /\ c <= Words(b)
      BY ReadableFacts
    <2>3. \A i \in 1..Words(b) : cells[b][i] = IF i <= m THEN elts[v][i] ELSE 0
      BY ReadableFacts
    <2>4. a = b /\ n = m /\ k = c
      BY <1>1, <1>2, <1>3
    <2> HIDE DEF b, m, c
    <2> QED
      BY <2>1, <2>2, <2>3, <2>4
  <1>5. PICK w \in Nat : w = Words(a)
    BY <1>4
  <1>6. \A i \in 1..w : At(v, i) = IF i <= n THEN elts[v][i] ELSE 0
    BY <1>1, <1>4, <1>5 DEF At
  <1>7. ASSUME NEW e \in 1..MaxPush["loaded"]
        PROVE  contains(v, e) <=> \E i \in 1..n : elts[v][i] = e
    <2>1. \A i \in 1..n : i \in 1..w /\ i <= n
      BY <1>4, <1>5
    <2>2. \A i \in 1..n : At(v, i) = elts[v][i]
      BY <1>6, <2>1
    <2>3. contains(v, e) <=> \E i \in 1..n : At(v, i) = e
      BY <1>2 DEF contains
    <2> QED
      BY <2>3, <2>2
  <1>8. w \in BlockSlots(n)..BlockSlots(n) + UnsplitSlack
    <2>1. PICK cap \in Nat : cap = heap.hdr[a].capacity
      BY <1>4
    <2>2. Fits(cap, Size(k * Word))
      BY <1>4, <2>1
    <2>3. PICK slots : slots = IF k + 2 < MinSlots THEN MinSlots ELSE k + 2
      OBVIOUS
    <2>4. cap \div Word \in slots..slots + UnsplitSlack
      BY <1>4, <2>2, <2>3, BlockWords
    <2>5. BlockSlots(n) = slots
      BY <1>4, <2>3 DEF BlockSlots
    <2> QED
      BY <1>5, <2>1, <2>4, <2>5 DEF Words
  <1> QED
    BY <1>1, <1>2, <1>3, <1>4, <1>5, <1>6, <1>7, <1>8

\* A vector that is live or shares its array holds what was pushed, in order,
\* and zeroes behind it to the end of the block, however often push_back
\* moved the array, whoever allocated in between and in whatever order the
\* destructors ran; the block is as long as module Loader takes it to be,
\* with the sizes of libmalloc.hh on the machine the linker is built for.
THEOREM ElementsStay ==
  ASSUME Word = 8, Header = 48, MinBlock = 64
  PROVE  VSpec => []ElementsKept
  <1>1. IInv /\ VInv => ElementsKept
    BY ElementsHeld
  <1> QED
    BY <1>1, Inductive, PTL

\* The heap implements module Arena: what malloc answers was neither owned
\* nor written before, so that it is zero, and nobody's block is ever taken
\* back, shortened or given to another.
THEOREM HeapIsArena == VSpec => HandedOutForGood
  <1>1. VInit => owned = {} /\ used = {}
    BY DEF VInit, Init, owned
  <1>2. IInv /\ [HeapStep]_vars => [Give]_<<owned, used>>
    BY StepGives
  <1>3. Give <=> Promise!Give
    BY DEF Give, owned, Promise!Give, Promise!Apart, Promise!Within
  <1>4. owned = {<<b + Header, Extent(b)[2]>> : b \in DOMAIN given}
    BY DEF owned
  <1>5. [Give]_<<owned, used>> =>
          [Promise!Give]_<<{<<b + Header, Extent(b)[2]>> : b \in DOMAIN given}, used>>
    BY <1>3 DEF owned
  <1>6. VInit => {<<b + Header, Extent(b)[2]>> : b \in DOMAIN given} = {} /\ used = {}
    BY <1>1 DEF owned
  <1> QED
    BY <1>2, <1>5, <1>6, Inductive, HeapSteps, PTL
       DEF VSpec, HandedOutForGood, Promise!ArenaSpec
=============================================================================

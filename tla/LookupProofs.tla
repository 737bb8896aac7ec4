---------------------------- MODULE LookupProofs ----------------------------
(***************************************************************************)
(* What ElfHash of module SymbolLookup answers, for every name, symbol     *)
(* table and hash table.                                                   *)
(***************************************************************************)
EXTENDS SymbolLookup, StackLemmas, TLAPS

\* The least and the greatest of a set of numbers.
LEMMA FirstOfSet ==
  ASSUME NEW S \in SUBSET Nat, S # {}
  PROVE  FirstOf(S) \in S /\ \A j \in S : FirstOf(S) <= j
  <1>1. \E i \in S : \A j \in S : i <= j
    BY LeastNumber
  <1> QED
    BY <1>1 DEF FirstOf

LEMMA LastOfSet ==
  ASSUME NEW S \in SUBSET Nat, S # {}, NEW n \in Nat, \A j \in S : j <= n
  PROVE  LastOf(S) \in S /\ \A j \in S : j <= LastOf(S)
  <1> DEFINE B == {b \in Nat : \A j \in S : j <= b}
  <1>1. PICK m \in B : \A b \in B : m <= b
    <2>1. B \in SUBSET Nat /\ B # {}
      OBVIOUS
    <2> HIDE DEF B
    <2> QED
      BY <2>1, LeastNumber
  <1>2. m \in S
    <2> SUFFICES ASSUME m \notin S
                 PROVE  FALSE
      OBVIOUS
    <2>1. \A j \in S : j <= m - 1 /\ m - 1 \in Nat
      BY <1>1
    <2>2. m - 1 \in B
      BY <2>1
    <2> QED
      BY <1>1, <2>2
  <1>3. \E i \in S : \A j \in S : j <= i
    BY <1>1, <1>2
  <1> QED
    BY <1>3 DEF LastOf

LEMMA LastOfInterval ==
  ASSUME NEW last \in Nat
  PROVE  LastOf(0..last) = last
  <1> DEFINE S == 0..last
  <1>2. last \in S
    OBVIOUS
  <1>1. S \in SUBSET Nat /\ S # {} /\ \A j \in S : j <= last
    <2>1. \A j \in S : j \in Nat /\ j <= last
      OBVIOUS
    <2> HIDE DEF S
    <2> QED
      BY <1>2, <2>1
  <1> HIDE DEF S
  <1>3. LastOf(S) \in S /\ \A j \in S : j <= LastOf(S)
    BY <1>1, LastOfSet
  <1>4. LastOf(S) <= last /\ last <= LastOf(S) /\ LastOf(S) \in Nat
    BY <1>1, <1>2, <1>3
  <1> QED
    BY <1>4 DEF S

-----------------------------------------------------------------------------
\* The NUL is behind the characters.
LEMMA CharAtFacts ==
  ASSUME NEW s \in Seq(Character), NEW i \in Nat \ {0}
  PROVE  /\ CharAt(s, i) \in Int
         /\ CharAt(s, i) = 0 <=> i > Len(s)
         /\ i <= Len(s) => CharAt(s, i) = s[i]
  <1>1. Len(s) \in Nat /\ \A j \in 1..Len(s) : s[j] \in Character
    OBVIOUS
  <1>2. CASE i <= Len(s)
    <2>1. s[i] \in 1..255
      BY <1>1, <1>2 DEF Character
    <2>2. CharAt(s, i) = s[i]
      BY <1>2 DEF CharAt
    <2>3. CharAt(s, i) \in Int /\ CharAt(s, i) # 0
      <3>1. \A c \in 1..255 : c \in Int /\ c # 0
        OBVIOUS
      <3> QED
        BY <2>1, <2>2, <3>1
    <2>4. ~(i > Len(s))
      BY <1>1, <1>2
    <2> QED
      BY <2>2, <2>3, <2>4
  <1>3. CASE i > Len(s)
    <2>1. CharAt(s, i) = 0
      BY <1>1, <1>3 DEF CharAt
    <2> QED
      BY <1>1, <1>3, <2>1
  <1> QED
    BY <1>1, <1>2, <1>3

\* strcmp is 0 for equal strings and for no others.
LEMMA StrcmpZero ==
  ASSUME NEW a \in Seq(Character), NEW b \in Seq(Character)
  PROVE  strcmp(a, b) = 0 <=> a = b
  <1> DEFINE S == Stops(a, b)
             k == FirstOf(S)
  <1>1. /\ Len(a) \in Nat /\ Len(b) \in Nat
        /\ \A i \in 1..Len(a) : a[i] \in 1..255
        /\ \A i \in 1..Len(b) : b[i] \in 1..255
    <2>1. /\ Len(a) \in Nat /\ Len(b) \in Nat
          /\ \A i \in 1..Len(a) : a[i] \in Character
          /\ \A i \in 1..Len(b) : b[i] \in Character
      OBVIOUS
    <2> QED
      BY <2>1 DEF Character
  <1>2. S \in SUBSET Nat /\ Len(a) + 1 \in S
    BY <1>1 DEF Stops, CharAt
  <1>3. k \in S /\ \A j \in S : k <= j
    <2> HIDE DEF S
    <2> QED
      BY <1>2, FirstOfSet
  <1>4. k \in 1..Len(a) + 1 /\ (CharAt(a, k) = 0 \/ CharAt(a, k) # CharAt(b, k))
    BY <1>3 DEF Stops
  <1>5. \A i \in Nat \ {0} :
          /\ CharAt(a, i) \in Int /\ CharAt(b, i) \in Int
          /\ CharAt(a, i) = 0 <=> i > Len(a)
          /\ CharAt(b, i) = 0 <=> i > Len(b)
          /\ i <= Len(a) => CharAt(a, i) = a[i]
          /\ i <= Len(b) => CharAt(b, i) = b[i]
    BY CharAtFacts
  <1>6. \A i \in 1..k - 1 : CharAt(a, i) = CharAt(b, i)
    <2> SUFFICES ASSUME NEW i \in 1..k - 1
                 PROVE  CharAt(a, i) = CharAt(b, i)
      OBVIOUS
    <2>1. i \in 1..Len(a) + 1 /\ i \notin S
      BY <1>1, <1>3, <1>4
    <2> QED
      BY <2>1 DEF Stops
  <1> HIDE DEF k, S
  <1>7. ASSUME strcmp(a, b) = 0
        PROVE  a = b
    <2>0. k \in Nat \ {0} /\ k <= Len(a) + 1
      BY <1>1, <1>4
    <2>1. CharAt(a, k) = CharAt(b, k)
      <3>1. CharAt(a, k) - CharAt(b, k) = 0
        BY <1>7 DEF strcmp, k, S
      <3>2. CharAt(a, k) \in Int /\ CharAt(b, k) \in Int
        BY <1>5, <2>0
      <3> QED
        BY <3>1, <3>2
    <2>2. k > Len(a) /\ k > Len(b)
      BY <1>4, <1>5, <2>0, <2>1
    <2>3. k = Len(a) + 1
      BY <1>1, <2>0, <2>2
    <2>4. Len(a) = Len(b)
      <3> SUFFICES ASSUME Len(b) < Len(a)
                   PROVE  FALSE
        BY <1>1, <2>2, <2>3
      <3>1. Len(b) + 1 \in 1..k - 1 /\ Len(b) + 1 \in Nat \ {0}
        BY <1>1, <2>3
      <3>2. CharAt(b, Len(b) + 1) = 0 /\ CharAt(a, Len(b) + 1) # 0
        BY <1>1, <1>5, <3>1
      <3> QED
        BY <1>6, <3>1, <3>2
    <2>6. \A i \in 1..Len(a) : a[i] = b[i]
      <3> SUFFICES ASSUME NEW i \in 1..Len(a)
                   PROVE  a[i] = b[i]
        OBVIOUS
      <3>1. i \in Nat \ {0} /\ i <= Len(a) /\ i <= Len(b) /\ i \in 1..k - 1
        BY <1>1, <2>3, <2>4
      <3> QED
        BY <1>5, <1>6, <3>1
    <2> QED
      BY <2>4, <2>6, SeqEqual
  <1>8. ASSUME a = b
        PROVE  strcmp(a, b) = 0
    <2>1. k \in Nat \ {0}
      BY <1>1, <1>4
    <2>2. CharAt(a, k) = CharAt(b, k) /\ CharAt(a, k) \in Int
      BY <1>5, <1>8, <2>1
    <2> QED
      BY <2>2 DEF strcmp, k, S
  <1> QED
    BY <1>7, <1>8

-----------------------------------------------------------------------------
\* What one turn of the loop over a chain returns, if the turns after it
\* return r.
Turn(h, name, symtab, i, r) ==
  LET w == Word(h.words, h.hash_ + i - h.header_.symndx)
  IN  IF w = Wild \/ i \notin DOMAIN symtab THEN Wild
      ELSE IF w > 1 /\ strcmp(name, symtab[i].st_name) = 0 THEN i
      ELSE IF w % 2 = 1 THEN 0
      ELSE r

\* Walking a chain is what it looks like: each turn returns or leaves it to
\* the next, up to the end of the symbols.
LEMMA WalkTurns ==
  ASSUME NEW h, NEW name, NEW symtab, NEW last \in Nat,
         DOMAIN symtab = 0..last, NEW n \in 0..last
  PROVE  \E W : /\ Walk(h, name, symtab, n) = W[n]
                /\ \A i \in n..last + 1 : W[i] = Turn(h, name, symtab, i, W[i + 1])
  <1> DEFINE T(i, r) == Turn(h, name, symtab, i, r)
             Top == last + 1
             Good(d, W) == W = [i \in d..Top |-> T(i, W[i + 1])]
             Bad == {k \in Nat : k <= Top - n /\ ~\E W : Good(Top - k, W)}
  <1>1. \E W : Good(Top, W)
    <2> DEFINE W == [i \in Top..Top |-> Wild]
    <2>1. T(Top, W[Top + 1]) = Wild
      BY DEF Turn
    <2>2. W = [i \in Top..Top |-> T(i, W[i + 1])]
      BY <2>1
    <2> QED
      BY <2>2
  <1>2. ASSUME NEW d \in n..last, NEW V, Good(d + 1, V)
        PROVE  \E W : Good(d, W)
    <2> DEFINE W == [i \in d..Top |-> IF i = d THEN T(d, V[d + 1]) ELSE V[i]]
    <2>1. \A i \in d + 1..Top : V[i] = T(i, V[i + 1])
      BY <1>2
    <2>2. \A i \in d + 1..Top - 1 : T(i, W[i + 1]) = T(i, V[i + 1])
      OBVIOUS
    <2>3. \A r : T(Top, r) = Wild
      BY DEF Turn
    <2>4. \A i \in d..Top : W[i] = T(i, W[i + 1])
      <3> SUFFICES ASSUME NEW i \in d..Top
                   PROVE  W[i] = T(i, W[i + 1])
        OBVIOUS
      <3> HIDE DEF T
      <3>1. CASE i = d
        <4>1. d + 1 \in d..Top /\ d + 1 # d
          OBVIOUS
        <4> QED
          BY <3>1, <4>1
      <3>2. CASE i \in d + 1..Top - 1
        BY <2>1, <2>2, <3>2
      <3>3. CASE i = Top
        BY <2>1, <2>3, <3>3
      <3> QED
        BY <3>1, <3>2, <3>3
    <2>5. W = [i \in d..Top |-> T(i, W[i + 1])]
      <3> HIDE DEF T
      <3> QED
        BY <2>4
    <2> QED
      BY <2>5
  <1>3. Bad = {}
    <2> SUFFICES ASSUME Bad # {}
                 PROVE  FALSE
      OBVIOUS
    <2>1. PICK k \in Bad : \A j \in Bad : k <= j
      <3>1. Bad \in SUBSET Nat
        OBVIOUS
      <3> HIDE DEF Bad
      <3> QED
        BY <3>1, LeastNumber
    <2> HIDE DEF Good
    <2>2. k # 0
      <3>1. Top - 0 = Top
        OBVIOUS
      <3> QED
        BY <1>1, <3>1, <2>1
    <2>3. k - 1 \in Nat /\ k - 1 <= Top - n /\ k - 1 \notin Bad
      <3>1. k \in Nat /\ k <= Top - n
        OBVIOUS
      <3> HIDE DEF Bad
      <3> QED
        BY <2>1, <2>2, <3>1
    <2>4. PICK V : Good(Top - (k - 1), V)
      BY <2>3
    <2>5. Top - (k - 1) = (Top - k) + 1 /\ Top - k \in n..last
      BY <2>1, <2>2
    <2>6. \E W : Good(Top - k, W)
      BY <1>2, <2>4, <2>5
    <2> QED
      BY <2>1, <2>6
  <1>4. \E W : Good(n, W)
    <2>1. Top - n \in Nat /\ Top - n \notin Bad /\ Top - n <= Top - n
      <3> HIDE DEF Bad
      <3> QED
        BY <1>3
    <2>2. \E W : Good(Top - (Top - n), W)
      <3> HIDE DEF Good
      <3> QED
        BY <2>1
    <2>3. Top - (Top - n) = n
      OBVIOUS
    <2> HIDE DEF Good, Bad
    <2> QED
      BY <2>2, <2>3
  <1>5. LastOf(DOMAIN symtab) = last
    BY LastOfInterval
  <1> DEFINE W0 == CHOOSE W : Good(n, W)
  <1>6. Good(n, W0)
    <2> HIDE DEF Good
    <2> QED
      BY <1>4
  <1>7. Walk(h, name, symtab, n) = W0[n]
    BY <1>5 DEF Walk, Turn
  <1>8. \A i \in n..last + 1 : W0[i] = Turn(h, name, symtab, i, W0[i + 1])
    <2> HIDE DEF W0
    <2> QED
      BY <1>6
  <1> QED
    BY <1>7, <1>8
-----------------------------------------------------------------------------
\* What a lookup can return: no symbol, memory behind the tables, or a symbol
\* of that name.
Matches(name, symtab, i) ==
  i \in DOMAIN symtab \ {0} /\ strcmp(name, symtab[i].st_name) = 0

LEMMA WalkReturns ==
  ASSUME NEW h, NEW name, NEW symtab, NEW last \in Nat,
         DOMAIN symtab = 0..last, NEW n \in 1..last
  PROVE  LET i == Walk(h, name, symtab, n)
         IN  i \in {0, Wild} \/ Matches(name, symtab, i)
  <1>1. PICK W : /\ Walk(h, name, symtab, n) = W[n]
                 /\ \A i \in n..last + 1 :
                      W[i] = Turn(h, name, symtab, i, W[i + 1])
    BY WalkTurns
  <1> DEFINE Fine(r) == r \in {0, Wild} \/ Matches(name, symtab, r)
             Bad == {k \in Nat : k <= last + 1 - n /\ ~Fine(W[last + 1 - k])}
  <1>2. Fine(W[last + 1])
    <2>1. last + 1 \in n..last + 1 /\ last + 1 \notin DOMAIN symtab
      OBVIOUS
    <2>2. W[last + 1] = Wild
      BY <1>1, <2>1 DEF Turn
    <2> QED
      BY <2>2
  <1>3. ASSUME NEW i \in n..last, Fine(W[i + 1])
        PROVE  Fine(W[i])
    <2>1. i \in n..last + 1 /\ i \in DOMAIN symtab \ {0}
      OBVIOUS
    <2>2. W[i] = Turn(h, name, symtab, i, W[i + 1])
      BY <1>1, <2>1
    <2>3. \/ W[i] \in {0, Wild} \/ W[i] = W[i + 1]
          \/ W[i] = i /\ strcmp(name, symtab[i].st_name) = 0
      BY <2>2 DEF Turn
    <2> QED
      BY <1>3, <2>1, <2>3 DEF Matches
  <1>4. Bad = {}
    <2> SUFFICES ASSUME Bad # {}
                 PROVE  FALSE
      OBVIOUS
    <2>1. PICK k \in Bad : \A j \in Bad : k <= j
      <3>1. Bad \in SUBSET Nat
        OBVIOUS
      <3> HIDE DEF Bad
      <3> QED
        BY <3>1, LeastNumber
    <2>2. k \in Nat /\ k <= last + 1 - n /\ ~Fine(W[last + 1 - k])
      OBVIOUS
    <2> HIDE DEF Fine
    <2>3. k # 0
      <3>1. last + 1 - 0 = last + 1
        OBVIOUS
      <3> QED
        BY <1>2, <2>2, <3>1
    <2>4. k - 1 \in Nat /\ k - 1 <= last + 1 - n /\ k - 1 \notin Bad
      <3> HIDE DEF Bad
      <3> QED
        BY <2>1, <2>2, <2>3
    <2>5. Fine(W[last + 1 - (k - 1)])
      BY <2>4
    <2>6. /\ last + 1 - (k - 1) = (last + 1 - k) + 1
          /\ last + 1 - k \in n..last
      BY <2>2, <2>3
    <2> QED
      BY <1>3, <2>2, <2>5, <2>6
  <1>5. Fine(W[n])
    <2>1. last + 1 - n \in Nat /\ last + 1 - (last + 1 - n) = n
      OBVIOUS
    <2>2. last + 1 - n \notin Bad /\ last + 1 - n <= last + 1 - n
      <3> HIDE DEF Bad
      <3> QED
        BY <1>4, <2>1
    <2>3. Fine(W[last + 1 - (last + 1 - n)])
      <3> HIDE DEF Fine
      <3> QED
        BY <2>1, <2>2
    <2> HIDE DEF Fine
    <2> QED
      BY <2>1, <2>3
  <1> QED
    BY <1>1, <1>5

LEMMA LookupReturns ==
  ASSUME NEW h, NEW name, NEW symtab, NEW last \in Nat,
         DOMAIN symtab = 0..last
  PROVE  LET i == lookup_symbol(h, name, symtab)
         IN  i \in {0, Wild} \/ Matches(name, symtab, i)
  <1>1. CASE ~h.gnu_hash_
    <2> DEFINE named == {i \in DOMAIN symtab \ {0} :
                           strcmp(name, symtab[i].st_name) = 0}
    <2>1. named # {} => FirstOf(named) \in named
      <3>1. named \in SUBSET Nat
        OBVIOUS
      <3> HIDE DEF named
      <3> QED
        BY <3>1, FirstOfSet
    <2> QED
      BY <1>1, <2>1 DEF lookup_symbol, lookup_symbol_SV, Matches
  <1>2. CASE h.gnu_hash_
    <2> DEFINE n == Word(h.words,
                         h.buck_ + (hash_symbol(name) % h.header_.buckets))
    <2>1. lookup_symbol(h, name, symtab) =
            IF n \in {0, Wild} THEN n
            ELSE IF n < h.header_.symndx \/ n \notin DOMAIN symtab THEN Wild
            ELSE Walk(h, name, symtab, n)
      BY <1>2 DEF lookup_symbol
    <2>2. n \in DOMAIN symtab /\ n # 0 => n \in 1..last
      OBVIOUS
    <2> HIDE DEF n
    <2> QED
      BY <2>1, <2>2, WalkReturns
  <1> QED
    BY <1>1, <1>2
\* A chain whose words let the loop go on up to symbol stop.
LEMMA WalkGoesTo ==
  ASSUME NEW h, NEW name, NEW symtab, NEW last \in Nat,
         DOMAIN symtab = 0..last, NEW n \in 0..last, NEW stop \in n..last,
         \A i \in n..stop - 1 : \A r : Turn(h, name, symtab, i, r) = r
  PROVE  \E r : Walk(h, name, symtab, n) = Turn(h, name, symtab, stop, r)
  <1>1. PICK W : /\ Walk(h, name, symtab, n) = W[n]
                 /\ \A i \in n..last + 1 :
                      W[i] = Turn(h, name, symtab, i, W[i + 1])
    BY WalkTurns
  <1> DEFINE Bad == {k \in Nat : n + k <= stop /\ W[n + k] # W[n]}
  <1>2. Bad = {}
    <2> SUFFICES ASSUME Bad # {}
                 PROVE  FALSE
      OBVIOUS
    <2>1. PICK k \in Bad : \A j \in Bad : k <= j
      <3>1. Bad \in SUBSET Nat
        OBVIOUS
      <3> HIDE DEF Bad
      <3> QED
        BY <3>1, LeastNumber
    <2>2. k \in Nat /\ n + k <= stop /\ W[n + k] # W[n]
      OBVIOUS
    <2>3. k # 0
      <3>1. n + 0 = n
        OBVIOUS
      <3> QED
        BY <2>2, <3>1
    <2>4. k - 1 \in Nat /\ n + (k - 1) <= stop /\ k - 1 \notin Bad
      <3> HIDE DEF Bad
      <3> QED
        BY <2>1, <2>2, <2>3
    <2>5. W[n + (k - 1)] = W[n]
      BY <2>4
    <2>6. /\ n + (k - 1) \in n..stop - 1 /\ n + (k - 1) \in n..last + 1
          /\ (n + (k - 1)) + 1 = n + k
      BY <2>2, <2>3
    <2>7. W[n + (k - 1)] = W[(n + (k - 1)) + 1]
      BY <1>1, <2>6
    <2> QED
      BY <2>2, <2>5, <2>6, <2>7
  <1>3. W[stop] = W[n]
    <2>1. stop - n \in Nat /\ n + (stop - n) = stop /\ stop <= stop
      OBVIOUS
    <2>2. stop - n \notin Bad
      BY <1>2
    <2>3. W[n + (stop - n)] = W[n]
      BY <2>1, <2>2
    <2> QED
      BY <2>1, <2>3
  <1>4. W[stop] = Turn(h, name, symtab, stop, W[stop + 1])
    <2>1. stop \in n..last + 1
      OBVIOUS
    <2> QED
      BY <1>1, <2>1
  <1> QED
    BY <1>1, <1>3, <1>4

-----------------------------------------------------------------------------
\* The hash of a name is a 32-bit word.
LEMMA HashIsWord ==
  ASSUME NEW name \in Seq(Character)
  PROVE  hash_symbol(name) \in Nat
  <1> DEFINE len == Len(name)
             E(k, r) == IF k = 0 THEN 5381 % HashMod
                        ELSE (r * 33 + name[k]) % HashMod
             Good(d, H) == H = [k \in 0..d |-> E(k, H[k - 1])]
             Bad == {d \in Nat : d <= len /\ ~\E H : Good(d, H)}
  <1>0. len \in Nat /\ \A k \in 1..len : name[k] \in Nat
    <2>1. len \in Nat /\ \A k \in 1..len : name[k] \in Character
      OBVIOUS
    <2>2. \A c \in Character : c \in Nat
      BY DEF Character
    <2> QED
      BY <2>1, <2>2
  <1>1. \E H : Good(0, H)
    <2> DEFINE H == [k \in 0..0 |-> E(0, 0)]
    <2>1. H = [k \in 0..0 |-> E(k, H[k - 1])]
      OBVIOUS
    <2> QED
      BY <2>1
  <1>2. ASSUME NEW d \in Nat, NEW V, Good(d, V)
        PROVE  \E H : Good(d + 1, H)
    <2> DEFINE H == [k \in 0..d + 1 |-> IF k = d + 1 THEN E(d + 1, V[d]) ELSE V[k]]
    <2>1. \A k \in 0..d : V[k] = E(k, V[k - 1])
      <3> HIDE DEF E
      <3> QED
        BY <1>2
    <2>2. E(0, H[0 - 1]) = E(0, V[0 - 1])
      OBVIOUS
    <2>3. \A k \in 0..d + 1 : H[k] = E(k, H[k - 1])
      <3> SUFFICES ASSUME NEW k \in 0..d + 1
                   PROVE  H[k] = E(k, H[k - 1])
        OBVIOUS
      <3> HIDE DEF E
      <3>1. CASE k = d + 1
        <4>1. d \in 0..d + 1 /\ d # d + 1 /\ k - 1 = d /\ k \in 0..d + 1
          BY <3>1
        <4> QED
          BY <3>1, <4>1
      <3>2. CASE k \in 1..d
        <4>1. /\ k - 1 \in 0..d + 1 /\ k - 1 # d + 1 /\ k # d + 1 /\ k \in 0..d
          BY <3>2
        <4> QED
          BY <2>1, <4>1
      <3>3. CASE k = 0
        <4>1. 0 \in 0..d + 1 /\ 0 # d + 1 /\ 0 \in 0..d
          OBVIOUS
        <4>2. H[0] = V[0]
          BY <4>1
        <4> QED
          BY <2>1, <2>2, <3>3, <4>1, <4>2
      <3> QED
        BY <3>1, <3>2, <3>3
    <2>4. H = [k \in 0..d + 1 |-> E(k, H[k - 1])]
      <3> HIDE DEF E
      <3> QED
        BY <2>3
    <2> QED
      BY <2>4
  <1>3. Bad = {}
    <2> SUFFICES ASSUME Bad # {}
                 PROVE  FALSE
      OBVIOUS
    <2>1. PICK k \in Bad : \A j \in Bad : k <= j
      <3>1. Bad \in SUBSET Nat
        OBVIOUS
      <3> HIDE DEF Bad
      <3> QED
        BY <3>1, LeastNumber
    <2> HIDE DEF Good
    <2>2. k # 0 /\ k \in Nat /\ k <= len
      BY <1>1, <2>1
    <2>3. k - 1 \in Nat /\ k - 1 <= len /\ k - 1 \notin Bad
      <3> HIDE DEF Bad, len
      <3> QED
        BY <1>0, <2>1, <2>2
    <2>4. \E H : Good(k - 1, H)
      BY <2>3
    <2>5. (k - 1) + 1 = k
      BY <2>2
    <2> QED
      BY <1>2, <2>1, <2>3, <2>4, <2>5
  <1> DEFINE H0 == CHOOSE H : Good(len, H)
  <1>4. Good(len, H0)
    <2>1. \E H : Good(len, H)
      <3> HIDE DEF Good, len
      <3> QED
        BY <1>0, <1>3
    <2> HIDE DEF Good
    <2> QED
      BY <2>1
  <1>5. hash_symbol(name) = H0[len]
    BY DEF hash_symbol
  <1>6. \A k \in 0..len : H0[k] = E(k, H0[k - 1])
    <2> HIDE DEF H0, E, len
    <2> QED
      BY <1>4
  <1> HIDE DEF H0, Good
  <1> DEFINE Out == {k \in Nat : k <= len /\ H0[k] \notin Nat}
  <1>7. Out = {}
    <2> SUFFICES ASSUME Out # {}
                 PROVE  FALSE
      OBVIOUS
    <2>1. PICK k \in Out : \A j \in Out : k <= j
      <3>1. Out \in SUBSET Nat
        OBVIOUS
      <3> HIDE DEF Out
      <3> QED
        BY <3>1, LeastNumber
    <2>2. k \in Nat /\ k <= len /\ H0[k] \notin Nat
      OBVIOUS
    <2> HIDE DEF len
    <2>3. H0[k] = E(k, H0[k - 1])
      BY <1>0, <1>6, <2>2
    <2>4. \A x \in Nat : x % HashMod \in Nat
      BY HashAssumption
    <2>5. CASE k = 0
      BY <2>2, <2>3, <2>4, <2>5
    <2>6. CASE k # 0
      <3>1. k - 1 \in Nat /\ k - 1 <= len /\ k - 1 \notin Out
        <4> HIDE DEF Out
        <4> QED
          BY <1>0, <2>1, <2>2, <2>6
      <3>2. H0[k - 1] \in Nat /\ name[k] \in Nat
        BY <1>0, <2>2, <2>6, <3>1
      <3>3. H0[k - 1] * 33 + name[k] \in Nat
        BY <3>2
      <3> QED
        BY <2>2, <2>3, <2>4, <2>6, <3>3
    <2> QED
      BY <2>5, <2>6
  <1> QED
    BY <1>0, <1>5, <1>7
-----------------------------------------------------------------------------
(***************************************************************************)
(* A GNU hash table, as a static linker writes it: where its words are.    *)
(***************************************************************************)
InBucket(symtab, first, buckets, b) ==
  {i \in first..LastOf(DOMAIN symtab) : hash_symbol(symtab[i].st_name) % buckets = b}
Chained(symtab, first, buckets, i) ==
  2 * (hash_symbol(symtab[i].st_name) \div 2) +
  (IF i = LastOf(InBucket(symtab, first, buckets,
                          hash_symbol(symtab[i].st_name) % buckets))
     THEN 1 ELSE 0)

GnuHash(symtab, first, buckets) ==
  ElfHash(GnuTable(symtab, first, buckets), TRUE)

LEMMA TwoParts ==
  ASSUME NEW S, NEW a \in Seq(S), NEW b \in Seq(S)
  PROVE  /\ a \o b \in Seq(S) /\ Len(a \o b) = Len(a) + Len(b)
         /\ \A k \in 1..Len(a) : (a \o b)[k] = a[k]
         /\ \A k \in 1..Len(b) : (a \o b)[Len(a) + k] = b[k]
  OBVIOUS

LEMMA GnuWords ==
  ASSUME NEW symtab, NEW last \in Nat, DOMAIN symtab = 0..last,
         NEW first \in 1..last + 1, NEW buckets \in Nat \ {0},
         \A i \in 1..last : symtab[i].st_name \in Seq(Character)
  PROVE  LET h == GnuHash(symtab, first, buckets)
             In(b) == InBucket(symtab, first, buckets, b)
         IN  /\ h.gnu_hash_ /\ h.header_.buckets = buckets
             /\ h.header_.symndx = first
             /\ \A b \in 0..buckets - 1 :
                  Word(h.words, h.buck_ + b) =
                    IF In(b) = {} THEN 0 ELSE FirstOf(In(b))
             /\ \A i \in first..last :
                  Word(h.words, h.hash_ + i - first) =
                    Chained(symtab, first, buckets, i)
  <1> DEFINE In(b) == InBucket(symtab, first, buckets, b)
             Ch(i) == Chained(symtab, first, buckets, i)
             Head6 == <<buckets, first, 1, 0, 0, 0>>
             Bucks == [b \in 1..buckets |->
                         IF In(b - 1) = {} THEN 0 ELSE FirstOf(In(b - 1))]
             Chain == [k \in 1..last + 1 - first |-> Ch(first + k - 1)]
             w == (Head6 \o Bucks) \o Chain
  <1>1. LastOf(DOMAIN symtab) = last
    BY LastOfInterval
  <1>2. \A b : In(b) \in SUBSET Nat /\ \A i \in In(b) : i \in first..last
    BY <1>1 DEF InBucket
  <1>3. GnuTable(symtab, first, buckets) = w
    BY <1>1 DEF GnuTable, InBucket, Chained
  <1>4. Head6 \in Seq(Nat) /\ Len(Head6) = 6
    OBVIOUS
  <1>5. Bucks \in Seq(Nat) /\ Len(Bucks) = buckets
    <2>1. \A b : In(b) # {} => FirstOf(In(b)) \in Nat
      <3> HIDE DEF In
      <3> QED
        BY <1>2, FirstOfSet
    <2> HIDE DEF In
    <2> QED
      BY <2>1
  <1>6. Chain \in Seq(Nat) /\ Len(Chain) = last + 1 - first
    <2>1. \A i \in first..last : Ch(i) \in Nat
      <3> SUFFICES ASSUME NEW i \in first..last
                   PROVE  Ch(i) \in Nat
        OBVIOUS
      <3>1. hash_symbol(symtab[i].st_name) \in Nat
        BY HashIsWord
      <3>2. \A x \in Nat : 2 * (x \div 2) + 1 \in Nat /\ 2 * (x \div 2) + 0 \in Nat
        OBVIOUS
      <3> QED
        BY <3>1, <3>2 DEF Chained
    <2>2. last + 1 - first \in Nat /\ \A k \in 1..last + 1 - first : first + k - 1 \in first..last
      OBVIOUS
    <2> HIDE DEF Ch
    <2> QED
      BY <2>1, <2>2
  <1> HIDE DEF Head6, Bucks, Chain, Ch, In, w
  <1>7. /\ Head6 \o Bucks \in Seq(Nat) /\ Len(Head6 \o Bucks) = 6 + buckets
        /\ \A k \in 1..6 : (Head6 \o Bucks)[k] = Head6[k]
        /\ \A k \in 1..buckets : (Head6 \o Bucks)[6 + k] = Bucks[k]
    <2>1. /\ Head6 \o Bucks \in Seq(Nat)
          /\ Len(Head6 \o Bucks) = Len(Head6) + Len(Bucks)
          /\ \A k \in 1..Len(Head6) : (Head6 \o Bucks)[k] = Head6[k]
          /\ \A k \in 1..Len(Bucks) : (Head6 \o Bucks)[Len(Head6) + k] = Bucks[k]
      <3>1. \A p, q \in Seq(Nat) :
              /\ p \o q \in Seq(Nat) /\ Len(p \o q) = Len(p) + Len(q)
              /\ \A k \in 1..Len(p) : (p \o q)[k] = p[k]
              /\ \A k \in 1..Len(q) : (p \o q)[Len(p) + k] = q[k]
        BY TwoParts
      <3> QED
        BY <1>4, <1>5, <3>1
    <2> QED
      BY <1>4, <1>5, <2>1
  <1>8. /\ w \in Seq(Nat) /\ Len(w) = (6 + buckets) + (last + 1 - first)
        /\ \A k \in 1..6 + buckets : w[k] = (Head6 \o Bucks)[k]
        /\ \A k \in 1..last + 1 - first : w[(6 + buckets) + k] = Chain[k]
    <2> DEFINE hb == Head6 \o Bucks
    <2>1. hb \in Seq(Nat) /\ Len(hb) = 6 + buckets
      BY <1>7
    <2> HIDE DEF hb
    <2>2. /\ hb \o Chain \in Seq(Nat) /\ Len(hb \o Chain) = Len(hb) + Len(Chain)
          /\ \A k \in 1..Len(hb) : (hb \o Chain)[k] = hb[k]
          /\ \A k \in 1..Len(Chain) : (hb \o Chain)[Len(hb) + k] = Chain[k]
      BY <1>6, <2>1, TwoParts
    <2> QED
      BY <1>6, <2>1, <2>2 DEF hb, w
  <1>9. /\ \A k \in 1..6 : w[k] = Head6[k]
        /\ \A b \in 1..buckets : w[6 + b] = Bucks[b]
        /\ \A k \in 1..last + 1 - first : w[6 + buckets + k] = Chain[k]
    <2>1. \A k \in 1..6 : k \in 1..6 + buckets
      OBVIOUS
    <2>2. \A b \in 1..buckets : 6 + b \in 1..6 + buckets
      OBVIOUS
    <2> QED
      BY <1>7, <1>8, <2>1, <2>2
  <1>10. \A i \in Nat : i < (6 + buckets) + (last + 1 - first) => Word(w, i) = w[i + 1]
    BY <1>8 DEF Word
  <1>11. /\ Word(w, 0) = buckets /\ Word(w, 1) = first /\ Word(w, 2) = 1
    <2>1. /\ 0 < (6 + buckets) + (last + 1 - first)
          /\ 1 < (6 + buckets) + (last + 1 - first)
          /\ 2 < (6 + buckets) + (last + 1 - first)
      OBVIOUS
    <2>2. Word(w, 0) = w[1] /\ Word(w, 1) = w[2] /\ Word(w, 2) = w[3]
      <3>1. 0 + 1 = 1 /\ 1 + 1 = 2 /\ 2 + 1 = 3 /\ {0, 1, 2} \subseteq Nat
        OBVIOUS
      <3> QED
        BY <1>10, <2>1, <3>1
    <2>3. w[1] = Head6[1] /\ w[2] = Head6[2] /\ w[3] = Head6[3]
      <3>1. 1 \in 1..6 /\ 2 \in 1..6 /\ 3 \in 1..6
        OBVIOUS
      <3> QED
        BY <1>9, <3>1
    <2> QED
      BY <2>2, <2>3 DEF Head6
  <1> HIDE DEF w
  <1> DEFINE h == ElfHash(w, TRUE)
  <1>12. /\ h.gnu_hash_ = TRUE /\ h.header_.buckets = buckets /\ h.words = w
         /\ h.header_.symndx = first /\ h.buck_ = 6 /\ h.hash_ = 6 + buckets
    BY <1>11 DEF ElfHash
  <1> HIDE DEF h
  <1>13. ASSUME NEW b \in 0..buckets - 1
         PROVE  Word(w, 6 + b) = IF In(b) = {} THEN 0 ELSE FirstOf(In(b))
    <2>1. /\ 6 + b \in Nat /\ 6 + b < (6 + buckets) + (last + 1 - first)
          /\ (6 + b) + 1 = 6 + (b + 1) /\ b + 1 \in 1..buckets /\ (b + 1) - 1 = b
      OBVIOUS
    <2>2. Word(w, 6 + b) = Bucks[b + 1]
      BY <1>9, <1>10, <2>1
    <2> QED
      BY <2>1, <2>2 DEF Bucks
  <1>14. ASSUME NEW i \in first..last
         PROVE  Word(w, (6 + buckets) + i - first) = Ch(i)
    <2> DEFINE k == i - first + 1
    <2>1. /\ (6 + buckets) + i - first \in Nat
          /\ (6 + buckets) + i - first < (6 + buckets) + (last + 1 - first)
          /\ ((6 + buckets) + i - first) + 1 = 6 + buckets + k
          /\ k \in 1..last + 1 - first /\ first + k - 1 = i
      OBVIOUS
    <2> HIDE DEF k
    <2>2. Word(w, (6 + buckets) + i - first) = Chain[k]
      BY <1>9, <1>10, <2>1
    <2> QED
      BY <2>1, <2>2 DEF Chain
  <1> QED
    <2>1. h = GnuHash(symtab, first, buckets)
      BY <1>3 DEF h, GnuHash
    <2> QED
      BY <1>12, <1>13, <1>14, <2>1 DEF In, Ch

\* Through the GNU table a static linker writes, the symbol of a name is
\* found, unless its hash is 0 or 1; another name finds none.
LEMMA GnuLookup ==
  ASSUME NEW symtab, NEW last \in Nat, DOMAIN symtab = 0..last,
         NEW first \in 1..last + 1, NEW buckets \in Nat \ {0},
         \A i \in 1..last : symtab[i].st_name \in Seq(Character),
         \A i, j \in 1..last : symtab[i].st_name = symtab[j].st_name => i = j,
         InBucketOrder(symtab, first, buckets),
         NEW name \in Seq(Character)
  PROVE  LET i == lookup_symbol(GnuHash(symtab, first, buckets), name, symtab)
         IN  IF i = 0
               THEN hash_symbol(name) > 1 =>
                      \A j \in first..last : symtab[j].st_name # name
               ELSE /\ i \in first..last /\ symtab[i].st_name = name
                    /\ hash_symbol(name) > 1
  <1> DEFINE h == GnuHash(symtab, first, buckets)
             In(c) == InBucket(symtab, first, buckets, c)
  <1>1. /\ h.gnu_hash_ /\ h.header_.buckets = buckets
        /\ h.header_.symndx = first
        /\ \A c \in 0..buckets - 1 :
             Word(h.words, h.buck_ + c) = IF In(c) = {} THEN 0 ELSE FirstOf(In(c))
        /\ \A i \in first..last :
             Word(h.words, h.hash_ + i - first) = Chained(symtab, first, buckets, i)
    BY GnuWords
  <1> DEFINE hash == hash_symbol(name)
             b == hash % buckets
             n == FirstOf(In(b))
             L == LastOf(In(b))
             H(i) == hash_symbol(symtab[i].st_name)
             Is(i) == symtab[i].st_name = name
  <1>2. hash \in Nat /\ b \in 0..buckets - 1 /\ \A i \in 1..last : H(i) \in Nat
    BY HashIsWord
  <1>3. /\ In(b) = {i \in first..last : H(i) % buckets = b}
        /\ LastOf(DOMAIN symtab) = last
    BY LastOfInterval DEF InBucket
  <1>4. \A i \in 1..last : strcmp(name, symtab[i].st_name) = 0 <=> Is(i)
    BY StrcmpZero
  <1>5. \A j \in first..last : Is(j) => j \in In(b)
    BY <1>3
  <1> HIDE DEF h
  <1>6. lookup_symbol(h, name, symtab) =
          LET m == Word(h.words, h.buck_ + b)
          IN  IF m \in {0, Wild} THEN m
              ELSE IF m < first \/ m \notin DOMAIN symtab THEN Wild
              ELSE Walk(h, name, symtab, m)
    BY <1>1 DEF lookup_symbol
  <1>7. CASE In(b) = {}
    <2>1. lookup_symbol(h, name, symtab) = 0
      BY <1>1, <1>2, <1>6, <1>7
    <2> QED
      BY <1>5, <1>7, <2>1 DEF h
  <1>8. CASE In(b) # {}
    <2>1. /\ n \in In(b) /\ L \in In(b)
          /\ \A j \in In(b) : n <= j /\ j <= L
      <3>1. In(b) \in SUBSET Nat /\ \A j \in In(b) : j <= last
        BY <1>3
      <3> HIDE DEF In, b
      <3> QED
        BY <1>8, <3>1, FirstOfSet, LastOfSet
    <2>2. n \in first..last /\ L \in first..last /\ n <= L
      BY <1>3, <2>1
    <2> HIDE DEF n, L
    <2>3. \A i \in n..L : i \in first..last /\ i \in In(b)
      <3> SUFFICES ASSUME NEW i \in n..L
                   PROVE  i \in first..last /\ i \in In(b)
        OBVIOUS
      <3>1. i \in first..last
        BY <2>2
      <3>2. H(n) % buckets = b /\ H(L) % buckets = b
        BY <1>3, <2>1
      <3>3. /\ H(n) % buckets <= H(i) % buckets
            /\ H(i) % buckets <= H(L) % buckets
        BY <1>3, <2>2, <3>1 DEF InBucketOrder
      <3>4. H(i) % buckets \in Nat
        BY <1>2, <3>1
      <3>5. H(i) % buckets = b
        BY <1>2, <3>2, <3>3, <3>4
      <3> QED
        BY <1>3, <3>1, <3>5
    <2>4. lookup_symbol(h, name, symtab) = Walk(h, name, symtab, n)
      <3>1. Word(h.words, h.buck_ + b) = n
        BY <1>1, <1>2, <1>8 DEF n
      <3>2. n \notin {0, Wild} /\ ~(n < first) /\ n \in DOMAIN symtab
        BY <2>2 DEF Wild
      <3> QED
        BY <1>6, <3>1, <3>2
    <2> DEFINE W(i) == Word(h.words, h.hash_ + i - h.header_.symndx)
    <2>5. ASSUME NEW i \in n..L
          PROVE  /\ W(i) \in Nat /\ W(i) # Wild
                 /\ W(i) = 2 * (H(i) \div 2) + (IF i = L THEN 1 ELSE 0)
      <3>1. W(i) = Chained(symtab, first, buckets, i)
        BY <1>1, <2>3
      <3>2. H(i) % buckets = b
        BY <1>3, <2>3
      <3>3. W(i) = 2 * (H(i) \div 2) + (IF i = L THEN 1 ELSE 0)
        BY <3>1, <3>2 DEF Chained, L
      <3>4. \A x \in Nat : 2 * (x \div 2) + 1 \in Nat /\ 2 * (x \div 2) + 0 \in Nat
        OBVIOUS
      <3>5. H(i) \in Nat
        BY <1>2, <2>3
      <3>6. W(i) \in Nat
        BY <3>3, <3>4, <3>5
      <3> QED
        BY <3>3, <3>6 DEF Wild
    <2>6. \A x \in Nat : /\ (2 * (x \div 2) + 0) % 2 = 0
                         /\ (2 * (x \div 2) + 1) % 2 = 1
                         /\ 2 * (x \div 2) + 0 > 1 <=> x > 1
                         /\ 2 * (x \div 2) + 1 > 1 <=> x > 1
      OBVIOUS
    <2>7. ASSUME NEW i \in n..L
          PROVE  /\ W(i) # Wild /\ i \in DOMAIN symtab
                 /\ (W(i) > 1 /\ strcmp(name, symtab[i].st_name) = 0) <=>
                      (hash > 1 /\ Is(i))
                 /\ W(i) % 2 = 1 <=> i = L
      <3>1. H(i) \in Nat /\ i \in 1..last
        BY <1>2, <2>3
      <3>2. /\ W(i) # Wild
            /\ W(i) = 2 * (H(i) \div 2) + (IF i = L THEN 1 ELSE 0)
        BY <2>5
      <3>3. W(i) > 1 <=> H(i) > 1
        BY <2>6, <3>1, <3>2
      <3>4. W(i) % 2 = 1 <=> i = L
        BY <2>6, <3>1, <3>2
      <3>5. strcmp(name, symtab[i].st_name) = 0 <=> Is(i)
        BY <1>4, <3>1
      <3>6. Is(i) => H(i) = hash
        OBVIOUS
      <3> QED
        BY <3>1, <3>2, <3>3, <3>4, <3>5, <3>6
    <2> HIDE DEF W
    <2> DEFINE Stop == {i \in n..L : (hash > 1 /\ Is(i)) \/ i = L}
               stop == FirstOf(Stop)
    <2>8. stop \in Stop /\ \A j \in Stop : stop <= j
      <3>1. Stop \in SUBSET Nat /\ L \in Stop
        BY <2>2
      <3> HIDE DEF Stop
      <3> QED
        BY <3>1, FirstOfSet
    <2> HIDE DEF stop
    <2>9. stop \in n..last /\ stop \in n..L /\ n \in 0..last
      BY <2>2, <2>8
    <2>10. \A i \in n..stop - 1 : \A r : Turn(h, name, symtab, i, r) = r
      <3> SUFFICES ASSUME NEW i \in n..stop - 1, NEW r
                   PROVE  Turn(h, name, symtab, i, r) = r
        OBVIOUS
      <3>1. i \in n..L /\ i \notin Stop
        BY <2>2, <2>8
      <3>2. ~(hash > 1 /\ Is(i)) /\ i # L
        BY <3>1
      <3> QED
        BY <2>7, <3>1, <3>2 DEF Turn, W
    <2>11. PICK r : Walk(h, name, symtab, n) = Turn(h, name, symtab, stop, r)
      <3>1. \A m \in 0..last : \A s \in m..last :
              (\A i \in m..s - 1 : \A r : Turn(h, name, symtab, i, r) = r)
                => \E r : Walk(h, name, symtab, m) = Turn(h, name, symtab, s, r)
        BY WalkGoesTo
      <3> QED
        BY <2>9, <2>10, <3>1
    <2>12. CASE hash > 1 /\ Is(stop)
      <3>1. Turn(h, name, symtab, stop, r) = stop
        BY <2>7, <2>9, <2>12 DEF Turn, W
      <3>2. stop \in first..last /\ stop # 0
        BY <2>2, <2>9
      <3> QED
        BY <2>4, <2>11, <2>12, <3>1, <3>2 DEF h
    <2>13. CASE ~(hash > 1 /\ Is(stop))
      <3>1. stop = L
        BY <2>8, <2>13
      <3>2. Turn(h, name, symtab, stop, r) = 0
        BY <2>7, <2>9, <2>13, <3>1 DEF Turn, W
      <3>3. ASSUME hash > 1, NEW j \in first..last, Is(j)
            PROVE  FALSE
        <4>1. j \in In(b)
          BY <1>5, <3>3
        <4>2. j \in n..L /\ j \in Stop
          BY <2>1, <2>2, <3>3, <4>1
        <4>3. j = L
          BY <2>2, <2>8, <3>1, <4>2
        <4> QED
          BY <2>13, <3>1, <3>3, <4>3
      <3> QED
        BY <2>4, <2>11, <3>2, <3>3 DEF h
    <2> QED
      BY <2>12, <2>13
  <1> QED
    BY <1>7, <1>8
=============================================================================

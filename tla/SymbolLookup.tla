---------------------------- MODULE SymbolLookup ----------------------------
(***************************************************************************)
(* ElfHash of src/elf-hash.cc: a name is looked up in the symbols of one   *)
(* object, through a hash table or without.                                *)
(*                                                                         *)
(* A symbol table is a function from 0..n, its entry 0 unused.  A hash     *)
(* table is the sequence of the 32-bit words it consists of: the code      *)
(* casts an address to the structure it expects, and what it then reads    *)
(* depends on the words alone.  A result is the index of a symbol, 0 for   *)
(* null, or Wild if memory behind the tables decides.                      *)
(***************************************************************************)
EXTENDS Strings

CONSTANT HashMod   \* 2^32, the width of Elf64_Word

ASSUME HashAssumption == HashMod \in Nat \ {0}

Wild == -1

Word(w, i) == IF i \in 0..Len(w) - 1 THEN w[i + 1] ELSE Wild

hash_symbol(name) ==
  LET H[k \in 0..Len(name)] ==
        IF k = 0 THEN 5381 % HashMod ELSE (H[k - 1] * 33 + name[k]) % HashMod
  IN  H[Len(name)]

\* The header and the start of the buckets and of the chains, in words; a
\* word of the bloom filter is twice as long and the filter is not used.
ElfHash(w, gnu) ==
  LET header == [buckets |-> Word(w, 0), symndx |-> Word(w, 1),
                 maskwords |-> Word(w, 2), shift2 |-> Word(w, 3)]
      buck == 4 + 2 * header.maskwords
  IN  [words |-> w, gnu_hash_ |-> gnu, header_ |-> header,
       buck_ |-> buck, hash_ |-> buck + header.buckets]

\* The string table follows the symbol table, so their distance is its size.
lookup_symbol_SV(name, symtab) ==
  LET named == {i \in DOMAIN symtab \ {0} :
                  strcmp(name, symtab[i].st_name) = 0}
  IN  IF named = {} THEN 0 ELSE FirstOf(named)

\* Mutant: the end of a chain is not seen.
Walk_on(h, name, symtab, n) ==
  LET W[i \in n..LastOf(DOMAIN symtab) + 1] ==
        LET w == Word(h.words, h.hash_ + i - h.header_.symndx)
        IN  IF w = Wild \/ i \notin DOMAIN symtab THEN Wild
            ELSE IF w > 1 /\ strcmp(name, symtab[i].st_name) = 0 THEN i
            ELSE W[i + 1]
  IN  W[n]

\* Mutant: the chain's words and the symbols are out of step by one.
Walk_step(h, name, symtab, n) ==
  LET W[i \in n..LastOf(DOMAIN symtab) + 1] ==
        LET w == Word(h.words, h.hash_ + i - h.header_.symndx)
        IN  IF w = Wild \/ i \notin DOMAIN symtab THEN Wild
            ELSE IF w % 2 = 1 THEN 0
            ELSE IF w > 1 /\ strcmp(name, symtab[i].st_name) = 0 THEN i
            ELSE W[i + 1]
  IN  W[n]

\* One chain, from symbol n on.  `hash_1 = (hash_2 & ~1)` assigns where a
\* comparison was meant: any word but 0 and 1 counts as the name's hash.
Walk(h, name, symtab, n) ==
  LET W[i \in n..LastOf(DOMAIN symtab) + 1] ==
        LET w == Word(h.words, h.hash_ + i - h.header_.symndx)
        IN  IF w = Wild \/ i \notin DOMAIN symtab THEN Wild
            ELSE IF w > 1 /\ strcmp(name, symtab[i].st_name) = 0 THEN i
            ELSE IF w % 2 = 1 THEN 0
            ELSE W[i + 1]
  IN  W[n]

lookup_symbol(h, name, symtab) ==
  IF ~h.gnu_hash_ THEN lookup_symbol_SV(name, symtab)
  ELSE LET n == Word(h.words,
                     h.buck_ + (hash_symbol(name) % h.header_.buckets))
       IN  IF n \in {0, Wild} THEN n
           ELSE IF n < h.header_.symndx \/ n \notin DOMAIN symtab THEN Wild
           ELSE Walk(h, name, symtab, n)

-----------------------------------------------------------------------------
(***************************************************************************)
(* The tables a static linker writes, which the code takes as they come.   *)
(***************************************************************************)

\* Symbols first, first + 1, ... are in the table, in the order of their
\* buckets; the ones before are undefined.
InBucketOrder(symtab, first, buckets) ==
  \A i, j \in first..LastOf(DOMAIN symtab) :
    i <= j => hash_symbol(symtab[i].st_name) % buckets <=
              hash_symbol(symtab[j].st_name) % buckets

GnuTable(symtab, first, buckets) ==
  LET last == LastOf(DOMAIN symtab)
      Bucket(i) == hash_symbol(symtab[i].st_name) % buckets
      In(b) == {i \in first..last : Bucket(i) = b}
      Chained(i) == 2 * (hash_symbol(symtab[i].st_name) \div 2) +
                    (IF i = LastOf(In(Bucket(i))) THEN 1 ELSE 0)
  IN  <<buckets, first, 1, 0, 0, 0>> \o
      [b \in 1..buckets |->
         IF In(b - 1) = {} THEN 0 ELSE FirstOf(In(b - 1))] \o
      [k \in 1..last + 1 - first |-> Chained(first + k - 1)]

\* A symbol table and the table that goes with it: no name is there twice, and
\* the symbols that are not in the hash table have no value.
WrittenTogether(symtab, w) ==
  LET last == LastOf(DOMAIN symtab)
  IN  /\ \A i, j \in 1..last : symtab[i].st_name = symtab[j].st_name => i = j
      /\ \E first \in 1..last + 1, buckets \in 1..Len(w) :
           /\ w = GnuTable(symtab, first, buckets)
           /\ InBucketOrder(symtab, first, buckets)
           /\ \A i \in 1..first - 1 : symtab[i].st_value = 0

\* nbucket = 1, nchain, one bucket with every symbol, the chain.
SysvTable(symtab) ==
  LET last == LastOf(DOMAIN symtab)
  IN  <<1, last + 1, IF last = 0 THEN 0 ELSE 1, 0>> \o
      [k \in 1..last |-> IF k = last THEN 0 ELSE k + 1]
=============================================================================

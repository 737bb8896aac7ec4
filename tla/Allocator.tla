------------------------------ MODULE Allocator ------------------------------
(***************************************************************************)
(* The heap behind every `new`, Vector and string of the linker:           *)
(* src/malloc/*.cc, over the pages that mmap of src/syscall.cc returns.    *)
(*                                                                         *)
(* Addresses and sizes are bytes.  A block is a header, struct s_block, at *)
(* an address, followed by `capacity` bytes for its owner; the heap maps   *)
(* every address that holds a header to it.  0 is the null pointer.  The   *)
(* magic numbers of a header are written and never read: left out.         *)
(*                                                                         *)
(* One action is one call of the interface; the calls are sequential.      *)
(***************************************************************************)
EXTENDS Naturals, FiniteSetsExt

CONSTANTS
  Word,      \* sizeof (size_t)
  Header,    \* META_SIZE, sizeof (struct s_block)
  MinBlock,  \* MIN_BLOCK_SIZE
  Page,      \* PAGE_SIZE
  Bases,     \* the addresses mmap may return
  Sizes,     \* the arguments of malloc
  MaxCalls   \* bound on the blocks handed out

ASSUME AllocatorAssumption ==
  /\ {Word, Header, MinBlock, Page} \subseteq Nat \ {0}
  /\ Header + MinBlock < Page
  /\ Bases \subseteq Nat \ {0}
  /\ Sizes \subseteq Nat
  /\ MaxCalls \in Nat

VARIABLES
  heap,      \* the headers, and blocks, last and free of struct s_memory
  mapped,    \* the intervals mmap has returned; none before the first call
  given,     \* the size asked for, for every block ever handed out
  answer,    \* the block the last call handed out, 0 if none
  calls,     \* number of blocks handed out
  used,      \* history: the intervals headers and owners may have written
  status     \* running, or crashed

vars == <<heap, mapped, given, answer, calls, used, status>>

Disjoint(i, j) == i[2] <= j[1] \/ j[2] <= i[1]
Put(f, a, b) == [c \in DOMAIN f \cup {a} |-> IF c = a THEN b ELSE f[c]]

-----------------------------------------------------------------------------
align(value, divisor) == ((value - 1) \div divisor) * divisor + divisor

\* The capacity malloc looks for: 10 bytes more than asked, and MinBlock.
Size(n) == LET s == align(n + 10, Word) IN IF s < MinBlock THEN MinBlock ELSE s

init_block(size) ==
  [capacity |-> size, next_mem |-> 0, next_sto |-> 0, prev_sto |-> 0]

\* if (b) b->prev_sto = p
SetPrev(hdr, b, p) ==
  IF b = 0 THEN hdr ELSE [hdr EXCEPT ![b].prev_sto = p]

\* Mutant: the block is pushed in front, wherever it lies.
store_free_block_front(h, b) ==
  [h EXCEPT !.free = b,
            !.hdr = SetPrev([@ EXCEPT ![b].next_sto = h.free,
                                      ![b].prev_sto = 0], h.free, b)]

\* The block enters the free list, which is kept sorted by address.
store_free_block(h, b) ==
  LET Walk[c \in DOMAIN h.hdr] ==
        LET n == h.hdr[c].next_sto
        IN  IF n # 0 /\ n < b THEN Walk[n] ELSE c
      front == h.free = 0 \/ b < h.free
      prev == IF front THEN 0 ELSE Walk[h.free]
      next == IF front THEN h.free ELSE h.hdr[prev].next_sto
      stored == SetPrev([h.hdr EXCEPT ![b].next_sto = next,
                                      ![b].prev_sto = prev], next, b)
  IN  IF front
        THEN [h EXCEPT !.free = b, !.hdr = stored]
        ELSE [h EXCEPT !.hdr = [stored EXCEPT ![prev].next_sto = b]]

\* First fit: the first block of the free list that is large enough, or 0.
get_free_block(h, size) ==
  LET Search[c \in DOMAIN h.hdr \cup {0}] ==
        IF c = 0 THEN 0
        ELSE IF h.hdr[c].capacity >= size THEN c ELSE Search[h.hdr[c].next_sto]
  IN  Search[h.free]

\* Mutant: a block is split even if its rest has no room for a header.
split_block_always(h, b, size) ==
  LET old == h.hdr[b]
      new == b + Header + size
      rest == [init_block(old.capacity - size - Header) EXCEPT
                 !.next_mem = old.next_mem, !.next_sto = old.next_sto,
                 !.prev_sto = b]
      kept == [old EXCEPT !.capacity = size, !.next_mem = new,
                          !.next_sto = new]
  IN  [h EXCEPT !.hdr = SetPrev(Put([@ EXCEPT ![b] = kept], new, rest),
                                old.next_sto, new),
                !.last = IF @ = b THEN new ELSE @]

\* Mutant: memory->last is not moved to the rest of the last block.
split_block_last(h, b, size) ==
  LET old == h.hdr[b]
      new == b + Header + size
      rest == [init_block(old.capacity - size - Header) EXCEPT
                 !.next_mem = old.next_mem, !.next_sto = old.next_sto,
                 !.prev_sto = b]
      kept == [old EXCEPT !.capacity = size, !.next_mem = new,
                          !.next_sto = new]
  IN  IF old.capacity <= size + Header + MinBlock THEN h
      ELSE [h EXCEPT !.hdr = SetPrev(Put([@ EXCEPT ![b] = kept], new, rest),
                                     old.next_sto, new)]

\* The rest of a block that is too large becomes a free block of its own.
split_block(h, b, size) ==
  LET old == h.hdr[b]
      new == b + Header + size
      rest == [init_block(old.capacity - size - Header) EXCEPT
                 !.next_mem = old.next_mem, !.next_sto = old.next_sto,
                 !.prev_sto = b]
      kept == [old EXCEPT !.capacity = size, !.next_mem = new,
                          !.next_sto = new]
  IN  IF old.capacity <= size + Header + MinBlock THEN h
      ELSE [h EXCEPT !.hdr = SetPrev(Put([@ EXCEPT ![b] = kept], new, rest),
                                     old.next_sto, new),
                     !.last = IF @ = b THEN new ELSE @]

\* The block is split and leaves the free list.
cook_free_block(h, b, size) ==
  LET s == split_block(h, b, size)
      prev == s.hdr[b].prev_sto
      next == s.hdr[b].next_sto
      linked == IF prev = 0 THEN s.hdr
                ELSE [s.hdr EXCEPT ![prev].next_sto = next]
  IN  [s EXCEPT !.free = IF prev = 0 THEN next ELSE @,
                !.hdr = [SetPrev(linked, next, prev) EXCEPT
                           ![b].prev_sto = 0, ![b].next_sto = 0]]

-----------------------------------------------------------------------------
\* mmap: any place of its own for len bytes.
Places(maps, len) ==
  {b \in Bases : \A i \in maps : Disjoint(<<b, b + len>>, i)}

\* get_memory_data, at the start of a call: the first time two pages are
\* mapped, one for struct s_memory and one for the first block.
get_memory_data ==
  IF mapped # {} THEN {[heap |-> heap, mapped |-> mapped]}
  ELSE UNION {
    {[heap |-> [hdr |-> [c \in {b} |-> init_block(Page - Header)],
                blocks |-> b, last |-> b, free |-> b],
      mapped |-> {<<m, m + Page>>, <<b, b + Page>>}] :
        b \in Places({<<m, m + Page>>}, Page)} : m \in Places({}, Page)}

\* Mutant: the header of the new block is not taken off its capacity.
create_new_block_whole(r, base, size) ==
  LET len == align(size + Header, Page)
      hdr == Put(r.heap.hdr, base, init_block(len))
  IN  [heap |-> store_free_block(
                  [r.heap EXCEPT !.hdr = [hdr EXCEPT
                                            ![r.heap.last].next_mem = base],
                                 !.last = base], base),
       mapped |-> r.mapped \cup {<<base, base + len>>}]

\* A block of whole pages is mapped at base and stored in the free list.
create_new_block(r, base, size) ==
  LET len == align(size + Header, Page)
      hdr == Put(r.heap.hdr, base, init_block(len - Header))
  IN  [heap |-> store_free_block(
                  [r.heap EXCEPT !.hdr = [hdr EXCEPT
                                            ![r.heap.last].next_mem = base],
                                 !.last = base], base),
       mapped |-> r.mapped \cup {<<base, base + len>>}]

\* Block b of r is handed out to a caller that asked for n bytes.
HandOut(r, b, n) ==
  LET h == cook_free_block(r.heap, b, Size(n))
  IN  /\ heap' = h
      /\ mapped' = r.mapped
      /\ given' = Put(given, b, n)
      /\ answer' = b
      /\ calls' = calls + 1
      /\ used' = used \cup {<<c, c + Header>> : c \in DOMAIN h.hdr}
                      \cup {<<b, b + Header + h.hdr[b].capacity>>}
      /\ UNCHANGED status

Running == status = "running" /\ calls < MaxCalls

\* A call that answers null and leaves the heap, mapped or not, as it is.
NoBlock ==
  /\ answer' = 0
  /\ UNCHANGED <<heap, mapped, given, calls, used, status>>

\* malloc(n): null for no bytes, which is what strdup asks for the empty
\* string; else a free block that is large enough, or a new one.
malloc(n) ==
  /\ Running
  /\ IF n = 0 THEN NoBlock
     ELSE \E r \in get_memory_data :
            LET b == get_free_block(r.heap, Size(n))
            IN  \/ b # 0 /\ HandOut(r, b, n)
                \/ /\ b = 0
                   /\ \E base \in Places(r.mapped, align(Size(n) + Header, Page)) :
                        HandOut(create_new_block(r, base, Size(n)), base, n)

\* mmap fails: it returns -errno, which is not MAP_FAILED, and the header of
\* the new block, or struct s_memory itself, is written there.
OutOfMemory(n) ==
  /\ Running /\ n # 0
  /\ mapped = {} \/ get_free_block(heap, Size(n)) = 0
  /\ status' = "crashed"
  /\ UNCHANGED <<heap, mapped, given, answer, calls, used>>

\* calloc(n, size): the memset finds the zeroes of fresh memory.
calloc(nmemb, size) == malloc(nmemb * size)

\* realloc(p, n): a new block, always; the old one is neither freed nor
\* looked at again by its owner, who gets a copy.
realloc(b, n) ==
  /\ b \in DOMAIN given
  /\ malloc(n)

is_adjacent(h, b, next) == b + Header + h.hdr[b].capacity = next

\* Mutant: the block behind is not told that its neighbour was swallowed.
merge_block_prev(h, b) ==
  LET p == h.hdr[b].prev_sto
      n == h.hdr[b].next_sto
  IN  IF p = 0 \/ ~is_adjacent(h, p, b) THEN h
      ELSE [h EXCEPT !.hdr[p].capacity = @ + Header + h.hdr[b].capacity,
                     !.hdr[p].next_sto = n]

\* The free blocks around b that touch one another become one block.
merge_block(h, b) ==
  LET Back[c \in DOMAIN h.hdr] ==
        LET p == h.hdr[c].prev_sto
        IN  IF p # 0 /\ is_adjacent(h, p, c) THEN Back[p] ELSE c
      Ahead[c \in DOMAIN h.hdr] ==
        LET n == h.hdr[c].next_sto
        IN  IF n # 0 /\ is_adjacent(h, c, n) THEN Ahead[n] ELSE c
      start == Back[b]
      block == Ahead[start]
      next == h.hdr[block].next_sto
      whole == [h.hdr[start] EXCEPT
                  !.capacity = block + h.hdr[block].capacity - start,
                  !.next_sto = next, !.next_mem = h.hdr[block].next_mem]
  IN  IF start = block THEN h
      ELSE [h EXCEPT !.hdr = SetPrev([@ EXCEPT ![start] = whole], next, start),
                     !.last = IF h.hdr[block].next_mem = 0 THEN start ELSE @]

\* What free does behind its early `return`, where no call of it gets.
FreeBody(h, b) == merge_block(store_free_block(h, b), b)

\* Mutant: the early `return` of free is gone and the block is stored.
free_live(b) ==
  /\ status = "running"
  /\ b \in DOMAIN given /\ heap.hdr[b].next_sto = 0
  /\ heap' = store_free_block(heap, b)
  /\ answer' = 0
  /\ UNCHANGED <<mapped, given, calls, used, status>>

\* free(p) returns before it does anything, twice for the same p if need be.
free(b) ==
  /\ status = "running"
  /\ b \in DOMAIN given
  /\ NoBlock

Null == [hdr |-> [c \in {} |-> init_block(0)], blocks |-> 0, last |-> 0,
         free |-> 0]

Init ==
  /\ heap = Null
  /\ mapped = {}
  /\ given = [c \in {} |-> 0]
  /\ answer = 0
  /\ calls = 0
  /\ used = {}
  /\ status = "running"

Stopped == ~Running /\ UNCHANGED vars

Next ==
  \/ \E n \in Sizes : malloc(n) \/ calloc(n, 1) \/ OutOfMemory(n)
  \/ \E n \in Sizes, b \in DOMAIN given : realloc(b, n)
  \/ \E b \in DOMAIN given : free(b)
  \/ Stopped

Spec == Init /\ [][Next]_vars

-----------------------------------------------------------------------------
Block == DOMAIN heap.hdr
Extent(b) == <<b, b + Header + heap.hdr[b].capacity>>

\* Addresses are not null where a block is meant, capacities not negative.
TypeOK ==
  /\ Block \subseteq Nat \ {0}
  /\ heap.hdr \in [Block -> [capacity : Nat, next_mem : Block \cup {0},
                             next_sto : Block \cup {0},
                             prev_sto : Block \cup {0}]]
  /\ {heap.blocks, heap.last, heap.free} \subseteq Block \cup {0}
  /\ mapped \subseteq Nat \X Nat
  /\ given \in [DOMAIN given -> Nat \ {0}] /\ DOMAIN given \subseteq Block
  /\ answer \in Block \cup {0}
  /\ calls \in 0..MaxCalls
  /\ status \in {"running", "crashed"}

\* A caller may write all it asked for and the 10 bytes it did not, which is
\* what strdup, that asks for no room for its NUL, gets away with; and no
\* byte belongs to two blocks, so that is never another one's memory, nor a
\* header, nor outside what mmap returned.
BlocksDisjoint ==
  /\ \A b \in DOMAIN given : heap.hdr[b].capacity >= given[b] + 10
  /\ \A b \in Block :
       /\ \E i \in mapped : i[1] <= b /\ Extent(b)[2] <= i[2]
       /\ \A c \in Block \ {b} : Disjoint(Extent(b), Extent(c))

FreeListInOrder ==
  LET F == Block \ DOMAIN given
      First(S) == IF S = {} THEN 0 ELSE CHOOSE b \in S : \A c \in S : b <= c
      Last(S) == IF S = {} THEN 0 ELSE CHOOSE b \in S : \A c \in S : c <= b
  IN  /\ heap.free = First(F)
      /\ \A b \in F :
           /\ heap.hdr[b].next_sto = First({c \in F : c > b})
           /\ heap.hdr[b].prev_sto = Last({c \in F : c < b})

FreeBodyKeepsTheList ==
  \A b \in DOMAIN given :
    LET h == FreeBody(heap, b)
        n == Cardinality(Block)
        At[k \in 1..n] == IF k = 1 THEN h.free
                          ELSE IF At[k - 1] = 0 THEN 0
                          ELSE h.hdr[At[k - 1]].next_sto
        list == {At[k] : k \in 1..n} \ {0}
        stored == (Block \ DOMAIN given) \cup {b}
        bytes(hdr) == [c \in DOMAIN hdr |-> Header + hdr[c].capacity]
    IN  /\ \A k \in 1..n - 1 : At[k + 1] # 0 =>
             At[k] + Header + h.hdr[At[k]].capacity <= At[k + 1]
        /\ \A c \in list : h.hdr[c].next_sto # 0 =>
             h.hdr[h.hdr[c].next_sto].prev_sto = c
        /\ \A s \in stored : \E c \in list :
             /\ c <= s
             /\ Extent(s)[2] <= c + Header + h.hdr[c].capacity
        /\ SumFunctionOnSet(bytes(h.hdr), list) =
             SumFunctionOnSet(bytes(heap.hdr), stored)

\* The free list is doubly linked, sorted by address, and holds exactly the
\* blocks nobody was ever given, whatever order mmap and malloc fill it in.
\* If free did what stands behind its `return`, the list would stay sorted
\* and linked both ways, and hold the block's bytes and those it held before,
\* each once, whatever neighbours the block is merged with.
FreeListSound == FreeListInOrder /\ FreeBodyKeepsTheList

\* Every block, free or not, is found by next_mem from the first to the last.
EveryBlockIsChained ==
  LET n == Cardinality(Block)
      Visit[k \in 1..n] ==
        IF k = 1 THEN heap.blocks
        ELSE IF Visit[k - 1] = 0 THEN 0 ELSE heap.hdr[Visit[k - 1]].next_mem
  IN  mapped # {} => /\ {Visit[k] : k \in 1..n} = Block
                     /\ heap.last = Visit[n]
                     /\ heap.hdr[heap.last].next_mem = 0
=============================================================================

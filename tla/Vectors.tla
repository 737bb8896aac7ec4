------------------------------- MODULE Vectors -------------------------------
(***************************************************************************)
(* Vector<T> of src/vector.hxx over the heap of module Allocator, used as  *)
(* load_dependencies and its callers use it: `loaded` grows, as to_append  *)
(* and `viewed` do, dependencies_ is assigned `loaded` member by member, so*)
(* that both share an array, and the destructors run in any order while    *)
(* other parts of the linker go on allocating.                             *)
(*                                                                         *)
(* An element is a pointer, and so is a String.  A block's content is the  *)
(* sequence of its words; a fresh block is zero (HandedOutForGood).        *)
(***************************************************************************)
EXTENDS Allocator, ArraySizes, Sequences

Vector == {"loaded", "dependencies"}

CONSTANTS
  Others,    \* sizes that `new`, strdup and calloc are asked for besides
  MaxPush    \* bound on the elements of each vector

ASSUME VectorsAssumption == Others \subseteq Sizes /\ MaxPush \in [Vector -> Nat]

VARIABLES
  vec,     \* capacity_, size_ and array_ of each vector, and its lifetime
  cells,   \* the words of the arrays
  elts     \* history: what each vector should hold

heapVars == <<heap, mapped, given, answer, calls, used, status>>
vectorVars == <<vec, cells, elts>>
vvars == <<heapVars, vectorVars>>

Unborn == [life |-> "unborn", capacity |-> 0, size |-> 0, array |-> 0]

Lesser(m, n) == IF m < n THEN m ELSE n
Words(b) == heap.hdr[b].capacity \div Word
Zeroes(n) == [i \in 1..n |-> 0]

\* operator[], get_size and contains.
At(v, i) == cells[vec[v].array][i]
contains(v, e) == \E i \in 1..vec[v].size : At(v, i) = e

-----------------------------------------------------------------------------
\* Vector(2), the size every caller asks for.
Construct(v) ==
  /\ vec[v].life = "unborn"
  /\ malloc(2 * Word)
  /\ cells' = Put(cells, answer', Zeroes(heap'.hdr[answer'].capacity \div Word))
  /\ vec' = [vec EXCEPT ![v] = [life |-> "live", capacity |-> 2, size |-> 0,
                                array |-> answer']]
  /\ UNCHANGED elts

\* Mutant: half of the array is left behind.
Moved_half(b, n) == Lesser(n, heap.hdr[b].capacity) \div (2 * Word)

\* Mutant: the copy is as long as the new block, whatever lies behind the old.
Moved_all(b, n) == n \div Word

\* The words realloc copies: what fits in the old block and was asked for.
Moved(b, n) == Lesser(n, heap.hdr[b].capacity) \div Word

\* What a read of word i of block b finds: past the block, the magic number
\* in the header of the next one.
Read(b, i) == IF i <= Len(cells[b]) THEN cells[b][i] ELSE 42

\* The element goes behind the last one; at capacity_ - 1 elements the array
\* is moved to a block for twice as many, and the old one is not freed.
push_back(v, e) ==
  LET old == vec[v]
      n == 2 * old.capacity * Word
  IN  /\ old.life = "live"
      /\ old.size < MaxPush[v]
      /\ elts' = [elts EXCEPT ![v] = Append(@, e)]
      /\ IF old.size + 1 = old.capacity
           THEN /\ realloc(old.array, n)
                /\ LET new == answer'
                       words == heap'.hdr[new].capacity \div Word
                       copy == [i \in 1..words |->
                                  IF i = old.size + 1 THEN e
                                  ELSE IF i <= Moved(old.array, n)
                                    THEN Read(old.array, i) ELSE 0]
                   IN  /\ cells' = Put(cells, new, copy)
                       /\ vec' = [vec EXCEPT ![v].capacity = 2 * @,
                                             ![v].size = @ + 1,
                                             ![v].array = new]
           ELSE /\ status = "running"
                /\ cells' = [cells EXCEPT ![old.array][old.size + 1] = e]
                /\ vec' = [vec EXCEPT ![v].size = @ + 1]
                /\ UNCHANGED heapVars

\* dependencies_ = loaded, once loaded has all its elements: the array is
\* shared from now on, that of dependencies_ itself is lost.
Assign ==
  /\ status = "running"
  /\ vec["loaded"].life = "live" /\ vec["dependencies"].life = "live"
  /\ vec' = [vec EXCEPT !["loaded"].life = "shared",
                        !["dependencies"] = [vec["loaded"] EXCEPT
                                               !.life = "shared"]]
  /\ elts' = [elts EXCEPT !["dependencies"] = elts["loaded"]]
  /\ UNCHANGED <<heapVars, cells>>

\* ~Vector, which frees the array, shared or freed before as it may be.
Destroy(v) ==
  /\ vec[v].life \in {"live", "shared"}
  /\ free(vec[v].array)
  /\ vec' = [vec EXCEPT ![v].life = "destroyed"]
  /\ UNCHANGED <<cells, elts>>

\* Somebody else's block: a manager, made by `new`; a string, by calloc.
Allocate(n) == malloc(n) /\ UNCHANGED vectorVars
Copy(n) == calloc(n, 1) /\ UNCHANGED vectorVars
Release(b) ==
  /\ \A v \in Vector : vec[v].array # b
  /\ free(b)
  /\ UNCHANGED vectorVars
Exhausted(n) == OutOfMemory(n) /\ UNCHANGED vectorVars

VInit ==
  /\ Init
  /\ vec = [v \in Vector |-> Unborn]
  /\ cells = [c \in {} |-> <<>>]
  /\ elts = [v \in Vector |-> <<>>]

AtRest == ~Running /\ UNCHANGED vvars

VNext ==
  \/ \E v \in Vector : Construct(v) \/ Destroy(v)
  \/ \E v \in Vector : push_back(v, vec[v].size + 1)
  \/ Assign
  \/ \E n \in Others : Allocate(n) \/ Copy(n) \/ Exhausted(n)
  \/ \E b \in DOMAIN given : Release(b)
  \/ AtRest

VSpec == VInit /\ [][VNext]_vvars

-----------------------------------------------------------------------------
Readable == {v \in Vector : vec[v].life \in {"live", "shared"}}

\* Types; and a vector that can be read has its array in a block handed out.
VectorTypeOK ==
  /\ TypeOK
  /\ \A v \in Vector :
       /\ vec[v].life \in {"unborn", "live", "shared", "destroyed"}
       /\ vec[v].capacity \in Nat /\ vec[v].size \in Nat
       /\ vec[v].array \in DOMAIN given \cup {0}
  /\ \A b \in DOMAIN cells : Len(cells[b]) = Words(b)

\* A vector holds what was pushed, in order, however often its array moved,
\* whoever allocated meanwhile, and after the vector it shares its array
\* with was destroyed: dependencies_ outlives `loaded`.  Behind the last
\* element the block is zero to its end, after every move, and it ends where
\* module Loader counts on it to end: load_dependencies, whose loop reads
\* there, finds no manager.
ElementsKept ==
  \A v \in Readable :
    LET n == vec[v].size
        words == Words(vec[v].array)
    IN  /\ n = Len(elts[v])
        /\ \A i \in 1..words : At(v, i) = IF i <= n THEN elts[v][i] ELSE 0
        /\ \A e \in 1..MaxPush["loaded"] :
             contains(v, e) <=> \E k \in 1..n : elts[v][k] = e
        /\ vec[v].capacity = Capacity[n]
        /\ words \in BlockSlots(n)..BlockSlots(n) + UnsplitSlack

\* malloc, calloc, realloc and free implement module Arena: a block handed
\* out is zero, and ElfManager leaves error_, segment_ and hashmgr_ unset on
\* it; and it is never another owner's, so vectors may share their arrays.
Promise == INSTANCE Arena
             WITH owned <- {<<b + Header, Extent(b)[2]>> : b \in DOMAIN given},
                  written <- used
HandedOutForGood == Promise!ArenaSpec
=============================================================================

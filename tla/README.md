# A specification of dynamic_linker

The repository is a dynamic linker for x86-64 ELF programs, written without a
C library: `my_ld.so`, which the kernel starts as a program's interpreter;
`my_ldd`, which lists what a program needs; and `libdl_my.so`, with `my_dlopen`
and its companions.  Everything is sequential: there are no threads, signals or
messages.  What is hard about it is recursion over shared vectors, a heap whose
freshness the rest of the program silently relies on, failures that are noted
where nobody looks, and the order in which things are linked.

This directory holds TLA+ modules translated from the code, TLC runs, and
proofs that TLAPS checks.  Line numbers in PROJECT.json ("map") tie every
definition to the code it stands for.

## The system

| Part | Code | State | Operations | Uses |
|---|---|---|---|---|
| Dependency loading | `src/elf-manager.cc` | one `ElfManager` per object (`fd_`, `entry_`, `ehdr_`, `segment_`, `error_`); the vectors `loaded`, `viewed`, `to_append`; `dependencies_` | constructor, `find_libpath`, `load_elf`, `load_segment`, `load_dependencies`, `load_lib`, `show_dependencies`, `unload` | Vector, heap, strings, system calls |
| Linking | `src/elf-manager.cc` | the words that relocations name, `error_` | `link_dependencies`, `patch_relatable`, `get_symbol_address` | `dependencies_` of the loading, symbol lookup |
| Symbol lookup | `src/elf-hash.cc` | the hash tables of one object | `ElfHash`, `lookup_symbol`, `lookup_symbol_SV`, `hash_symbol` | strings |
| Heap | `src/malloc/*.cc` | block headers, free list, chain of blocks | `malloc`, `calloc`, `realloc`, `free` | `mmap` |
| Vector | `src/vector.hxx` | array, size, capacity | `push_back`, `operator[]`, `contains`, `=`, destructor | heap |
| Start of a program | `src/main.cc`, `src/strap.s` | auxiliary vector, environment | `ld_main`, `debug_main`, the jump to the entry point | loading, linking |
| Run-time interface | `src/libdl.cc` | none; a handle is an `ElfManager*` | `my_dlopen`, `my_dlsym`, `my_dlerror`, `my_dlclose` | loading, linking |
| Strings, conversions | `src/strings.cc`, `src/utils.cc` | none | `strcmp`, `strncmp`, `strcat`, `strdup`, `substr`, `getenv`, `ztoa16`, `check_magic`, ... | heap |
| System calls | `src/syscall.cc` | the kernel's | `open`, `close`, `lseek`, `mmap`, `write` | |
| ELF declarations | `src/elf.hh` | none | the records the linker reads | |

How they meet.  `ld_main` builds a manager for the program from its auxiliary
vector, calls `load_dependencies`, which recurses through the libraries and
fills one vector, `loaded`; that vector is copied into `dependencies_` and is
the search list of `link_dependencies`, which recurses again, now through the
symbols.  If the program's own `error_` is clear, `strap.s` jumps to the entry
point.  `debug_main` stops after loading and prints.  `my_dlopen` does what
`ld_main` does, on a manager that is neither `main_` nor `debug_`.  All of it
allocates from a heap on which nothing is ever freed.

What makes each part correct:

- *Loading*: each object once, only what is needed, none entered inside its own
  loading, the program's own libraries first, nobody forgotten, failures
  recorded, an end.
- *One object*: the file of the first directory is read, taken or refused for
  what it is, its bytes lie where its addresses say, and its tables are found.
- *Lookup*: it finds the entry of that name if there is one, and nothing else.
- *Linking*: an object is linked before anything points into it, nothing is
  written where no segment is, the program runs only if its symbols were found,
  an end when the uses have no cycle.
- *Heap and vectors*: blocks never overlap, the lists stay sound in every order
  of pages, what is handed out is zero and stays its owner's, and elements
  survive growth and the sharing of arrays.
- *Start*: the program is run exactly if it was linked and no listing was asked
  for; the process dies in the linker only for a cause.
- *Run-time interface*: a handle is a library that was mapped, or null (that it
  is linked is what one would wish, and is not so); a symbol's address is inside
  the handle's own copy.

PROJECT.json lists the hazards, each at its line, with the properties that
cover it.

## The modules

| Module | Models | Built on |
|---|---|---|
| `Dependencies` | abstract: what loading promises, with no vectors and no recursion | |
| `Loader` | `load_dependencies` and the managers it creates | `ArraySizes`, `Dependencies` |
| `LoaderProofs` | the theorems about `Loader`, and that it implements `Dependencies` | `Loader` |
| `Binding` | abstract: what linking promises, with no tables, no search and no recursion | |
| `Linker` | `link_dependencies` and `patch_relatable` | `Binding` |
| `Arena` | abstract: what the heap promises | |
| `Allocator` | `src/malloc/` | |
| `ArraySizes` | how far a vector's array reaches, as `Loader` takes it | |
| `Vectors` | `Vector` over the heap; the heap implements `Arena` | `Allocator`, `ArraySizes`, `Arena` |
| `ElfFormat` | the records and constants of `elf.hh` the linker reads | |
| `Strings` | `strings.cc` and the conversions of `utils.cc` | `ElfFormat` |
| `SymbolLookup` | `ElfHash` | `Strings` |
| `ElfObject` | one `ElfManager`: search, mapping, checks, segments, lookups | `SymbolLookup` |
| `Process` | `strap.s`, `main.cc`, `libdl.cc`, over loading and linking as they are | `Strings`, instances of `Loader` and `Linker` |
| `StackLemmas` | call stacks that change at their last frame; least elements; sums over finite sets | |
| `LinkerProofs` | the theorems about `Linker`, and that it implements `Binding` | `Linker`, `StackLemmas` |
| `ArraySizesProofs` | what `push_back` makes of a capacity | `ArraySizes` |
| `HeapProofs` | the theorems about `Allocator` and `Vectors`, and that they implement `Arena` | `Vectors`, `ArraySizesProofs` |
| `LookupProofs` | lemmas about strings and the two kinds of hash table | `SymbolLookup` |
| `ElfObjectProofs` | the theorems about `ElfObject` | `ElfObject`, `LookupProofs` |
| `ProcessProofs` | the theorems about `Process`; those about loading and linking carried over | `Process`, `LookupProofs`, instances of `LoaderProofs` and `LinkerProofs` |
| `MCLoader`, `MCLinker`, `MCVectors`, `MCElfObject`, `MCProcess` | finite instances | |

The mutants (`Operator_variant`, each before the operator it varies) are
plausible bugs that the properties must tell from the code.

### Loader

`stack` is the C++ call stack, one record per activation: the manager, the
place in the DT_NEEDED walk, its `to_append` and its loop index.  An action is
one step of an activation: the entry with its early returns (`ReadDynamic`,
`NoDynamic`, `NullHeader`), one DT_NEEDED entry (`NewManager`, `AlreadyViewed`,
`EndOfTable`), one turn of the loop (`Descend`, `EmptySlot`, `WildSlot`) and
the return (`LeaveLoop`).  A manager is its place in `loaded`; number 0 is the
first one.  A file is one of six kinds, which are the outcomes of `load_elf`,
`load_segment` and `get_dynamic_table` that the recursion can tell apart;
`ElfObject` has what leads to them.

A file that is not ELF64 is mapped all the same and its bytes are taken for
headers.  What that leads to is modelled as either no dynamic table or a crash;
bytes that happen to look like a dynamic table are left out.

The loop reads `to_append[i]` for `i` up to the size of `loaded`.  The model
keeps that over-read: within the block `malloc` returned the extra words are
zero and are skipped; past it lies the header of another block, which is not
null, and `status` becomes `wild`.  A block may have up to 14 spare words
because `split_block` leaves small rests alone, so between the two bounds
either may happen.  Both the zeroes and the bounds (module `ArraySizes`) are
assumptions here; `ElementsKept` of `Vectors` checks them against the heap.

`error_` has no initial value in the code.  It is false in `Loader` because
managers are created on fresh heap memory (`HandedOutForGood` of `Vectors`);
the program's own manager lies on the stack, and `Process` lets the byte be
anything.

`dependencies_` of manager 0 is the variable `dependencies`; the other managers
never get one, which `LeaveLoop` says.

### Linker, Binding

Object 0 is the one linked first, 1..N are the managers of the search list in
load order.  A program gives the symbols each library defines, the two tables
of relocations of each object (DT_RELA, DT_JMPREL), the libraries whose
segments were not mapped, and `scope`, the length of the search list: N for
`ld_main`, 0 for `my_dlopen`, whose manager never gets `dependencies_`.
`stack` is again the call stack.  An address is abstracted to the object it is
in and a relocation's target to its slot.  A relocation without a symbol
(`R_X86_64_RELATIVE`) has the empty name, which nobody defines, as in the code.
The type of a relocation is not modelled: only R_SH_NONE changes what the code
does, and addends are not read.  `LinkProvider` recurses into the provider
every time, linked or not, and `entered` counts it: `LinkedOncePerPath` says
that an object is linked exactly once for every path of uses that leads to it,
which is how the work becomes exponential in the depth of the uses.

`Binding` is what all of that comes to.  Its `names` are the slots that are
reached, with the object each resolves to; its `bound` the slots `got` has an
address in; its `verdict` is `status`, with both ways to die taken together.
It knows no order but one: a slot is bound after the slots of the object it
names.

The variable `error` starts with the libraries that could not be mapped, the
only failures that leave symbols to find; the caller reads object 0's alone.
A write through the null `segment_` of an unmapped object is `crashed`.  Object
0 among the unmapped ones is the program whose manager, on the stack, has a
garbage `segment_`: a write through it may hit or miss anything, which is
`wild`, and the model ends there.

`Linked` says of an object that it is as patched as it will ever be.  That is
not all of it: a relocation behind an R_SH_NONE stays unwritten, because
`patch_relatable` returns, and so does one whose symbol nobody defines.

### Allocator, Arena, Vectors

Addresses and sizes are bytes, with the constants of `libmalloc.hh`.  `heap` is
the headers and `struct s_memory`.  One action is one call: `malloc` with
everything it calls (the first call's two `mmap`s, first fit, a new block,
split, unlink), `calloc`, `realloc`, `free`, and `OutOfMemory`, where `mmap`
answers -errno, which `if (block == MAP_FAILED)` does not recognise, and the
code writes there.  For no bytes `malloc` answers null (`NoBlock`), which is what
`strdup` gets for the empty string.  `used` is a history of the bytes that owners or headers may
have written.

`free` returns before it does anything.  What stands behind its `return` is the
operator `FreeBody`, which no action calls: `FreeListSound` says of every
reachable heap what it would do.  It keeps the free list sound, but not the
chain `next_mem` of all blocks: when `mmap` hands out pages below earlier ones,
a merged block takes the wrong neighbour's link.  The early return also hides
that vectors free arrays they share.  Nobody should remove it without looking
at both.

`Arena` is the abstract heap: intervals with an owner and intervals that may
have been written; the only step is to give out one interval nobody has
written to.  `HandedOutForGood` is the refinement.  The mutant that lets `free`
store the block breaks it, as the destructors of shared vectors would.

`Vectors` adds the words of the arrays.  Two vectors are enough: `loaded`,
which grows, and `dependencies_`, to which it is assigned member by member so
that both share an array.

### ElfFormat, Strings, SymbolLookup, ElfObject

A string is the sequence of its characters, a null pointer `<<0>>`.  A loop
over characters is written as the set of places it may stop at and the first of
them.  An `int` that is compared as a `size_t` wraps (`strrpos`).

A hash table is the sequence of its 32-bit words, because that is all there is
when the code casts a pointer to `struct GnuHash`: with DT_HASH and DT_GNU_HASH
both present the flag says GNU and the words are those of DT_HASH, and what is
read then depends on the words alone.  `Wild` is a read behind the tables.
`GnuTable` and `SysvTable` are what a static linker writes, taken from how the
code reads them.

`ElfObject` follows one manager from `find_libpath` to its lookups.  A file is
a record of the header, the program headers (and what follows them, since the
code does not stop at `e_phnum`), the dynamic table, where the tables are, and
their contents; `image` is what the bytes of the segment hold, each an offset
in the file or zero.  `mmap` may fail whenever it is called, another process
may move the file between the probe of `find_libpath` and the `open` of
`load_elf`, descriptors may run out, and `lseek` returns an `int`.

### Process

The words above the initial stack pointer, ld_main's walk over them,
`load_dependencies` (the actions of `Loader`, by INSTANCE), what `ld_main` does
with its result, `link_dependencies` (the actions of `Linker`, on the list that
loading published), and what `strap.s` does with the value returned (`Jump`:
exit if it is 0, jump to it if not).  The entry point is returned as an `int`:
the address or what 32 bits keep of it, as the compiler sees fit.  The listing
is empty unless the build sets `__DEBUG`, which the repository's build sets to
0, so `input.debug` is a case.  `strap.s` exits with 0 where its comment says
exit(1): a caller cannot tell a listing from a failure, and the model does not
tell them apart by code either.

The program's manager lies on main's stack, and its constructor leaves `error_`,
`segment_`, `name_`, `path_` and `hashmgr_` as they are.  `input.garbage` has
the fields that lie on bytes that are not 0: with `error_` among them, `ld_main`
returns 2 and `strap.s` jumps there (`StartMain`); with `segment_`, relocations
are written anywhere (`wild` of `Linker`); with `name_`, `print` reads from
nowhere before the first relocation of the program (`PrintDies`), or gets away
with it.  Nothing reads `path_` or `hashmgr_` of that manager.  `input.pie` is a
position-independent program: `get_dynamic_table` follows the `p_vaddr` of its
headers without the place it was loaded at, and the process dies.

Then the program calls the run-time interface.  The loading and linking inside
one `my_dlopen` are a single step whose outcome is that of `Loader` and
`Linker` for a manager without a search list; `Loader` and `Linker` have the
role of `my_dlopen` among their own cases.  What a file needs is a list of
files that need no others.  One that is missing or short, or for which no
descriptor is left, ends the process; so does, perhaps, one with a garbage
header, or more of them than a minimal block has slots; and surely more than
the largest block has (`LoadMayDie`, `LoadMustDie`).  `my_dlclose` does nothing,
so descriptors run out and the process dies in a later `my_dlopen`.

A handle was linked against an empty list.  `HandleNeverLinked` says what that
leaves: not one symbol of it was looked up, so all its relocations lie at or
behind an R_SH_NONE and are unbound.  What its needs were, beyond that a file
with a header was opened for each, the handle does not tell: one with a single
PT_LOAD or no dynamic table passes.

## The runs

| Run | Instance | Shows |
|---|---|---|
| `loader_graphs` | program with up to 3 DT_NEEDED, 3 libraries with up to 2, good files, all callers | `TypeOK`, `NoDuplicateLoads`, `OnlyWhatIsNeeded`, `NoObjectReentered`, `NobodyForgotten`, `LearnsOnDemand` (the refinement of `Dependencies`), `LoadingEnds` |
| `loader_files` | 2 libraries, every kind of file; stars and chains of 8 and 9 libraries | `FailuresAreRecorded`, `LinkerSeesOpenedFiles`, `SmallLoadsStayInBlock` |
| `linker_programs` | 3 libraries, 2 symbols in every assignment, one or both tables, R_SH_NONE, RELATIVE, an unmapped library, a program with a garbage `segment_`, the empty search list | `TypeOK`, `ProvidersLinkedFirst`, `NoReentry`, `UnmappedBindsNothing`, `LinkedOncePerPath`, `BindsProvidersFirst`, `AcyclicLinkingEnds` |
| `heap` | 4 pages in any order, a vector of up to 8 elements that moves three times, its copy, four other sizes with 0 among them, 5 blocks handed out | `VectorTypeOK`, `BlocksDisjoint`, `FreeListSound`, `EveryBlockIsChained`, `ElementsKept`, `HandedOutForGood` (the refinement of `Arena`) |
| `object` | pages of 4 bytes, files of up to 44, 16 layouts of headers, all sets of directories, 3 descriptors; every table of up to 3 names over 6, hashes of 3 bits, 1 or 2 buckets, every choice of tables | `TypeOK`, `ImageFaithful`, `TablesFound`, `FindsWhatIsThere`, `JudgedByIdentAndInt`, `GoodIsUsable`, `FirstDirectoryWins` |
| `process` | a program and 2 libraries, 20 graphs with chains, diamonds, cycles and a name listed twice, every kind of file, every assignment of 2 symbols; 10 environments, 3 argument lists, garbage in every field that is read, position-independent programs; 4 calls of the interface over 10 names, with needs of every kind and up to 23 of them, 28 descriptors | `TypeOK`, `ListedWhenAsked`, `JumpsToEntry`, `ListingReadsBack`, `NeedOrderWins`, `KilledForCause`, `HandleNeverLinked`, `SymbolInItsCopy`, `HandsOver` |

Where the code and what the repository says of it differ, a run exhibits it:

| Run | The code | The repository |
|---|---|---|
| `loader_closure` | a name seen before ends the DT_NEEDED walk, and the names after it are lost | TODO: "Map recusrive dependencies", done |
| `loader_manylibs` | with nine libraries the loop over `to_append` leaves its block | the same |
| `loader_missing` | a library that cannot be opened ends in a null pointer | "Unable to open the file", `error_ = 2` |
| `linker_missing` | a symbol missing in a library does not stop the program | "Unable to link some symbols" |
| `linker_loop` | libraries that use one another recurse without end | TODO: "Perform rels", done; the test of it is switched off |
| `linker_dlopen` | `my_dlopen` links against an empty list | TODO: "Support dl_open", done |

Some passing properties state behaviour that a reader may not expect: a GNU
table hides the names whose hash is 0 or 1, because of an `=` for a `==`
(`FindsWhatIsThere`); a library of 2 GiB is refused and one for another machine
is not (`JudgedByIdentAndInt`); a variable whose name is a prefix of
LD_TRACE_LOADED_OBJECTS may answer for it (`ListedWhenAsked`); `my_dlsym`
answers an unknown symbol with the base of the library (`SymbolInItsCopy`); and
a handle is a library whose relocations were all skipped (`HandleNeverLinked`).

Bounds.  Three libraries are enough for a cycle beside the program, a diamond,
a walk that is cut in the middle and an entry lost after it; nine pass the
eight words of a minimal block.  In `Linker`, three libraries have chains,
cycles of two and three, duplicates and interposition; `StackLimit` is two more
than the libraries, so that every run without a cycle has room and every run
with one reaches the limit.  In the heap, a vector that moves three times
outgrows the minimal block; the other sizes fill a page in different ways (one
leaves a rest too small to split) or need more than a page; four page addresses
allow a block below, between and above the ones before; `MaxCalls` bounds the
blocks handed out.  In `ElfObject`, `IntMod` 32 makes 20 and 38 sizes that an
int gets wrong; three names in two buckets give chains of one, two and three
and an empty bucket; three bits of hash give the names that hash to 0 and 1.
In `Process`, 28 descriptors and four calls let a program run out of them, with
a file of nine needs, which passes a minimal block, and one of 23, which passes
every block;
`IntMod` 256 has the entry points 40, 300 and 512, of which an int keeps the
first, a part of the second, and 0 of the third.

Fairness.  `LoadingEnds`, `AcyclicLinkingEnds` and `HandsOver` assume weak
fairness of the whole next-state relation (of the linker's part of it in
`Process`): a running single-threaded program takes its next step.  Nothing is
assumed about which, nor about what the program does once it runs.

A system that has stopped stutters (`Stopped`, `AtRest`), so deadlock is
checked everywhere: a state without a step would be a case of the code that the
model forgot.

## The proofs

Each `...Proofs` module proves theorems about every value of the constants that
the named assumptions of its component allow (`LoaderAssumption` and so on);
TLC evaluates those assumptions on the instances.  A theorem of the form
`Spec => []Inv` rests on an invariant that the initial states satisfy and every
step keeps, and the step's proof has one case per action.

Induction.  The provers have no induction over data.  Instead, a set of numbers
that is not empty has a least one (`LeastNumber` of `StackLemmas`, since strict
inclusion of finite sets is well founded), and the least place where a
statement fails carries every argument that would be an induction.  A recursive
function, which in TLA+ is a CHOOSE, is first shown to exist up to every number
and then as a whole (`ArraySizesProofs`, `PointersEnd`, `SomeReading`,
`SomePrinting`).  A sum over a finite set is such a function too, of subsets:
`StackLemmas` shows that it exists (`SumExists`), that one element can be taken
out of it (`SumWithout`), and from these what it does when one summand changes
(`SumChange`) or two sets are joined (`SumUnion`).

### Loading (`LoaderProofs`)

Every set of libraries, every graph of DT_NEEDED lists, every kind of file and
every caller.

- `TypeCorrect`: `TypeOK`, which includes that activations name managers that
  exist.  Inductive as it stands.
- `NoObjectLoadedTwice`, `NoObjectEnteredTwice`: `NoDuplicateLoads` and
  `NoObjectReentered` are not inductive.  `OrderInv` adds that `viewed` and
  `loaded` always hold the same names, and that every activation's pending
  managers are newer than it, and newer than those it has already descended
  into: with indices that grow along the stack no object can come back.
- `NobodyIsForgotten`: `CoverInv` says of every manager that its walk was
  either noted or is still owed: some activation is about to start it, or holds
  it in the part of `to_append` that its loop has not reached.
- `LinkerSeesNoUnopenedFile`, `NoFailureUnrecorded`: `FileInv` ties the walks
  that were noted and the `error_` that are set to the kind of the file.
- `LoaderRefinesDependencies`: with `TypeOK` and `OrderInv` every step of
  `Loader` is a `Learn`, a `Finish` or a stutter of `Dependencies`.
- `NothingLoadedInVain`: `OnlyWhatIsNeeded`, proved of the abstract module's
  steps and carried over by the refinement.
- `FewLibrariesStayInBlock`: `SmallLoadsStayInBlock`.  `ArraySizesProofs` shows
  that the capacity after `n` calls of `push_back` is more than `n`, which with
  the minimal block puts every index of a small load inside the block.
- `DirectNeedsComeFirst`: `loaded` starts with what the first object itself
  names, up to the first repeated name (`RootInv`), because its whole list is
  walked before the recursion begins.  No run checks it by itself;
  `NeedOrderWins` of `Process` rests on it.

### Linking (`LinkerProofs`)

Every number of libraries, every table of relocations, whatever is missing,
unmapped or cyclic.  The invariant says of each activation what it has bound so
far and that the one above it links what its relocation names (`StackInv`), of
the activation that goes on that its provider is linked (`TopInv`), of each
written slot where it points and that its object is linked or on the stack
(`SlotInv`), and what is true when linking ends (`EndInv`).

- `TypeCorrect`, `ProvidersFirst`, `AcceptedBound` and `UnmappedUnbound` follow
  from it.  No run checks `AcceptedIsBound` by itself:
  the verdict of `Binding` includes it.
- `NeverReentered`: two activations of one object would be a cycle of uses,
  closed along the stack (`LoopIsCycle`).
- `AcyclicFits`: then the objects on the stack are distinct, and by the
  pigeonhole principle a stack of one activation per object is enough.  The
  hypothesis is what `linker_loop` shows to be needed.
- `LinkedPerPath`: `LinkedOncePerPath` speaks only of the end, so `CountInv`
  balances the books at every step: the times a library was linked, and the
  slots naming it that the activations on the stack have still to reach
  (`Owed`), are together one per such slot of every activation there has been.
  A call moves one slot from the second to the first; a new activation adds its
  whole object to both sides; one that returns owes nothing.
- `LinkerRefinesBinding`: a write into a slot that held nothing is a `Bind`, the
  return of the outermost activation a `Judge`, an overflow or a write through
  a null `segment_` a `Die`; every other step is a stutter, linking an object
  once more included.  Three facts beyond the invariant carry it: the objects on
  the stack are used by the first one (`StackInUse`, along the stack), the
  objects that are linked at the end are closed under use (`JudgeMaps`), and
  `error_` of the first object is set for a symbol of its own (`ErrorInv`).

### One object (`ElfObjectProofs`)

Every file, page size, set of directories and number of descriptors, with
`mmap` failing and files moving at will.

- `ObjectTypes`, `JudgedByIdent`, `GoodUsable`: `StageInv` ties the flags of a
  manager to how far `load_elf` and `load_segment` have got, and a segment to a
  PF_W in one of the two headers it was mapped from.
- `FirstDirectory`: `SearchInv` and `FdInv`.
- `FaithfulImage`: about the two mappings and the zeroing after them, for all
  sizes of the two segments.  `TablesReached`: the pointer lies in the mapped
  file, not in the segment, and only tables with the bias of the first header are
  spoken of.
- `LookupsFind`: through both hash tables, whatever the number of buckets and
  symbols.  It is about tables that a static linker wrote (`WrittenTogether`:
  no name twice, the symbols of a GNU table in the order of their buckets,
  those before them without a value), since of other words nothing could be
  promised; TLC evaluates that hypothesis for every table of `MCElfObject`
  (`TablesAreWritten`).

### Heap and vectors (`HeapProofs`)

Every word, header and page size with `AllocatorAssumption`, every order of
pages and every sequence of calls.

- `IInv` describes the heap by sets: what the blocks are, which are free, and
  that the pointers lead from each to the next in address order or in order of
  creation (`Good`).  That the recursive walks along the pointers end where the
  sets say is `PointersEnd`.
- `BlocksApart` and `BlocksChained` follow, and so does half of
  `FreeListIsSound`: that the free list is sorted, doubly linked and complete.
- The other half is about the body of `free` behind its `return`:
  `store_free_block` and `merge_block` on the list and any block handed out.
  After the first the list is in order with one block more (`StoreFacts`).  The
  two walks of `merge_block` stop at the ends `a` and `z` of a run of blocks
  that touch (`BacksStop`, `AheadsRun`, `MergeFacts`); the joined list is linked
  and laid out as it should be (`JoinedLinked`, `JoinedLaid`), is what a walk
  along the pointers meets (`WayVisitsList`), and holds as many bytes as before
  (`JoinedBytes`, a sum that telescopes along the run).
- `HeapIsArena`: every call is a `Give` of `Arena` or a stutter.
- `VectorTypes`, `ElementsStay`: `VInv` says that a vector whose contents may
  be read holds its elements and zeroes after them, and that one which may
  still grow shares its array with nobody.  `ElementsStay` includes the length
  of the block that `Loader` reckons with, and so assumes the sizes of an
  x86-64 build (word 8, header 48, smallest block 64).

### A process (`ProcessProofs`)

Every program that the kernel may start (`Startable`: any argument list,
environment, auxiliary vector and graph of libraries) and every disk.  A step
of loading or linking is a step of module `Loader` or `Linker`
(`LoadingIsLoader`, `LinkingIsLinker`), so that their invariants hold of the
two stages; `LoaderAssumed` and `LinkerAssumed` show their assumptions.

- `TypeCorrect`: descriptors never exceed those a process has, and every answer
  names a handle there is.
- `JumpsWhereItShould`: from what ld_main's walk finds in the words above the
  stack pointer (`WordsAre`, `AuxvRead`).
- `ListedAsAsked`: what `getenv`, `strpos`, `strncmp` and `strcmp` compute is
  what the environment asks for, except where one variable's name is a prefix
  of another's (`TracedIsAsked`).
- `PrintedIsTrue`: what `ztoa16` prints of a number reads back as that number,
  for every number (`PrintsBack`).
- `DeathsHaveCauses`: each phase a process can die in has its own causes.
  Loading: a null or garbage header is that of a loaded library's file
  (`CrashInv` of `LoaderProofs`), and a wild slot lies past a minimal block
  (`FewLibrariesStayInBlock`).  Linking: an overflow is a cycle (`AcyclicFits`),
  and a bad write that of an object without a segment (`VerdictInv` of
  `LinkerProofs`; `WritesNowhere`).  After it: the file opened last, its needs
  and the descriptors say why, since nothing changes once the process is dead.
  The hypothesis is a stack with room for one activation per library.
- `NeededFirstWins`: `DirectNeedsComeFirst` and the first definer that
  `get_symbol_address` finds.
- `HandlesNeverLinked`, `AnswersLieApart`: for every sequence of calls of the
  run-time interface; through `strrpos` and `strcat` for every file name.

`ProcessAssumption` demands three descriptors that are always open, one for the
file that is listed and one for each library, so that a run out of descriptors
happens in `my_dlopen`; a library that no descriptor is left for is one of kind
"missing".

### Model-checked only

- `LoadingEnds`, `AcyclicLinkingEnds` and `HandsOver`: liveness.
- What the runs of the second table show to be violated.

## Not modelled

- `printf`, `count_args` and the variadic helpers, `read`, `exit` and `mremap`
  of `syscall.cc`: never called.  `munmap` is never reached: the
  program's own manager is the only one destroyed, and `unload` skips the
  mapping of a manager with `main_` set.
- `loader.s`: no build file names it.  The bloom filter of `elf-hash.cc`:
  compiled out (USE_BLOOM 0).
- What `elf.hh` declares for other machines, sections, notes, versions and core
  files: most of the file, and nothing of it is used.
- The texts of messages: `print` and `show_dependencies` are modelled by which
  lines they print and the addresses in them.
- The exit code, which is 0 however the linker ends.
- Sizes near 2^64, which wrap in `align`: no caller has them.
- A file whose words are not an ELF file's but look like headers.
- What a process does after it has gone `wild`, whether at a garbage slot of
  `to_append` or by a write through a garbage `segment_`.
- A DT_NEEDED with the empty name, whose manager would have a null `name_`; and,
  in `Process`, needs of needs of a file that `my_dlopen` opens, which `Loader`
  has.
- `my_ldd`, a shell loop that sets LD_TRACE_LOADED_OBJECTS, and the copies of
  the allocator and the strings in `tests/custom_libs`.

## Plan

Every part of the linker has its module, and every safety property that a
passing run checks has its theorem.  What is left to the runs is liveness: that
loading ends, that linking without a cycle of uses ends, and that the process
then hands over.

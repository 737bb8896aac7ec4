------------------------------ MODULE Process ------------------------------
(***************************************************************************)
(* A process, from the linker's first instruction to the program's calls   *)
(* of the run-time interface: src/strap.s and src/main.cc, which run the   *)
(* loading of module Loader and then the linking of module Linker on what  *)
(* it published, and src/libdl.cc.                                         *)
(*                                                                         *)
(* The words above the initial stack pointer are records: a number, which  *)
(* is the address if the word points to a string, and that string.         *)
(***************************************************************************)
EXTENDS Strings, FiniteSets

CONSTANTS
  Lib, Root,              \* as in Loader
  Sym, NONE, RELATIVE,    \* as in Linker
  StackLimit,
  Cases,        \* what a process can be started from
  TraceName,    \* "LD_TRACE_LOADED_OBJECTS"
  TraceOn,      \* "1"
  IntMod,       \* 2^32: what an int return value keeps of an address
  SegmentSize,  \* distance of the segments mmap returns
  MaxFds,       \* descriptors a process may have
  Disk,         \* the files my_dlopen may find, a function from paths
  FileNames,    \* the arguments of my_dlopen
  MaxCalls      \* bound on the calls of the run-time interface

VARIABLES
  input,    \* the case: arguments, environment and auxiliary vector; is the
            \* build one that prints; the fields of main's manager that lie
            \* on bytes that are not 0; is the program position-independent;
            \* the objects' definitions and relocations; may the program
            \* call my_dlopen
  env,      \* ld_main's environment
  entry,    \* and the entry point of the program
  pc,       \* start, load, link, program, exited or killed
  jump,     \* where strap.s jumped to, 0 if it did not
  out,      \* what was printed
  fds,      \* the number of open descriptors
  handles,  \* the managers my_dlopen has returned
  reply,    \* the last call of the run-time interface and its answer
  calls,    \* the number of those calls
  needed, file, role, loaded, viewed, error, dependencies, loading, load,
  scan,                                  \* of Loader
  prog, got, unresolved, linking, entered, link   \* of Linker

loaderVars == <<needed, file, role, loaded, viewed, error, dependencies,
                loading, load, scan>>
linkerVars == <<prog, got, unresolved, linking, entered, link>>
apiVars == <<handles, reply, calls>>
found == <<input, env, entry>>
vars == <<found, pc, jump, out, fds, apiVars, loaderVars, linkerVars>>

Loading == INSTANCE Loader
             WITH stack <- loading, status <- load,
                  Graphs <- {}, Files <- {}, Roles <- {"main", "debug"}
Linking == INSTANCE Linker
             WITH stack <- linking, status <- link, error <- unresolved,
                  N <- Cardinality(Lib), Programs <- {}

\* What execve and a static linker make: the auxiliary vector has its end and,
\* before it, the place of the program headers; the tables name symbols; and
\* the kernel has read the program, if there is one.  A library that no
\* descriptor is left for is missing: MaxFds has room for the others.
Startable(c) ==
  LET object == Lib \cup {Root}
      Types(n) == {c.aux[k] : k \in {j \in 1..n : j % 2 = 1}}
  IN  /\ c.args \in Seq(String) /\ c.env \in Seq(String) /\ c.aux \in Seq(Nat)
      /\ Len(c.args) > 0
      /\ \A k \in DOMAIN c.aux : k % 2 = 1 => c.aux[k] \in AuxType
      /\ \E k \in DOMAIN c.aux : k % 2 = 1 /\ c.aux[k] = AT_NULL
      /\ \E k \in DOMAIN c.aux :
           /\ k % 2 = 1 /\ c.aux[k] = AT_PHDR /\ c.aux[k + 1] # 0
           /\ Types(k - 1) \cap {AT_NULL, AT_PHDR} = {}
      /\ {c.debug, c.pie, c.api} \subseteq BOOLEAN
      /\ c.garbage \subseteq {"error_", "segment_", "name_"}
      /\ c.pie => c.file[Root] = "good"
      /\ c.needed \in [object -> Seq(Lib)]
      /\ c.file \in [object -> Loading!AnyFileKind]
      /\ Len(c.args) # 2 => c.file[Root] \in {"good", "nodynamic"}
      /\ c.defs \in [object -> SUBSET Sym]
      /\ c.table \in [object -> [1..2 -> Seq(Sym \cup {NONE, RELATIVE})]]

ASSUME ProcessAssumption ==
  /\ Root \notin Lib /\ IsFiniteSet(Lib)
  /\ {NONE, RELATIVE} \cap Sym = {} /\ NONE # RELATIVE
  /\ {IntMod, SegmentSize, StackLimit} \subseteq Nat \ {0}
  /\ {MaxFds, MaxCalls} \subseteq Nat /\ MaxFds >= Cardinality(Lib) + 4
  /\ {TraceName, TraceOn} \subseteq String \ {<<>>}
  /\ Positions(TraceName, Equals) = {}
  /\ \A c \in Cases : Startable(c)

-----------------------------------------------------------------------------
\* The words above argc.
Null == [number |-> 0, text |-> <<>>]
Pointer(s) == [number |-> 1, text |-> s]
Number(n) == [number |-> n, text |-> <<>>]
Words == [i \in DOMAIN input.args |-> Pointer(input.args[i])] \o <<Null>> \o
         [i \in DOMAIN input.env |-> Pointer(input.env[i])] \o <<Null>> \o
         [i \in DOMAIN input.aux |-> Number(input.aux[i])]

NullFrom(argv) == FirstOf({k \in argv..Len(Words) : Words[k].number = 0})

get_env(argv) == NullFrom(argv) + 1

\* Mutant: the environment is not skipped.
get_auxv_env(argv) == NullFrom(argv) + 1

get_auxv(argv) == NullFrom(NullFrom(argv) + 1) + 1

\* Mutant: words are taken for entries.
read_auxv_words(auxv, type) ==
  LET at == FirstOf({k \in auxv..Len(Words) :
                       Words[k].number \in {AT_NULL, type}})
  IN  IF Words[at].number = AT_NULL THEN 0 ELSE Words[at + 1].number

\* The value of the first entry of this type, null if there is none.
read_auxv(auxv, type) ==
  LET at == FirstOf({k \in auxv..Len(Words) :
                       /\ (k - auxv) % 2 = 0
                       /\ Words[k].number \in {AT_NULL, type}})
  IN  IF Words[at].number = AT_NULL THEN 0 ELSE Words[at + 1].number

\* The strings from a word to the next null.
StringsFrom(first) ==
  [i \in 1..NullFrom(first) - first |-> Words[first + i - 1].text]

Traced ==
  LET trace_loaded == getenv(env, TraceName)
  IN  trace_loaded # NullString /\ strcmp(trace_loaded, TraceOn) = 0

\* write does nothing unless __DEBUG is defined and not 0.
write(text) == IF input.debug THEN Append(out, text) ELSE out

\* print, fputs: the whole text, in one or more writes to one descriptor.
print(text) == write(text)

\* What unload leaves open: the descriptor of a manager that has one is
\* closed.  The program's own manager has none, nor a mapping.
unload(open, fd_) == IF fd_ >= 0 THEN open - 1 ELSE open

-----------------------------------------------------------------------------
Segment(m) == SegmentSize * m
Opened(m) == file[loaded[m]] # "missing"
Mapped(m) == file[loaded[m]] \in {"good", "nodynamic"}

\* show_dependencies: a line per manager, with the path if it is open.
Listing ==
  [m \in 1..Len(dependencies) |->
     [tag |-> "library", of |-> dependencies[m],
      at |-> ztoa16(IF Mapped(m) THEN Segment(m) ELSE 0)]]
show_dependencies == IF input.debug THEN out \o Listing ELSE out

\* The objects as the linker sees them: those without a dynamic table define
\* and use nothing, those with one PT_LOAD have no segment, and the segment_ of
\* the program's own manager may be any.
HasTables(name) == file[name] \in {"good", "oneload"}
Linkable ==
  [defs |-> [k \in 1..Cardinality(Lib) |->
               IF k <= Len(dependencies) /\ HasTables(dependencies[k])
                 THEN input.defs[dependencies[k]] ELSE {}],
   table |-> [k \in 0..Cardinality(Lib) |->
                IF k = 0 /\ HasTables(Root) THEN input.table[Root]
                ELSE IF k \in 1..Len(dependencies) /\ HasTables(dependencies[k])
                  THEN input.table[dependencies[k]] ELSE <<<<>>, <<>>>>],
   unmapped |-> {k \in 0..Len(dependencies) :
                   IF k = 0 THEN "segment_" \in input.garbage
                   ELSE file[dependencies[k]] = "oneload"},
   scope |-> Len(dependencies)]
NoProgram ==
  [defs |-> [k \in 1..Cardinality(Lib) |-> {}],
   table |-> [k \in 0..Cardinality(Lib) |-> <<<<>>, <<>>>>],
   unmapped |-> {}, scope |-> 0]

Init ==
  /\ input \in Cases
  /\ env = <<>>
  /\ entry = 0
  /\ pc = "start"
  /\ jump = 0
  /\ out = <<>>
  /\ fds = 3
  /\ handles = <<>>
  /\ reply = [call |-> "none", handle |-> 0, name |-> <<>>, value |-> 0]
  /\ calls = 0
  /\ needed = input.needed
  /\ file = input.file
  /\ role = IF Len(input.args) = 2 THEN "debug" ELSE "main"
  /\ loaded = <<>> /\ viewed = <<>> /\ error = {} /\ dependencies = <<>>
  /\ loading = <<Loading!Activation(0)>>
  /\ load = "running"
  /\ scan = [o \in Lib \cup {Root} |-> "no"]
  /\ prog = NoProgram
  /\ got = [s \in {} |-> 0]
  /\ unresolved = {}
  /\ linking = <<>>
  /\ entered = [o \in Linking!Object |-> 0]
  /\ link = "linking"

\* strap.s after ld_main: exit if rax is 0, or jump to where it points.
Jump(rax, there) ==
  /\ jump' = rax
  /\ pc' = IF rax = 0 THEN "exited" ELSE there

\* ld_main with two words in argv: debug_main reads the file argv[1] names;
\* if its manager is no good that is the end.
StartDebug ==
  /\ pc = "start"
  /\ role = "debug"
  /\ fds' = IF file[Root] = "missing" THEN fds ELSE fds + 1
  /\ pc' = IF file[Root] \in {"good", "nodynamic"} THEN "load" ELSE "exited"
  /\ UNCHANGED <<found, jump, out, apiVars, loaderVars, linkerVars>>

\* ld_main: the manager of the program lies on the stack, and its constructor
\* leaves error_, path_, name_, hashmgr_ and segment_ as they are (nothing
\* reads its path_ or hashmgr_).  It is good unless the byte of error_ is not
\* 0; then 2 is returned and strap.s jumps there.  Loading follows a null
\* header without AT_PHDR, and the p_vaddr of a position-independent program,
\* which is no address before it is relocated.
StartMain ==
  /\ pc = "start"
  /\ role = "main"
  /\ IF "error_" \in input.garbage THEN Jump(2, "killed")
     ELSE /\ pc' = IF read_auxv(get_auxv(1), AT_PHDR) = 0 \/ input.pie
                     THEN "killed" ELSE "load"
          /\ UNCHANGED jump
  /\ env' = StringsFrom(get_env(1))
  /\ entry' = read_auxv(get_auxv(1), AT_ENTRY)
  /\ UNCHANGED <<input, out, fds, apiVars, loaderVars, linkerVars>>

LoadStep ==
  /\ pc = "load" /\ load = "running"
  /\ Loading!Next
  /\ UNCHANGED <<found, pc, jump, out, fds, apiVars, linkerVars>>

LoadDies ==
  /\ pc = "load" /\ load \in {"crashed", "wild"}
  /\ pc' = "killed"
  /\ UNCHANGED <<found, jump, out, fds, apiVars, loaderVars, linkerVars>>

FdsLoaded == fds + Cardinality({m \in 1..Len(loaded) : Opened(m)})

\* The list is printed, for my_ldd or because argc was 2, and strap.s exits.
Listed ==
  /\ pc = "load" /\ load = "done"
  /\ role = "debug" \/ Traced
  /\ pc' = "exited"
  /\ out' = show_dependencies
  /\ fds' = IF role = "main" THEN unload(FdsLoaded, -1) ELSE FdsLoaded
  /\ UNCHANGED <<found, jump, apiVars, loaderVars, linkerVars>>

\* link_dependencies is called on what load_dependencies published; error_
\* of every manager is as loading left it.
StartLinking ==
  /\ pc = "load" /\ load = "done"
  /\ role = "main" /\ ~Traced
  /\ pc' = "link"
  /\ fds' = FdsLoaded
  /\ prog' = Linkable
  /\ got' = [s \in Linking!SlotsOf(Linkable) |-> 0]
  /\ unresolved' = error
  /\ linking' = <<Linking!Activation(0)>>
  /\ entered' = [entered EXCEPT ![0] = 1]
  /\ link' = "linking"
  /\ UNCHANGED <<found, jump, out, apiVars, loaderVars>>

LinkStep ==
  /\ pc = "link" /\ link = "linking"
  /\ Linking!Next
  /\ UNCHANGED <<found, pc, jump, out, fds, apiVars, loaderVars>>

\* print takes the length of name_ before each relocation of the program, in
\* every build, as __DEBUG is defined to be 0: a name_ that was never set may
\* point nowhere.
PrintDies ==
  /\ pc = "link" /\ Linking!Running("resolve")
  /\ Linking!top.obj = 0 /\ Linking!top.k <= Len(Linking!Relocs)
  /\ "name_" \in input.garbage
  /\ pc' = "killed"
  /\ UNCHANGED <<found, jump, out, fds, apiVars, loaderVars, linkerVars>>

LinkDies ==
  /\ pc = "link" /\ link \in {"overflow", "crashed", "wild"}
  /\ pc' = "killed"
  /\ UNCHANGED <<found, jump, out, fds, apiVars, loaderVars, linkerVars>>

\* Mutant: linking is tried again.
Refused_again ==
  /\ pc = "link" /\ link = "refused"
  /\ link' = "linking"
  /\ linking' = <<Linking!Activation(0)>>
  /\ UNCHANGED <<found, pc, jump, out, fds, apiVars, loaderVars,
                 prog, got, unresolved, entered>>

\* "[ERROR] Unable to link some symbols": 0 is returned, strap.s exits.
Refused ==
  /\ pc = "link" /\ link = "refused"
  /\ pc' = "exited"
  /\ out' = print([tag |-> "error", of |-> Root, at |-> <<>>])
  /\ UNCHANGED <<found, jump, fds, apiVars, loaderVars, linkerVars>>

\* The entry point is returned as an int: rax is the address, or what 32
\* bits keep of it.
Accepted ==
  /\ pc = "link" /\ link = "accepted"
  /\ \E rax \in {entry, entry % IntMod} :
       Jump(rax, IF rax = entry THEN "program" ELSE "killed")
  /\ out' = print([tag |-> "jump", of |-> Root, at |-> ztoa16(entry)])
  /\ UNCHANGED <<found, fds, apiVars, loaderVars, linkerVars>>

-----------------------------------------------------------------------------
Slash == 47
DotSlash == <<46, 47>>

\* Names are shorter than memory; a directory is no library; a library needs
\* a list of files; relocations name symbols; and the symbols of a library lie in its segment.
ASSUME DiskAssumption ==
  /\ \A f \in FileNames : f \in String /\ Len(f) + 1 < SizeMod
  /\ \A path \in DOMAIN Disk :
       /\ Disk[path].kind = "good" => path # DotSlash
       /\ Disk[path].needs \in Seq(Loading!AnyFileKind)
       /\ \A t \in 1..2 : Disk[path].table[t] \in Seq(Sym \cup {NONE, RELATIVE})
       /\ \A sym \in DOMAIN Disk[path].symbols :
            Disk[path].symbols[sym] \in 0..SegmentSize - 1

\* The path and the name my_dlopen makes of its argument: the name is what
\* follows the last slash and the slash.
Path(filename) ==
  IF strrpos(filename, Slash) > Len(filename)
    THEN strcat(DotSlash, filename) ELSE filename
LibName(filename) ==
  LET rpos == strrpos(filename, Slash)
  IN  IF rpos > Len(filename) THEN filename
      ELSE SubSeq(filename, rpos + 1, Len(filename))

\* mmap: a place of its own for the segments of a new manager.
NewSegment == Segment(Len(loaded) + calls + 1)

Calling == pc = "program" /\ input.api /\ calls < MaxCalls
Found(path) == path \in DOMAIN Disk /\ fds < MaxFds
Answer(call, handle, name, value) ==
  /\ reply' = [call |-> call, handle |-> handle, name |-> name, value |-> value]
  /\ calls' = calls + 1

\* No manager is made, or one that cannot be read: its descriptor stays.
my_dlopen_unread(filename) ==
  LET path == Path(filename)
  IN  /\ Calling
      /\ Found(path) => Disk[path].kind # "good"
      /\ fds' = IF Found(path) THEN fds + 1 ELSE fds
      /\ Answer("dlopen", 0, filename, 0)
      /\ UNCHANGED <<found, pc, jump, out, handles, loaderVars,
                     linkerVars>>

\* load_lib opens what the library needs, libraries that need no others.
Needs(path) == Disk[path].needs

\* Mutant: the descriptor of the library itself is not counted.
NeedsOpen_self(path) ==
  /\ \A k \in DOMAIN Needs(path) : Needs(path)[k] \notin {"missing", "short"}
  /\ fds + Len(Needs(path)) <= MaxFds

\* Mutant: a library that could not be mapped is followed as if unread.
NeedsOpen_mapped(path) ==
  /\ \A k \in DOMAIN Needs(path) :
       Needs(path)[k] \notin {"missing", "short", "oneload"}
  /\ fds + 1 + Len(Needs(path)) <= MaxFds

\* All of them could be opened, with a header to read.
NeedsOpen(path) ==
  /\ \A k \in DOMAIN Needs(path) : Needs(path)[k] \notin {"missing", "short"}
  /\ fds + 1 + Len(Needs(path)) <= MaxFds

\* The loop over the managers loaded so far, in one that needs none itself,
\* gets past that many slots of its empty to_append.
LoopsPast(path, slots) ==
  /\ Len(Needs(path)) > slots
  /\ \E k \in DOMAIN Needs(path) : Needs(path)[k] \in {"good", "oneload"}

\* What may, and what must, end the process in load_dependencies: a garbage
\* header and the word behind a minimal block only may; a null header and the
\* word behind the largest unsplit block must.
LoadMayDie(path) ==
  \/ ~NeedsOpen(path)
  \/ \E k \in DOMAIN Needs(path) : Needs(path)[k] = "badmagic"
  \/ LoopsPast(path, Loading!MinSlots)
LoadMustDie(path) ==
  \/ ~NeedsOpen(path)
  \/ LoopsPast(path, Loading!MinSlots + Loading!UnsplitSlack)

\* Linked against its own, empty, list: any relocation up to an R_SH_NONE is
\* an error.
LinksAlone(path) ==
  \A t \in 1..2 : Disk[path].table[t] # <<>> => Disk[path].table[t][1] = NONE

\* load_dependencies goes astray, as in module Loader: a library that is needed
\* has no header, for want of a descriptor too, or a garbage one, or there are
\* more of them than a block has slots.
my_dlopen_dies(filename) ==
  LET path == Path(filename)
  IN  /\ Calling
      /\ Found(path) /\ Disk[path].kind = "good"
      /\ LoadMayDie(path)
      /\ pc' = "killed"
      /\ Answer("dlopen", 0, filename, 0)
      /\ UNCHANGED <<found, jump, out, fds, handles, loaderVars,
                     linkerVars>>

\* Mutant: operator bool is not asked again after linking.
my_dlopen_unlinked(filename) ==
  LET path == Path(filename)
      m == Len(handles) + 1
  IN  /\ Calling
      /\ Found(path) /\ Disk[path].kind = "good"
      /\ ~LoadMustDie(path)
      /\ fds' = fds + 1 + Len(Needs(path))
      /\ handles' = Append(handles, [lib |-> path, name |-> LibName(filename),
                                     segment |-> NewSegment])
      /\ Answer("dlopen", m, filename, 0)
      /\ UNCHANGED <<found, pc, jump, out, loaderVars, linkerVars>>

\* Mutant: a file that is already open is not mapped again.
my_dlopen_shared(filename) ==
  LET path == Path(filename)
      m == Len(handles) + 1
      linked == LinksAlone(path)
  IN  /\ Calling
      /\ Found(path) /\ Disk[path].kind = "good"
      /\ ~LoadMustDie(path)
      /\ fds' = fds + 1 + Len(Needs(path))
      /\ handles' = IF linked
                      THEN Append(handles, [lib |-> path,
                                            name |-> LibName(filename),
                                            segment |-> Segment(Len(loaded) + 1)])
                      ELSE handles
      /\ Answer("dlopen", IF linked THEN m ELSE 0, filename, 0)
      /\ UNCHANGED <<found, pc, jump, out, loaderVars, linkerVars>>

\* A manager is made, loaded and linked; it is the handle, or null.
my_dlopen(filename) ==
  LET path == Path(filename)
      m == Len(handles) + 1
      linked == LinksAlone(path)
  IN  /\ Calling
      /\ Found(path) /\ Disk[path].kind = "good"
      /\ ~LoadMustDie(path)
      /\ fds' = fds + 1 + Len(Needs(path))
      /\ handles' = IF linked
                      THEN Append(handles, [lib |-> path,
                                            name |-> LibName(filename),
                                            segment |-> NewSegment])
                      ELSE handles
      /\ Answer("dlopen", IF linked THEN m ELSE 0, filename, 0)
      /\ UNCHANGED <<found, pc, jump, out, loaderVars, linkerVars>>

\* get_symbol_address of a handle: 0 if the library does not define it.
Offset(h, sym) ==
  LET symbols == Disk[handles[h].lib].symbols
  IN  IF sym \in DOMAIN symbols THEN symbols[sym] ELSE 0

\* The segment and the symbol's value, whether or not it was found.
my_dlsym(h, sym) ==
  /\ Calling
  /\ Answer("dlsym", h, <<sym>>, handles[h].segment + Offset(h, sym))
  /\ UNCHANGED <<found, pc, jump, out, fds, handles, loaderVars,
                 linkerVars>>

\* Nothing is closed and 0 is returned.
my_dlclose(h) ==
  /\ Calling
  /\ Answer("dlclose", h, <<>>, 0)
  /\ UNCHANGED <<found, pc, jump, out, fds, handles, loaderVars, linkerVars>>

\* "No error", whatever happened.
my_dlerror ==
  /\ Calling
  /\ Answer("dlerror", 0, <<>>, 0)
  /\ UNCHANGED <<found, pc, jump, out, fds, handles, loaderVars,
                 linkerVars>>

ProgramExits ==
  /\ Calling
  /\ pc' = "exited"
  /\ UNCHANGED <<found, jump, out, fds, apiVars, loaderVars, linkerVars>>

Stopped == pc \in {"program", "exited", "killed"} /\ UNCHANGED vars

Start ==
  \/ StartDebug \/ StartMain
  \/ LoadStep \/ LoadDies \/ Listed
  \/ StartLinking \/ LinkStep \/ PrintDies \/ LinkDies \/ Refused \/ Accepted

Next ==
  \/ Start
  \/ \E f \in FileNames :
       my_dlopen_unread(f) \/ my_dlopen_dies(f) \/ my_dlopen(f)
  \/ \E h \in DOMAIN handles :
       my_dlclose(h) \/ \E sym \in Sym : my_dlsym(h, sym)
  \/ my_dlerror
  \/ ProgramExits
  \/ Stopped

Spec == Init /\ [][Next]_vars
FairSpec == Spec /\ WF_vars(Start)

-----------------------------------------------------------------------------
TypeOK ==
  /\ pc \in {"start", "load", "link", "program", "exited", "killed"}
  /\ jump \in Nat
  /\ fds \in 3..MaxFds
  /\ \A h \in DOMAIN handles : handles[h].lib \in DOMAIN Disk
  /\ reply.handle \in 0..Len(handles)
  /\ calls \in 0..MaxCalls
  /\ Loading!Manager \subseteq Nat
  /\ link \in {"linking", "accepted", "refused", "overflow", "crashed", "wild"}

\* The variable of this name is set to 1 by the first entry that names it.
Asked ==
  LET Names(e, n) == SubSeq(e, 1, n) = SubSeq(TraceName, 1, n)
      named == {i \in DOMAIN input.env :
                  strpos(input.env[i], Equals) = Len(TraceName)
                    /\ Names(input.env[i], Len(TraceName))}
  IN  named # {} /\ input.env[FirstOf(named)] =
                      TraceName \o <<Equals>> \o TraceOn

\* Some variable's own name is a part of the name looked for.
PrefixSet ==
  \E i \in DOMAIN input.env :
    LET n == strpos(input.env[i], Equals)
    IN  n \in 1..Len(TraceName) - 1 /\
        SubSeq(input.env[i], 1, n) = SubSeq(TraceName, 1, n)

\* A process is listed, and its program not run, if and only if its
\* environment asks for that, wherever the variable stands, or it has one
\* argument, which ld_main takes for my_ldd's; but a variable whose name is a
\* prefix of LD_TRACE_LOADED_OBJECTS may answer for it.
ListedWhenAsked ==
  LET asked == Asked \/ Len(input.args) = 2
  IN  ~PrefixSet =>
        /\ pc \in {"link", "program"} => ~asked
        /\ pc = "exited" /\ link = "linking" => asked

\* The only address strap.s ever jumps to is the program's entry point, once
\* all its symbols were found; or what an int keeps of it; or 2, when error_
\* was left on a byte that is not 0.
JumpsToEntry ==
  jump # 0 =>
    \/ jump = 2 /\ "error_" \in input.garbage
    \/ /\ role = "main" /\ link = "accepted"
       /\ \E k \in DOMAIN input.aux :
            /\ k % 2 = 1 /\ input.aux[k] = AT_ENTRY
            /\ jump \in {input.aux[k + 1], input.aux[k + 1] % IntMod}

\* The number these digits, as a reader takes them, stand for.
Read16(digits) ==
  LET Unit(c) == IF c \in 97..102 THEN c - 87 ELSE c - 48
      R[k \in 0..Len(digits)] ==
        IF k = 0 THEN 0 ELSE R[k - 1] * 16 + Unit(digits[k])
  IN  R[Len(digits)]

\* What is printed names every loaded library, in search order, with the
\* address its segment is at; and the entry point.
ListingReadsBack ==
  \A k \in DOMAIN out :
    CASE out[k].tag = "library" ->
           /\ Len(out) = Len(loaded) /\ out[k].of = loaded[k]
           /\ Read16(out[k].at) = IF Mapped(k) THEN Segment(k) ELSE 0
      [] out[k].tag = "jump" -> Read16(out[k].at) = entry
      [] out[k].tag = "error" -> jump = 0 /\ unresolved # {}

\* A symbol that a library named by the program itself defines is bound to
\* the first of those, whatever the libraries they need define; but a name the
\* program repeats ends its list.
NeedOrderWins ==
  pc = "program" =>
    \A s \in Linking!Slot :
      LET sym == Linking!RelocOf(prog, s)
          names == needed[Root]
          own == {k \in DOMAIN names :
                    /\ \A i, j \in 1..k : names[i] = names[j] => i = j
                    /\ HasTables(names[k])
                    /\ sym \in input.defs[names[k]]}
      IN  s[1] = 0 /\ Linking!Reached(prog, s) /\ own # {} =>
            loaded[got[s]] = names[FirstOf(own)]

\* A relocation of an object with no segment of its own that does resolve.
WrittenNowhere(o) ==
  \E s \in Linking!Slot :
    /\ s[1] = o /\ Linking!Reached(prog, s)
    /\ Linking!Provider(prog, Linking!RelocOf(prog, s)) # 0

\* What the process dies of, or goes astray by, told from how far it came.
\*  1. Before loading: error_ is not 0, or the program position-independent.
\*  2. In loading: the file of a library that was loaded has no header or a
\*     garbage one; or there are more libraries than a minimal block holds.
\*  3. In linking: name_ was never set and the program has a relocation; or
\*     libraries use one another; or a relocation is resolved and written
\*     where no segment was mapped, in a library or in the program itself.
\*  4. After it: the entry point does not fit into an int; or what a my_dlopen
\*     opens needs a file of which the same holds as of those in 2, more of
\*     them, or more descriptors than there are left.
KilledForCause ==
  LET kinds == {file[loaded[k]] : k \in 1..Len(loaded)}
      path == Path(reply.name)
      needs == {Needs(path)[k] : k \in DOMAIN Needs(path)}
      unread == {"missing", "short", "badmagic"}
  IN  pc = "killed" =>
        /\ load = "running" => \/ jump = 2 /\ "error_" \in input.garbage
                               \/ jump = 0 /\ input.pie
        /\ load = "crashed" => kinds \cap unread # {}
        /\ load = "wild" => Len(loaded) > Loading!MinSlots
        /\ load = "done" /\ link = "linking" =>
             /\ "name_" \in input.garbage
             /\ \E t \in 1..2 : prog.table[0][t] # <<>>
        /\ link = "overflow" => ~Linking!Acyclic(prog)
        /\ link = "crashed" =>
             \E k \in 1..Len(loaded) :
               file[loaded[k]] = "oneload" /\ WrittenNowhere(k)
        /\ link = "wild" => "segment_" \in input.garbage /\ WrittenNowhere(0)
        /\ link # "refused"
        /\ link = "accepted" /\ jump # entry => entry >= IntMod
        /\ link = "accepted" /\ jump = entry =>
             /\ reply.call = "dlopen"
             /\ path \in DOMAIN Disk /\ Disk[path].kind = "good"
             /\ \/ needs \cap unread # {}
                \/ Len(Needs(path)) > Loading!MinSlots
                \/ fds + 1 + Len(Needs(path)) > MaxFds

\* A handle is a library that was read and mapped, and for each library it
\* needs a file with a header was opened.  It was linked against a list that
\* is empty, so no symbol of it was ever looked up: all its relocations lie at
\* or behind an R_SH_NONE and stay as they are in the file.  What was opened
\* is a path, never a name the kernel would search for, and its last
\* component, with the slash if the caller gave one, names the handle.
HandleNeverLinked ==
  \A h \in DOMAIN handles :
    LET path == handles[h].lib
        lib == Disk[path]
        name == handles[h].name
    IN  /\ lib.kind = "good"
        /\ \A k \in DOMAIN lib.needs : lib.needs[k] \notin {"missing", "short"}
        /\ \A t \in 1..2 : \A k \in DOMAIN lib.table[t] :
             \E j \in 1..k : lib.table[t][j] = NONE
        /\ Positions(path, Slash) # {}
        /\ Positions(Tail(name), Slash) = {}
        /\ SubSeq(path, Len(path) - Len(name) + 1, Len(path)) = name

\* An answer of my_dlsym lies in the handle's own copy of the library and in
\* no other, however often files were opened and closed.
SymbolInItsCopy ==
  reply.call = "dlsym" =>
    \A h \in DOMAIN handles :
      h = reply.handle <=>
        reply.value \in handles[h].segment..handles[h].segment + SegmentSize - 1

\* The linker runs the program, or ends, or dies.
HandsOver == <>(pc \in {"program", "exited", "killed"})
=============================================================================

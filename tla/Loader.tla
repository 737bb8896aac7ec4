------------------------------- MODULE Loader -------------------------------
(***************************************************************************)
(* The recursive loading of an object's dependencies:                      *)
(* ElfManager::load_dependencies of src/elf-manager.cc, with the managers  *)
(* it creates for the DT_NEEDED entries and the two vectors, `loaded` and  *)
(* `viewed`, that every activation of the recursion shares.                *)
(*                                                                         *)
(* The C++ call stack is the variable `stack`: one record per activation   *)
(* of load_dependencies, the running one last.  An activation first reads  *)
(* its dynamic table ("entry"), then walks its DT_NEEDED entries ("scan"), *)
(* then descends into the managers it created ("loop").                    *)
(*                                                                         *)
(* A manager is its place in `loaded`; manager 0 is the one whose          *)
(* load_dependencies is called first, by ld_main, debug_main or load_lib.  *)
(***************************************************************************)
EXTENDS ArraySizes, Sequences

CONSTANTS
  Lib,        \* names that occur in DT_NEEDED entries
  Root,       \* the object that manager 0 reads
  Graphs,     \* the DT_NEEDED lists to start from
  Files,      \* what the objects' files may be
  Roles       \* who calls load_dependencies on manager 0

Object == Lib \cup {Root}

AnyFileKind ==
  {"good",       \* an ELF64 file with a dynamic table and two PT_LOAD
   "missing",    \* open fails: error_ is set, ehdr_ stays null
   "short",      \* smaller than an ELF header: ehdr_ stays null
   "badmagic",   \* check_magic refuses it: ehdr_ points at garbage
   "oneload",    \* fewer than two PT_LOAD: error_ is set by load_segment
   "nodynamic"}  \* no PT_DYNAMIC, or no DT_STRTAB in it

\* The files whose manager has error_ set once it is constructed.
RefusedKind == {"missing", "badmagic", "oneload"}

ASSUME LoaderAssumption ==
  /\ Root \notin Lib
  /\ Graphs \subseteq [Object -> Seq(Lib)]
  /\ Files \subseteq [Object -> AnyFileKind]
  /\ \A f \in Files : f[Root] \in {"good", "nodynamic"}
  /\ Roles \subseteq {"main", "debug", "dlopen"}

VARIABLES
  needed,        \* the DT_NEEDED names of every object, in file order
  file,          \* what every object's file is
  role,          \* the caller of the outermost activation
  loaded,        \* the names of the managers 1, 2, ... in creation order
  viewed,        \* the names already seen in some DT_NEEDED entry
  error,         \* the managers whose error_ is set
  dependencies,  \* dependencies_ of manager 0
  stack,         \* the activations of load_dependencies
  status,        \* running, done, crashed (a null header) or wild
  scan           \* history: what became of each object's DT_NEEDED walk

input == <<needed, file, role>>
vars == <<needed, file, role, loaded, viewed, error, dependencies, stack,
          status, scan>>

Entries(s) == {s[k] : k \in 1..Len(s)}
Name(m) == IF m = 0 THEN Root ELSE loaded[m]
Manager == 0..Len(loaded)

-----------------------------------------------------------------------------
Activation(m) ==
  [mgr |-> m, at |-> "entry", dyn |-> 1, to_append |-> <<>>, i |-> 0]

top == stack[Len(stack)]
Resume(f) == [stack EXCEPT ![Len(stack)] = f]
Running(phase) == status = "running" /\ stack # <<>> /\ top.at = phase

\* The running activation returns; its caller goes on at the index it holds.
Return ==
  /\ stack' = SubSeq(stack, 1, Len(stack) - 1)
  /\ status' = IF Len(stack) = 1 THEN "done" ELSE "running"

Frame ==
  [mgr : Nat, at : {"entry", "scan", "loop"}, dyn : Nat \ {0},
   to_append : Seq(Nat), i : Nat]

\* Types; and no frame names a manager that does not exist.
TypeOK ==
  /\ needed \in Graphs
  /\ file \in [Object -> AnyFileKind]
  /\ role \in Roles
  /\ loaded \in Seq(Lib)
  /\ viewed \in Seq(Lib)
  /\ error \subseteq Manager
  /\ dependencies \in Seq(Lib)
  /\ stack \in Seq(Frame)
  /\ \A j \in 1..Len(stack) :
       /\ stack[j].mgr \in Manager
       /\ Entries(stack[j].to_append) \subseteq Manager
  /\ status \in {"running", "done", "crashed", "wild"}
  /\ scan \in [Object -> {"no", "failed", "whole", "cut"}]

\* The callers test operator bool of manager 0 before they call, so its own
\* file, too, was opened, has an ELF header and, unless it is main, two
\* PT_LOAD: LoaderAssumption says so of Files.
Init ==
  /\ needed \in Graphs
  /\ file \in Files
  /\ role \in Roles
  /\ loaded = <<>>
  /\ viewed = <<>>
  /\ error = {}
  /\ dependencies = <<>>
  /\ stack = <<Activation(0)>>
  /\ status = "running"
  /\ scan = [o \in Object |-> "no"]

\* get_dynamic_table and DT_STRTAB found: the walk of the table starts.
ReadDynamic ==
  /\ Running("entry")
  /\ file[Name(top.mgr)] \in {"good", "oneload"}
  /\ stack' = Resume([top EXCEPT !.at = "scan"])
  /\ UNCHANGED <<input, loaded, viewed, error, dependencies, status, scan>>

\* Mutant: the early return forgets error_.
NoDynamic_silent ==
  /\ Running("entry")
  /\ file[Name(top.mgr)] \in {"nodynamic", "badmagic"}
  /\ scan' = [scan EXCEPT ![Name(top.mgr)] = "failed"]
  /\ Return
  /\ UNCHANGED <<input, loaded, viewed, error, dependencies>>

\* Mutant: a null header is taken for a missing dynamic table.
NoDynamic_skip ==
  /\ Running("entry")
  /\ file[Name(top.mgr)] \in {"nodynamic", "badmagic", "missing"}
  /\ error' = error \cup {top.mgr}
  /\ scan' = [scan EXCEPT ![Name(top.mgr)] = "failed"]
  /\ Return
  /\ UNCHANGED <<input, loaded, viewed, dependencies>>

\* No dynamic table: error_ = 4 and an early return.  The header of a file
\* that is not ELF64 is garbage, and this is one way to misread it.
NoDynamic ==
  /\ Running("entry")
  /\ file[Name(top.mgr)] \in {"nodynamic", "badmagic"}
  /\ error' = error \cup {top.mgr}
  /\ scan' = [scan EXCEPT ![Name(top.mgr)] = "failed"]
  /\ Return
  /\ UNCHANGED <<input, loaded, viewed, dependencies>>

\* get_program_header follows ehdr_, which is null when load_elf gave up on
\* the file early and points at garbage when the magic was refused.
NullHeader ==
  /\ Running("entry")
  /\ file[Name(top.mgr)] \in {"missing", "short", "badmagic"}
  /\ status' = "crashed"
  /\ UNCHANGED <<input, loaded, viewed, error, dependencies, stack, scan>>

\* Mutant: names are looked up in another object's string table.
Needs_other == needed[CHOOSE l \in Lib : TRUE]

Needs == needed[Name(top.mgr)]

\* Mutant: a manager per entry, seen before or not.
NewManager_repeat ==
  /\ Running("scan")
  /\ top.dyn <= Len(Needs)
  /\ viewed' = viewed
  /\ loaded' = Append(loaded, Needs[top.dyn])
  /\ stack' = Resume([top EXCEPT !.dyn = @ + 1,
                                 !.to_append = Append(@, Len(loaded) + 1)])
  /\ UNCHANGED <<input, error, dependencies, status, scan>>

\* Mutant: the new manager goes to the front of the search list.
NewManager_front ==
  /\ Running("scan")
  /\ top.dyn <= Len(Needs)
  /\ Needs[top.dyn] \notin Entries(viewed)
  /\ viewed' = Append(viewed, Needs[top.dyn])
  /\ loaded' = <<Needs[top.dyn]>> \o loaded
  /\ stack' = Resume([top EXCEPT !.dyn = @ + 1,
                                 !.to_append = Append(@, Len(loaded) + 1)])
  /\ UNCHANGED <<input, error, dependencies, status, scan>>

\* Mutant: to_append gets the index of the manager to come.
NewManager_next ==
  /\ Running("scan")
  /\ top.dyn <= Len(Needs)
  /\ Needs[top.dyn] \notin Entries(viewed)
  /\ viewed' = Append(viewed, Needs[top.dyn])
  /\ loaded' = Append(loaded, Needs[top.dyn])
  /\ stack' = Resume([top EXCEPT !.dyn = @ + 1,
                                 !.to_append = Append(@, Len(loaded) + 2)])
  /\ UNCHANGED <<input, error, dependencies, status, scan>>

\* Mutant: the entry after the one at hand is read.
NewManager_skip ==
  /\ Running("scan")
  /\ top.dyn <= Len(Needs)
  /\ Needs[top.dyn] \notin Entries(viewed)
  /\ viewed' = Append(viewed, Needs[top.dyn])
  /\ loaded' = Append(loaded, Needs[top.dyn])
  /\ stack' = Resume([top EXCEPT !.dyn = @ + 2,
                                 !.to_append = Append(@, Len(loaded) + 1)])
  /\ UNCHANGED <<input, error, dependencies, status, scan>>

\* A name not seen before: viewed and loaded grow and a manager is created
\* for it, whatever load_elf and load_segment make of its file.
NewManager ==
  /\ Running("scan")
  /\ top.dyn <= Len(Needs)
  /\ LET name == Needs[top.dyn]
         m == Len(loaded) + 1
     IN  /\ name \notin Entries(viewed)
         /\ viewed' = Append(viewed, name)
         /\ loaded' = Append(loaded, name)
         /\ error' = IF file[name] \in RefusedKind
                       THEN error \cup {m} ELSE error
         /\ stack' = Resume([top EXCEPT !.dyn = @ + 1,
                                        !.to_append = Append(@, m)])
  /\ UNCHANGED <<input, dependencies, status, scan>>

\* A name seen before ends the walk: the entries after it are not read.
AlreadyViewed ==
  /\ Running("scan")
  /\ top.dyn <= Len(Needs)
  /\ Needs[top.dyn] \in Entries(viewed)
  /\ stack' = Resume([top EXCEPT !.at = "loop"])
  /\ scan' = [scan EXCEPT ![Name(top.mgr)] = "cut"]
  /\ UNCHANGED <<input, loaded, viewed, error, dependencies, status>>

EndOfTable ==
  /\ Running("scan")
  /\ top.dyn > Len(Needs)
  /\ stack' = Resume([top EXCEPT !.at = "loop"])
  /\ scan' = [scan EXCEPT ![Name(top.mgr)] = "whole"]
  /\ UNCHANGED <<input, loaded, viewed, error, dependencies, status>>

\* The loop runs up to the size of `loaded`, read again at every turn, and
\* indexes to_append, which is shorter.
Turn == Running("loop") /\ top.i < Len(loaded)

Descend ==
  /\ Turn
  /\ top.i < Len(top.to_append)
  /\ stack' = Append(Resume([top EXCEPT !.i = @ + 1]),
                     Activation(top.to_append[top.i + 1]))
  /\ UNCHANGED <<input, loaded, viewed, error, dependencies, status, scan>>

\* Mutant: the loop does not advance over an empty slot.
EmptySlot_stay ==
  /\ Turn
  /\ top.i >= Len(top.to_append)
  /\ top.i < BlockSlots(Len(top.to_append)) + UnsplitSlack
  /\ stack' = stack
  /\ UNCHANGED <<input, loaded, viewed, error, dependencies, status, scan>>

\* Past the pushed managers the block of to_append still holds zeroes.
EmptySlot ==
  /\ Turn
  /\ top.i >= Len(top.to_append)
  /\ top.i < BlockSlots(Len(top.to_append)) + UnsplitSlack
  /\ stack' = Resume([top EXCEPT !.i = @ + 1])
  /\ UNCHANGED <<input, loaded, viewed, error, dependencies, status, scan>>

\* Past the block lies the header of the next one, a non-null "manager".
WildSlot ==
  /\ Turn
  /\ top.i >= BlockSlots(Len(top.to_append))
  /\ status' = "wild"
  /\ UNCHANGED <<input, loaded, viewed, error, dependencies, stack, scan>>

\* Only manager 0 can be main_ or debug_: the others are created with
\* neither, and the caller my_dlopen passes neither for manager 0.
LeaveLoop ==
  /\ Running("loop")
  /\ top.i >= Len(loaded)
  /\ dependencies' = IF top.mgr = 0 /\ role \in {"main", "debug"}
                       THEN loaded ELSE dependencies
  /\ Return
  /\ UNCHANGED <<input, loaded, viewed, error, scan>>

Stopped == status # "running" /\ UNCHANGED vars

Next ==
  \/ ReadDynamic \/ NoDynamic \/ NullHeader
  \/ NewManager \/ AlreadyViewed \/ EndOfTable
  \/ Descend \/ EmptySlot \/ WildSlot \/ LeaveLoop
  \/ Stopped

Spec == Init /\ [][Next]_vars
FairSpec == Spec /\ WF_vars(Next)

-----------------------------------------------------------------------------
\* No object is mapped twice: a symbol has one address per name.
NoDuplicateLoads ==
  \A j, k \in 1..Len(loaded) : loaded[j] = loaded[k] => j = k

\* No object is loaded again inside its own loading, however cyclic the
\* dependencies, so the recursion is no deeper than the number of objects.
NoObjectReentered ==
  \A j, k \in 1..Len(stack) :
    Name(stack[j].mgr) = Name(stack[k].mgr) => j = k

\* When loading ends nobody was forgotten: every loaded object's DT_NEEDED
\* was examined, and unless the walk was cut short all of it is loaded.
NobodyForgotten ==
  status = "done" =>
    \A m \in Manager :
      /\ scan[Name(m)] # "no"
      /\ scan[Name(m)] = "whole" =>
           Entries(needed[Name(m)]) \subseteq Entries(loaded)

\* The loop reads past the end of to_append, but as long as no more than
\* eight libraries are loaded malloc's minimal block absorbs the over-read.
SmallLoadsStayInBlock == Len(loaded) <= MinSlots => status # "wild"

\* When loading ends no failure went unrecorded: a manager whose file is no
\* good has its error_ set, although nobody looks at it but its own caller.
FailuresAreRecorded ==
  status = "done" =>
    \A m \in Manager : file[Name(m)] # "good" => m \in error

\* What is handed to the linker was opened: an object without a file, or with
\* a file too short for a header, is never left in the search list.
LinkerSeesOpenedFiles ==
  status = "done" =>
    \A k \in 1..Len(loaded) : file[loaded[k]] \notin {"missing", "short"}

\* Loading always comes to an end, cyclic dependencies included.
LoadingEnds == <>(status # "running")

\* load_dependencies gets to know objects as module Dependencies allows.
Abstract == INSTANCE Dependencies
              WITH needs <- [o \in Object |-> Entries(needed[o])],
                   known <- {Root} \cup Entries(loaded),
                   over <- status # "running"
LearnsOnDemand == Abstract!DepSpec

\* Nothing is loaded that the first object does not need in the end.
OnlyWhatIsNeeded == Abstract!OnlyWhatIsNeeded

\* "Map recusrive dependencies": once loading is done, every object that a
\* loaded object needs is loaded.
RecursiveDependenciesMapped ==
  status = "done" /\ (\A o \in Object : file[o] = "good") =>
    \A m \in Manager : Entries(needed[Name(m)]) \subseteq Entries(loaded)

\* "Map recusrive dependencies": objects with good files are all loaded and
\* loading them does not go astray.
GoodFilesLoad ==
  (\A o \in Object : file[o] = "good") => status \in {"running", "done"}

\* "Unable to open the file" is reported, and error_ set, for a library that
\* cannot be opened: the failure is an error and not a crash.
MissingLibraryIsReported ==
  (\A o \in Object : file[o] \in {"good", "missing"}) => status # "crashed"
=============================================================================

------------------------------ MODULE ElfObject ------------------------------
(***************************************************************************)
(* One ElfManager of src/elf-manager.cc, from find_libpath to the lookups  *)
(* of the linker: the file is searched, opened, mapped and checked, its    *)
(* two segments are copied to their place, and symbols are looked up in    *)
(* the tables its dynamic segment names.                                   *)
(*                                                                         *)
(* Addresses and sizes are bytes.  A file is a record: its header, every   *)
(* program header that lies in the file from e_phoff to the next word 0,   *)
(* e_phnum of which are its own, its dynamic table, where its tables are,  *)
(* and their contents.  The kernel answers mmap as it likes, and another   *)
(* process may move the file while it is searched.                         *)
(***************************************************************************)
EXTENDS SymbolLookup, FiniteSets

CONSTANTS
  Cases,      \* what to start from
  Names,      \* the names that are looked up
  EhdrSize,   \* sizeof (Elf64_Ehdr)
  Page,       \* page size
  FileBase,   \* where mmap puts the file
  IntMod,     \* 2^32: the numbers an int tells apart
  MaxFds      \* descriptors a process may have

Dir == 0..2   \* TMP_get_path: ./, /usr/lib64/, /usr/lib/

\* The PT_LOAD headers among the file's own.
OwnLoads(f) == {k \in 1..f.ehdr.e_phnum : f.phdrs[k].p_type = "PT_LOAD"}

\* Its segments lie one after the other in memory, as the format has it.
File(f) ==
  /\ f.ehdr \in Elf64_Ehdr
  /\ f.size \in Nat
  /\ f.phdrs \in Seq(Elf64_Phdr)
  /\ f.ehdr.e_phnum <= Len(f.phdrs)
  /\ \A j, k \in OwnLoads(f) :
       j < k => f.phdrs[j].p_vaddr + f.phdrs[j].p_filesz <= f.phdrs[k].p_vaddr
  /\ f.dyn \in Seq(Elf64_Dyn)
  /\ f.at \in [TableTag -> Nat]
  /\ \E last \in DOMAIN f.symtab : last \in Nat /\ DOMAIN f.symtab = 0..last
  /\ \A i \in DOMAIN f.symtab : f.symtab[i] \in Elf64_Sym
  /\ {f.gnu, f.sysv} \subseteq Seq(Nat)

ASSUME ElfObjectAssumption ==
  /\ {EhdrSize, Page, FileBase, IntMod} \subseteq Nat \ {0}
  /\ MaxFds \in Nat
  /\ Names \subseteq String
  /\ \A c \in Cases :
       /\ File(c.file)
       /\ c.present \subseteq Dir
       /\ c.fds \subseteq 0..MaxFds - 1
       /\ {c.main, c.steady} \subseteq BOOLEAN

VARIABLES
  input,     \* the case: the file; the directories that have it and the
             \* descriptors in use at first; is this the program's own
             \* manager; do other processes leave the file alone
  present,   \* the directories a file of this name can be opened in
  moved,     \* the file has been moved
  mgr,       \* the fields of the ElfManager
  fds,       \* the open descriptors of the process
  path,      \* the directory find_libpath has got to, then the one it chose
  image,     \* what the segment's bytes hold: an offset in the file, or Zero
  answer,    \* the last lookup: a name and what get_symbol_address returned
  pc         \* find, open, map, segment, idle, refused or crashed

vars == <<input, present, moved, mgr, fds, path, image, answer, pc>>
file == input.file

\* operator bool.
Good(m) == m.ready_ /\ ~m.error_

Manager ==
  [ready_ : BOOLEAN, main_ : BOOLEAN, error_ : BOOLEAN, fd_ : -1..MaxFds - 1,
   entry_ : Nat, phdr_ : BOOLEAN, segment_ : BOOLEAN,
   hashmgr_ : {"none", "gnu", "sysv", "both"}]

\* ElfManager(phdr): main_ if there is an address; the fields it does not
\* name are zero because the memory is fresh (HandedOutForGood of Vectors).
NewManager(phdr) ==
  [ready_ |-> TRUE, main_ |-> phdr, error_ |-> FALSE, fd_ |-> -1, entry_ |-> 0,
   phdr_ |-> phdr, segment_ |-> FALSE, hashmgr_ |-> "none"]

-----------------------------------------------------------------------------
\* The headers the loops over phdr see: all up to the first PT_NULL.  The
\* number of headers, e_phnum, is not read.
Scanned ==
  LET end == {k \in DOMAIN file.phdrs : file.phdrs[k].p_type = "PT_NULL"}
  IN  IF end = {} THEN file.phdrs ELSE SubSeq(file.phdrs, 1, FirstOf(end) - 1)
OfType(type) == {k \in DOMAIN Scanned : Scanned[k].p_type = type}
Header(k) == Scanned[k]

\* Mutant: the first header's file offset is forgotten.
get_addr_offset_vaddr ==
  IF mgr.main_ THEN 0 ELSE Header(1).p_vaddr - mgr.entry_

\* What is to be taken off an address for a pointer into the mapped file.
get_addr_offset ==
  IF mgr.main_ THEN 0
  ELSE Header(1).p_vaddr - (Header(1).p_offset + mgr.entry_)

\* The dynamic table, if there is a header for one.
get_dynamic_table == IF OfType("PT_DYNAMIC") = {} THEN <<>> ELSE file.dyn

\* The pointer to a table, 0 if the dynamic table has none.
get_dynamic_section(tag) ==
  LET at == {k \in DOMAIN get_dynamic_table : file.dyn[k].d_tag = tag}
  IN  IF at = {} THEN 0 ELSE file.dyn[FirstOf(at)].d_un - get_addr_offset

-----------------------------------------------------------------------------
Init ==
  /\ input \in Cases
  /\ present = input.present
  /\ moved = FALSE
  /\ mgr = NewManager(input.main)
  /\ fds = input.fds
  /\ path = 0
  /\ image = <<>>
  /\ answer = [name |-> <<>>, value |-> 0]
  /\ pc = IF input.main THEN "idle" ELSE "find"

Opens(dir) == dir \in present /\ Cardinality(fds) < MaxFds
NewFd == FirstOf((0..MaxFds - 1) \ fds)

\* Mutant: the loop goes on to the directory "Unknown".
Probe_beyond ==
  /\ pc = "find"
  /\ IF Opens(path)
       THEN pc' = "open" /\ UNCHANGED path
       ELSE IF path \in Dir
       THEN path' = path + 1 /\ UNCHANGED pc
       ELSE path' = 0 /\ pc' = "open"
  /\ UNCHANGED <<input, present, moved, mgr, fds, image, answer>>

\* Mutant: the search is over one directory early.
Probe_early ==
  /\ pc = "find"
  /\ IF Opens(path)
       THEN pc' = "open" /\ UNCHANGED path
       ELSE IF path + 1 < LastOf(Dir)
       THEN path' = path + 1 /\ UNCHANGED pc
       ELSE path' = 0 /\ pc' = "open"
  /\ UNCHANGED <<input, present, moved, mgr, fds, image, answer>>

\* Mutant: find_libpath keeps the descriptor it tried the file with.
Probe_keep ==
  /\ pc = "find"
  /\ IF Opens(path)
       THEN pc' = "open" /\ fds' = fds \cup {NewFd} /\ UNCHANGED path
       ELSE IF path + 1 \in Dir
       THEN path' = path + 1 /\ UNCHANGED <<pc, fds>>
       ELSE path' = 0 /\ pc' = "open" /\ UNCHANGED fds
  /\ UNCHANGED <<input, present, moved, mgr, image, answer>>

\* One turn of find_libpath: the file is opened and closed at once.  If no
\* directory has it the path is "./".
Probe ==
  /\ pc = "find"
  /\ IF Opens(path)
       THEN pc' = "open" /\ UNCHANGED path
       ELSE IF path + 1 \in Dir
       THEN path' = path + 1 /\ UNCHANGED pc
       ELSE path' = 0 /\ pc' = "open"
  /\ UNCHANGED <<input, present, moved, mgr, fds, image, answer>>

\* Another process moves the file.
MoveFile ==
  /\ pc \in {"find", "open"}
  /\ ~moved /\ ~input.steady
  /\ moved' = TRUE
  /\ present' \in {{d} : d \in Dir} \cup {{}}
  /\ UNCHANGED <<input, mgr, fds, path, image, answer, pc>>

\* load_elf: open.
Open ==
  /\ pc = "open"
  /\ IF Opens(path)
       THEN /\ fds' = fds \cup {NewFd}
            /\ mgr' = [mgr EXCEPT !.fd_ = NewFd]
            /\ pc' = "map"
       ELSE /\ mgr' = [mgr EXCEPT !.error_ = TRUE, !.ready_ = FALSE]
            /\ pc' = "refused"
            /\ UNCHANGED fds
  /\ UNCHANGED <<input, present, moved, path, image, answer>>

\* lseek returns an int, whatever the kernel says: the size of a file of 2
\* GiB or more comes out negative, or wrong.
lseek(size) ==
  LET n == size % IntMod IN IF n < IntMod \div 2 THEN n ELSE n - IntMod
file_size == lseek(file.size)

\* load_elf: the file is mapped, its size and magic are tested.
MapFile ==
  /\ pc = "map"
  /\ file_size > 0
  /\ mgr' = IF file_size < EhdrSize
              THEN [mgr EXCEPT !.entry_ = FileBase, !.ready_ = FALSE]
            ELSE IF ~check_magic(file.ehdr.e_ident)
              THEN [mgr EXCEPT !.entry_ = FileBase, !.error_ = TRUE,
                               !.ready_ = FALSE]
              ELSE [mgr EXCEPT !.entry_ = FileBase, !.phdr_ = TRUE]
  /\ pc' = IF mgr'.ready_ THEN "segment" ELSE "refused"
  /\ UNCHANGED <<input, present, moved, fds, path, image, answer>>

Errno == 1     \* any address that is neither null nor mapped

\* mmap fails, as it does for a file without a size: what it returns is not null, so
\* only the size keeps the magic from being read there.
MapFileFails ==
  /\ pc = "map"
  /\ IF file_size < EhdrSize
       THEN /\ pc' = "refused"
            /\ mgr' = [mgr EXCEPT !.entry_ = Errno, !.ready_ = FALSE]
       ELSE pc' = "crashed" /\ UNCHANGED mgr
  /\ UNCHANGED <<input, present, moved, fds, path, image, answer>>

\* p_flags are handed to mmap as they are: PF_X is PROT_READ, PF_W is
\* PROT_WRITE and PF_R is PROT_EXEC.
AsProt ==
  [f \in PhdrFlag |-> CASE f = "PF_X" -> "PROT_READ"
                        [] f = "PF_W" -> "PROT_WRITE"
                        [] f = "PF_R" -> "PROT_EXEC"]

Zero == -1
memcpy(img, dest, src, n) ==
  [a \in DOMAIN img |-> IF a \in dest..dest + n - 1 THEN src + a - dest
                        ELSE img[a]]
PageUp(n) == ((n + Page - 1) \div Page) * Page

LoadOne == FirstOf(OfType("PT_LOAD"))
LoadTwo == FirstOf(OfType("PT_LOAD") \ {LoadOne})

\* Mutant: the second segment is copied to where it lies in the file.
Segments_offset ==
  LET load1 == Header(LoadOne)
      load2 == Header(LoadTwo)
      size == load2.p_vaddr + load2.p_filesz
      fresh == [a \in 0..PageUp(size) - 1 |-> Zero]
  IN  memcpy(memcpy(fresh, 0, load1.p_offset, load1.p_filesz),
             load2.p_offset, load2.p_offset, load2.p_filesz)

\* Mutant: the mapping is as large as what is in the file.
Segments_size ==
  LET load1 == Header(LoadOne)
      load2 == Header(LoadTwo)
      size == load1.p_filesz + load2.p_filesz
      fresh == [a \in 0..PageUp(size) - 1 |-> Zero]
  IN  memcpy(memcpy(fresh, 0, load1.p_offset, load1.p_filesz),
             load2.p_vaddr, load2.p_offset, load2.p_filesz)

\* Whole pages, the first segment at their start, the second at its address.
Segments ==
  LET load1 == Header(LoadOne)
      load2 == Header(LoadTwo)
      size == load2.p_vaddr + load2.p_filesz
      fresh == [a \in 0..PageUp(size) - 1 |-> Zero]
  IN  memcpy(memcpy(fresh, 0, load1.p_offset, load1.p_filesz),
             load2.p_vaddr, load2.p_offset, load2.p_filesz)

\* What is copied lies in the pages of the file that were mapped.
InTheMapping ==
  \A k \in {LoadOne, LoadTwo} :
    Header(k).p_offset + Header(k).p_filesz <= PageUp(file_size)

TwoLoads == Cardinality(OfType("PT_LOAD")) >= 2
Writable ==
  "PROT_WRITE" \in {AsProt[f] : f \in Header(LoadOne).p_flags \cup
                                      Header(LoadTwo).p_flags}

\* load_segment: fewer than two PT_LOAD.
NoSegment ==
  /\ pc = "segment"
  /\ ~TwoLoads
  /\ mgr' = [mgr EXCEPT !.error_ = TRUE]
  /\ pc' = "idle"
  /\ UNCHANGED <<input, present, moved, fds, path, image, answer>>

\* Mutant: the copy succeeds whatever protection the pages were given.
LoadSegment_anyprot ==
  /\ pc = "segment"
  /\ TwoLoads /\ InTheMapping
  /\ image' = Segments
  /\ mgr' = [mgr EXCEPT !.segment_ = TRUE]
  /\ pc' = "idle"
  /\ UNCHANGED <<input, present, moved, fds, path, answer>>

\* load_segment: the pages are mapped and filled.
LoadSegment ==
  /\ pc = "segment"
  /\ TwoLoads /\ Writable /\ InTheMapping
  /\ image' = Segments
  /\ mgr' = [mgr EXCEPT !.segment_ = TRUE]
  /\ pc' = "idle"
  /\ UNCHANGED <<input, present, moved, fds, path, answer>>

\* load_segment: the copy faults, for want of memory, of PROT_WRITE or of the
\* rest of the file.
SegmentFaults ==
  /\ pc = "segment"
  /\ TwoLoads
  /\ pc' = "crashed"
  /\ UNCHANGED <<input, present, moved, mgr, fds, path, image, answer>>

-----------------------------------------------------------------------------
\* The table that hashmgr_ is given: DT_HASH if there is one; and it is told
\* that the table is a GNU one if there is a DT_GNU_HASH.
HashTable ==
  LET gnu == get_dynamic_section("DT_GNU_HASH") # 0
      sysv == get_dynamic_section("DT_HASH") # 0
  IN  ElfHash(IF sysv THEN file.sysv ELSE file.gnu, gnu)

HashKind ==
  LET gnu == get_dynamic_section("DT_GNU_HASH") # 0
      sysv == get_dynamic_section("DT_HASH") # 0
  IN  IF gnu THEN IF sysv THEN "both" ELSE "gnu"
      ELSE IF sysv THEN "sysv" ELSE "none"

\* get_symbol_address(name): null without the tables, and the value of the
\* symbol, null if that is 0.
Value(name) ==
  LET i == lookup_symbol(HashTable, name, file.symtab)
  IN  IF HashKind = "none" \/ get_dynamic_section("DT_SYMTAB") = 0
                           \/ get_dynamic_section("DT_STRTAB") = 0 THEN 0
      ELSE IF i \in {0, Wild} THEN i ELSE file.symtab[i].st_value

get_symbol_address(name) ==
  /\ pc = "idle" /\ ~mgr.main_
  /\ answer' = [name |-> name, value |-> Value(name)]
  /\ mgr' = IF get_dynamic_section("DT_SYMTAB") = 0
                 \/ get_dynamic_section("DT_STRTAB") = 0
                 \/ mgr.hashmgr_ # "none" THEN mgr
            ELSE [mgr EXCEPT !.hashmgr_ = HashKind]
  /\ UNCHANGED <<input, present, moved, fds, path, image, pc>>

Stopped == pc \in {"idle", "refused", "crashed"} /\ UNCHANGED vars

Next ==
  \/ Probe \/ MoveFile \/ Open \/ MapFile \/ MapFileFails
  \/ NoSegment \/ LoadSegment \/ SegmentFaults
  \/ \E name \in Names : get_symbol_address(name)
  \/ Stopped

Spec == Init /\ [][Next]_vars

-----------------------------------------------------------------------------
TypeOK ==
  /\ present \subseteq Dir
  /\ mgr \in Manager
  /\ fds \subseteq 0..MaxFds - 1
  /\ path \in Dir
  /\ \A a \in DOMAIN image : image[a] \in Nat \cup {Zero}
  /\ answer.value \in Nat \cup {Wild}
  /\ pc \in {"find", "open", "map", "segment", "idle", "refused", "crashed"}

\* A library of two segments that starts at address 0 has every byte of them
\* where its symbols and relocations say, whatever follows its headers.
\* Zeroes follow the second segment up to the end of its page: a .bss that
\* ends there, and no longer one, is mapped although p_memsz is not read.
ImageFaithful ==
  mgr.segment_ /\ Cardinality(OwnLoads(file)) = 2 =>
    LET first == file.phdrs[FirstOf(OwnLoads(file))]
        last == file.phdrs[LastOf(OwnLoads(file))]
        end == last.p_vaddr + last.p_filesz
    IN  /\ first.p_vaddr = 0 =>
             \A load \in {first, last} : \A b \in 0..load.p_filesz - 1 :
               /\ load.p_vaddr + b \in DOMAIN image
               /\ image[load.p_vaddr + b] = load.p_offset + b
        /\ \A a \in end..PageUp(end) - 1 : a \in DOMAIN image /\ image[a] = Zero

\* A pointer made of the first address the dynamic table has under a tag
\* leads to that table, in the file or in the program the kernel mapped, if
\* the first header, whatever it is for, is as far from its place in the file
\* as the table.
TablesFound ==
  pc = "idle" =>
    \A k \in DOMAIN get_dynamic_table :
      LET tag == file.dyn[k].d_tag
          bias == file.dyn[k].d_un - file.at[tag]
          first == \A j \in 1..k - 1 : file.dyn[j].d_tag # tag
      IN  tag \in TableTag /\ first /\ Header(1).p_vaddr - Header(1).p_offset = bias =>
            get_dynamic_section(tag) =
              IF mgr.main_ THEN file.dyn[k].d_un ELSE FileBase + file.at[tag]

\* What the object says of a name: the value of its symbol, 0 if none.
Definition(name) ==
  LET at == {i \in DOMAIN file.symtab \ {0} : file.symtab[i].st_name = name}
  IN  IF at = {} THEN 0 ELSE file.symtab[FirstOf(at)].st_value

\* With one hash table a lookup finds what the object defines and nothing
\* else, for every distribution of the names over buckets and chains; but a
\* GNU table hides the names whose hash is 0 or 1.  A definition is any
\* symbol of that name with a value: a thread-local object's offset, or the
\* stub of a function the object does not define, is answered as an address.
\* With both tables DT_HASH is read as a GNU table, so a lookup may miss or
\* leave the tables, but is never answered with another name's symbol.
FindsWhatIsThere ==
  answer.name # <<>> =>
    CASE mgr.hashmgr_ = "none" -> answer.value = 0
      [] mgr.hashmgr_ = "sysv" -> answer.value = Definition(answer.name)
      [] mgr.hashmgr_ = "gnu" ->
           answer.value = IF hash_symbol(answer.name) <= 1 THEN 0
                          ELSE Definition(answer.name)
      [] mgr.hashmgr_ = "both" ->
           answer.value \in {0, Wild, Definition(answer.name)}

\* A file that was opened is refused for its e_ident, or for the size an int
\* makes of its own, and for nothing else: a library for another machine or
\* an executable is taken, and a good one of 2 GiB or more is not.
JudgedByIdentAndInt ==
  LET ident == file.ehdr.e_ident
      elf64 == /\ <<ident[1], ident[2], ident[3], ident[4]>> = ELFMAG
               /\ <<ident[5], ident[6], ident[7]>> = <<2, 1, 1>>
               /\ ident[8] \in {0, 3}
      sized == file.size % IntMod \in EhdrSize..(IntMod \div 2) - 1
  IN  mgr.fd_ # -1 =>
        /\ pc = "refused" => ~(elf64 /\ sized)
        /\ pc \in {"segment", "idle"} => elf64 /\ sized

\* A library's manager that says it is good can be linked: its file is open,
\* its headers are known, and its pages are mapped and can be written to,
\* because one of the two PT_LOAD that are mapped, and not just a third one,
\* is writable in the file; without that the process is dead.
GoodIsUsable ==
  Good(mgr) /\ pc = "idle" /\ ~mgr.main_ =>
    /\ mgr.fd_ \in fds /\ mgr.phdr_ /\ mgr.segment_
    /\ \E k \in {LoadOne, LoadTwo} : "PF_W" \in Header(k).p_flags

\* Searching leaves nothing open: a library costs the one descriptor it is
\* read through, which nobody had, and which stays open.  Unless the file is
\* moved meanwhile, that is the file of the first directory that has it, and
\* opening fails only if none has it or there are no descriptors left.
FirstDirectoryWins ==
  /\ fds \ {mgr.fd_} = input.fds
  /\ mgr.fd_ # -1 => mgr.fd_ \in fds
  /\ ~moved /\ pc \notin {"find", "open"} /\ ~mgr.main_ =>
       IF input.present = {} \/ Cardinality(input.fds) = MaxFds
         THEN mgr.fd_ = -1 /\ mgr.error_
         ELSE mgr.fd_ # -1 /\ path = FirstOf(input.present)
=============================================================================

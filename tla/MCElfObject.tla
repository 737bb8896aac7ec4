---------------------------- MODULE MCElfObject ----------------------------
(***************************************************************************)
(* Instances of ElfObject: pages of four bytes, files of a dozen, names of *)
(* one or two letters, hashes of three bits.                               *)
(***************************************************************************)
EXTENDS ElfObject, SequencesExt

A == 65
B == 66
AllNames == UNION {TupleOf({A, B}, k) : k \in {1, 2}}

Seg(type, flags, offset, vaddr, filesz) ==
  [p_type |-> type, p_flags |-> flags, p_offset |-> offset, p_vaddr |-> vaddr,
   p_filesz |-> filesz, p_memsz |-> filesz + 2]

R == {"PF_R"}
RX == {"PF_R", "PF_X"}
RW == {"PF_R", "PF_W"}

Text(flags) == Seg("PT_LOAD", flags, 0, 0, 6)
Data(flags, vaddr) == Seg("PT_LOAD", flags, 6, vaddr, 3)
Dynamic == Seg("PT_DYNAMIC", RW, 7, 11, 2)
Phdr == Seg("other", R, 1, 1, 1)
Note == Seg("other", R, 7, 11, 1)
End == Seg("PT_NULL", {}, 0, 0, 0)

\* The headers of a library: two segments, old or new style; with a header
\* before them; with no writable segment among the first two; with one
\* segment, whether or not what follows looks like another; no dynamic table.
Headers ==
  {[own |-> h, tail |-> t] :
     h \in {<<Text(RX), Data(RW, 10), Dynamic>>,
            <<Text(RX), Data(RW, 14), Dynamic>>,
            <<Phdr, Text(RX), Data(RW, 10), Dynamic>>,
            <<Note, Text(RX), Data(RW, 10), Dynamic>>,
            <<Text(R), Data(RX, 10), Seg("PT_LOAD", RW, 9, 17, 2), Dynamic>>,
            <<Seg("PT_LOAD", RX, 0, 4, 6), Data(RW, 14), Dynamic>>,
            <<Text(RX), Dynamic>>,
            <<Text(RX), Data(RW, 10)>>},
     t \in {<<End>>, <<Phdr, Data(RW, 6), End>>}}

Offset ==
  [t \in TableTag |->
     CASE t = "DT_SYMTAB" -> 1 [] t = "DT_STRTAB" -> 2
       [] t = "DT_GNU_HASH" -> 3 [] t = "DT_HASH" -> 4
       [] t = "DT_RELA" -> 5 [] t = "DT_JMPREL" -> 5]

Ident(class, abi) == <<127, 69, 76, 70, class, 1, 1, abi>>

\* A file whose dynamic table has these tags; addresses are those of the
\* first segment.
MakeFile(headers, ident, size, tags, symtab, first, buckets) ==
  LET load == headers.own[CHOOSE k \in DOMAIN headers.own :
                            headers.own[k].p_type = "PT_LOAD"]
      last == CHOOSE n \in DOMAIN symtab : n + 1 \notin DOMAIN symtab
  IN  [ehdr |-> [e_ident |-> ident,
                 e_type |-> IF load.p_vaddr = 0 THEN "ET_DYN" ELSE "ET_EXEC",
                 e_machine |-> IF ident[8] = 3 THEN "other" ELSE "EM_X86_64",
                 e_phoff |-> EhdrSize,
                 e_phnum |-> Len(headers.own)],
       size |-> size,
       phdrs |-> headers.own \o headers.tail,
       dyn |-> [k \in DOMAIN tags |->
                  [d_tag |-> tags[k],
                   d_un |-> Offset[tags[k]] + load.p_vaddr]],
       at |-> Offset,
       symtab |-> symtab,
       gnu |-> GnuTable(symtab, first, buckets),
       sysv |-> SysvTable(symtab)]

Tags(hash) == <<"DT_STRTAB", "DT_SYMTAB">> \o hash \o <<"DT_RELA">>
Symbol(name, info, section, value) ==
  [st_name |-> name, st_info |-> info, st_shndx |-> section, st_value |-> value]
Null == Symbol(<<>>, <<"STB_LOCAL", "other">>, "SHN_UNDEF", 0)

\* The kinds of the symbols 1, 2 and 3: a function, a thread-local object,
\* and what an executable that takes a library's function's address has.
Infos ==
  <<<<"STB_GLOBAL", "STT_FUNC">>, <<"STB_WEAK", "STT_TLS">>,
    <<"STB_GLOBAL", "STT_FUNC">>>>
Sections == <<"other", "other", "SHN_UNDEF">>

\* The symbol tables over the names ns, of which the first one is undefined
\* if first is 2.
Table(ns, first) ==
  [i \in 0..Len(ns) |->
     IF i = 0 THEN Null
     ELSE IF i < first THEN Symbol(ns[i], Infos[i], "SHN_UNDEF", 0)
     ELSE Symbol(ns[i], Infos[i], Sections[i], i)]
Two == Table(<<<<A>>, <<B>>>>, 1)
Small == {s \in UNION {TupleOf(AllNames, k) : k \in 1..3} :
            \A i, j \in DOMAIN s : s[i] = s[j] => i = j}

Case(f, dirs, used, main, steady) ==
  [file |-> f, present |-> dirs, fds |-> used, main |-> main,
   steady |-> steady]
Plain(headers, ident, size) ==
  MakeFile(headers, ident, size, Tags(<<"DT_GNU_HASH">>), Two, 1, 1)
Classic == [own |-> <<Text(RX), Data(RW, 10), Dynamic>>, tail |-> <<End>>]

FileCases ==
  {Case(Plain(h, Ident(2, 0), 12), {0}, {}, m, TRUE) : h \in Headers, m \in BOOLEAN}
  \cup
  {Case(Plain(Classic, i, n), p, f, FALSE, FALSE) :
     i \in {Ident(2, 0), Ident(2, 3), Ident(1, 0), Ident(2, 9)}, n \in {3, 12, 20, 38, 44},
     p \in SUBSET Dir, f \in {{}, {1}, {0, 1}, {0, 1, 2}}}

TableCases ==
  UNION {{Case(MakeFile(Classic, Ident(2, 0), 12, Tags(hash),
                        Table(ns, first), first, n), {0}, {0, 1}, FALSE, TRUE) :
            n \in {k \in {1, 2} : InBucketOrder(Table(ns, first), first, k)},
            hash \in {<<>>, <<"DT_GNU_HASH">>, <<"DT_HASH">>,
                      <<"DT_HASH", "DT_GNU_HASH">>}} :
           ns \in Small, first \in {1, 2}}

AllCases == FileCases \cup TableCases

\* The tables above are what a static linker writes.
ASSUME TablesAreWritten ==
  \A c \in AllCases : WrittenTogether(c.file.symtab, c.file.gnu)
=============================================================================

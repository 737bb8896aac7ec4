----------------------------- MODULE ElfFormat -----------------------------
(***************************************************************************)
(* The records and constants of src/elf.hh that the linker reads, with the *)
(* fields it reads.  A constant it does not test stands under "other".     *)
(*                                                                         *)
(* A string is the sequence of its characters, without the NUL.  The index *)
(* of a name in a string table is abstracted to the name.                  *)
(***************************************************************************)
EXTENDS Integers, Sequences

Character == 1..255
String == Seq(Character)

\* e_ident[0..7]; what follows is padding.
EI_NIDENT == 8
ELFMAG == <<127, 69, 76, 70>>
ELFCLASS64 == 2
ELFDATA2LSB == 1
EV_CURRENT == 1
ELFOSABI_NONE == 0
ELFOSABI_GNU == 3

\* What a file is, and for which machine: the linker reads neither.
FileType == {"ET_EXEC", "ET_DYN", "other"}
Machine == {"EM_X86_64", "other"}
Elf64_Ehdr ==
  [e_ident : [1..EI_NIDENT -> 0..255], e_type : FileType, e_machine : Machine,
   e_phoff : Nat, e_phnum : Nat]

PhdrType == {"PT_NULL", "PT_LOAD", "PT_DYNAMIC", "other"}
PhdrFlag == {"PF_X", "PF_W", "PF_R"}
Elf64_Phdr ==
  [p_type : PhdrType, p_flags : SUBSET PhdrFlag, p_offset : Nat,
   p_vaddr : Nat, p_filesz : Nat, p_memsz : Nat]

\* The tags whose value is an address, and the others.
TableTag ==
  {"DT_STRTAB", "DT_SYMTAB", "DT_HASH", "DT_GNU_HASH", "DT_RELA", "DT_JMPREL"}
DynTag ==
  TableTag \cup {"DT_NULL", "DT_NEEDED", "DT_RELASZ", "DT_PLTRELSZ", "other"}
Elf64_Dyn == [d_tag : DynTag, d_un : Nat]

\* st_info is a binding and a type; none of the three is read.
SymBind == {"STB_LOCAL", "STB_GLOBAL", "STB_WEAK", "other"}
SymType == {"STT_OBJECT", "STT_FUNC", "STT_TLS", "STT_GNU_IFUNC", "other"}
SectionIndex == {"SHN_UNDEF", "SHN_ABS", "other"}
Elf64_Sym ==
  [st_name : String, st_info : SymBind \X SymType, st_shndx : SectionIndex,
   st_value : Nat]

\* The header of a GNU hash table: its first four words.
Elf64_Hash == [buckets : Nat, symndx : Nat, maskwords : Nat, shift2 : Nat]

\* An entry of the auxiliary vector is two words, a type and a value.
AT_NULL == 0
AT_PHDR == 3
AT_ENTRY == 9
AuxType == 0..26 \cup 31..37
=============================================================================

--------------------------- MODULE ElfObjectProofs ---------------------------
(***************************************************************************)
(* What holds of module ElfObject for every file, every answer of the      *)
(* kernel and every move of the file.                                      *)
(***************************************************************************)
EXTENDS ElfObject, LookupProofs, TLAPS

\* What the assumption says of the case.
LEMMA InputFacts ==
  ASSUME input \in Cases
  PROVE  /\ File(file)
         /\ input.present \subseteq Dir
         /\ input.fds \subseteq 0..MaxFds - 1
         /\ input.main \in BOOLEAN /\ input.steady \in BOOLEAN
  BY ElfObjectAssumption DEF file

\* The headers a loop sees are the file's first ones.
LEMMA ScannedFacts ==
  ASSUME input \in Cases
  PROVE  /\ Scanned \in Seq(Elf64_Phdr)
         /\ Len(Scanned) \in Nat /\ Len(Scanned) <= Len(file.phdrs)
         /\ \A k \in 1..Len(Scanned) : Scanned[k] = file.phdrs[k]
  <1> DEFINE end == {k \in DOMAIN file.phdrs : file.phdrs[k].p_type = "PT_NULL"}
  <1>1. file.phdrs \in Seq(Elf64_Phdr)
    BY InputFacts DEF File
  <1>2. CASE end = {}
    BY <1>1, <1>2 DEF Scanned
  <1>3. CASE end # {}
    <2>1. end \in SUBSET Nat /\ end \subseteq 1..Len(file.phdrs)
      BY <1>1
    <2>2. FirstOf(end) \in end
      <3> HIDE DEF end
      <3> QED
        BY <1>3, <2>1, FirstOfSet
    <2> DEFINE n == FirstOf(end) - 1
    <2>3. n \in Nat /\ n <= Len(file.phdrs)
      <3>1. FirstOf(end) \in 1..Len(file.phdrs)
        BY <2>1, <2>2
      <3>2. Len(file.phdrs) \in Nat
        BY <1>1
      <3> HIDE DEF end
      <3> QED
        BY <3>1, <3>2
    <2>4. Scanned = SubSeq(file.phdrs, 1, n)
      BY <1>3 DEF Scanned
    <2> HIDE DEF n
    <2>5. n \in 0..Len(file.phdrs)
      BY <1>1, <2>3
    <2>6. /\ SubSeq(file.phdrs, 1, n) \in Seq(Elf64_Phdr)
          /\ Len(SubSeq(file.phdrs, 1, n)) = n
          /\ \A k \in 1..n : SubSeq(file.phdrs, 1, n)[k] = file.phdrs[k]
      BY <1>1, <2>5, FirstPart
    <2> QED
      BY <2>3, <2>4, <2>6
  <1> QED
    BY <1>2, <1>3

\* The loop of load_segment, when there are two PT_LOAD.
LEMMA LoadFacts ==
  ASSUME input \in Cases, TwoLoads
  PROVE  LET L == OfType("PT_LOAD")
         IN  /\ LoadOne \in L /\ LoadTwo \in L
             /\ L \subseteq 1..Len(Scanned)
             /\ LoadOne \in Nat /\ LoadTwo \in Nat /\ LoadOne < LoadTwo
             /\ \A k \in L : k = LoadOne \/ LoadTwo <= k
  <1> DEFINE L == OfType("PT_LOAD")
  <1>1. L \in SUBSET Nat /\ L \subseteq 1..Len(Scanned)
    BY ScannedFacts DEF OfType
  <1>2. IsFiniteSet(L) /\ Cardinality(L) >= 2
    <2>1. IsFiniteSet(1..Len(Scanned))
      BY ScannedFacts, FS_Interval
    <2> QED
      BY <1>1, <2>1, FS_Subset DEF TwoLoads
  <1> HIDE DEF L
  <1>3. L # {}
    BY <1>2, FS_EmptySet
  <1>4. LoadOne \in L /\ \A k \in L : LoadOne <= k
    BY <1>1, <1>3, FirstOfSet DEF LoadOne, L
  <1>5. L \ {LoadOne} # {}
    <2>1. Cardinality(L \ {LoadOne}) = Cardinality(L) - 1
      BY <1>2, <1>4, FS_RemoveElement
    <2>2. Cardinality(L) \in Nat
      BY <1>2, FS_CardinalityType
    <2>3. Cardinality(L \ {LoadOne}) # 0
      BY <1>2, <2>1, <2>2
    <2> QED
      BY <2>3, FS_EmptySet
  <1>6. LoadTwo \in L \ {LoadOne} /\ \A k \in L \ {LoadOne} : LoadTwo <= k
    <2>1. L \ {LoadOne} \in SUBSET Nat
      BY <1>1
    <2> QED
      BY <1>5, <2>1, FirstOfSet DEF LoadTwo, L
  <1>7. LoadOne < LoadTwo
    BY <1>1, <1>4, <1>6
  <1> QED
    BY <1>1, <1>4, <1>6, <1>7 DEF L

\* A header as the code reads it.
LEMMA HeaderFacts ==
  ASSUME input \in Cases, NEW k \in 1..Len(Scanned)
  PROVE  /\ Header(k) \in Elf64_Phdr
         /\ Header(k) = file.phdrs[k]
  BY ScannedFacts DEF Header

\* The kernel hands out a descriptor that nobody has.
LEMMA NewFdFacts ==
  ASSUME fds \subseteq 0..MaxFds - 1, Cardinality(fds) < MaxFds
  PROVE  NewFd \in 0..MaxFds - 1 /\ NewFd \notin fds
  <1> DEFINE All == 0..MaxFds - 1
             Free == All \ fds
  <1>1. MaxFds \in Nat
    BY ElfObjectAssumption
  <1>2. Cardinality(All) = MaxFds
    <2>1. Cardinality(0..MaxFds - 1) =
            IF 0 > MaxFds - 1 THEN 0 ELSE (MaxFds - 1) - 0 + 1
      BY <1>1, FS_Interval
    <2> QED
      BY <1>1, <2>1
  <1>3. Free # {}
    <2>1. Free = {} => fds = All
      OBVIOUS
    <2> HIDE DEF All
    <2> QED
      BY <1>1, <1>2, <2>1, ElfObjectAssumption
  <1>4. Free \in SUBSET Nat
    BY <1>1
  <1>5. FirstOf(Free) \in Free
    <2> HIDE DEF Free
    <2> QED
      BY <1>3, <1>4, FirstOfSet
  <1> QED
    BY <1>5 DEF NewFd

\* check_magic tests what the properties say of e_ident.
LEMMA MagicFacts ==
  ASSUME NEW m \in [1..EI_NIDENT -> 0..255]
  PROVE  check_magic(m) <=>
           /\ <<m[1], m[2], m[3], m[4]>> = ELFMAG
           /\ <<m[5], m[6], m[7]>> = <<2, 1, 1>>
           /\ m[8] \in {0, 3}
  <1>1. m \in Seq(Nat) /\ Len(m) = 8
    <2>1. m \in [1..8 -> Nat]
      BY DEF EI_NIDENT
    <2>2. \A n \in Nat : m \in [1..n -> Nat] => m \in Seq(Nat) /\ Len(m) = n
      BY FunctionIsSeq
    <2> QED
      BY <2>1, <2>2
  <1> DEFINE s == SubSeq(m, 1, 7)
             e == ELFMAG \o <<ELFCLASS64, ELFDATA2LSB, EV_CURRENT>>
  <1>2. s \in Seq(Nat) /\ Len(s) = 7 /\ \A j \in 1..7 : s[j] = m[j]
    <2>1. 7 \in 0..Len(m)
      BY <1>1
    <2> HIDE DEF e
    <2> QED
      BY <1>1, <2>1, FirstPart
  <1>3. /\ e \in Seq(Nat) /\ Len(e) = 7
        /\ e[1] = 127 /\ e[2] = 69 /\ e[3] = 76 /\ e[4] = 70
        /\ e[5] = 2 /\ e[6] = 1 /\ e[7] = 1
    BY DEF ELFMAG, ELFCLASS64, ELFDATA2LSB, EV_CURRENT
  <1> HIDE DEF s, e
  <1>4. s = e <=> /\ m[1] = 127 /\ m[2] = 69 /\ m[3] = 76 /\ m[4] = 70
                  /\ m[5] = 2 /\ m[6] = 1 /\ m[7] = 1
    <2>1. ASSUME \A j \in 1..7 : s[j] = e[j]
          PROVE  s = e
      <3>1. Len(s) = Len(e) /\ \A j \in 1..Len(s) : s[j] = e[j]
        BY <1>2, <1>3, <2>1
      <3> QED
        BY <1>2, <1>3, <3>1, SeqEqual
    <2>2. \A j \in 1..7 : j \in {1, 2, 3, 4, 5, 6, 7}
      OBVIOUS
    <2> QED
      BY <1>2, <1>3, <2>1, <2>2
  <1>5. <<m[1], m[2], m[3], m[4]>> = <<127, 69, 76, 70>> <=>
          m[1] = 127 /\ m[2] = 69 /\ m[3] = 76 /\ m[4] = 70
    OBVIOUS
  <1>6. <<m[5], m[6], m[7]>> = <<2, 1, 1>> <=> m[5] = 2 /\ m[6] = 1 /\ m[7] = 1
    OBVIOUS
  <1>7. check_magic(m) <=> s = e /\ m[8] \in {0, 3}
    BY DEF check_magic, s, e, ELFOSABI_NONE, ELFOSABI_GNU
  <1> QED
    BY <1>4, <1>5, <1>6, <1>7 DEF ELFMAG

\* A size that passes the test is a size an int can tell.
LEMMA SizeFacts ==
  ASSUME input \in Cases
  PROVE  /\ file_size \in Int
         /\ file_size >= EhdrSize <=>
              file.size % IntMod \in EhdrSize..(IntMod \div 2) - 1
  <1> DEFINE n == file.size % IntMod
             half == IntMod \div 2
  <1>1. IntMod \in Nat /\ IntMod > 0 /\ EhdrSize \in Nat /\ EhdrSize > 0
    BY ElfObjectAssumption
  <1>2. file.size \in Nat
    BY InputFacts DEF File
  <1>3. n \in Nat /\ n < IntMod /\ half \in Nat
    BY <1>1, <1>2
  <1>4. file_size = IF n < half THEN n ELSE n - IntMod
    BY DEF file_size, lseek
  <1> HIDE DEF n, half
  <1>5. /\ file_size \in Int
        /\ file_size >= EhdrSize <=> n \in EhdrSize..half - 1
    BY <1>1, <1>3, <1>4
  <1> QED
    BY <1>5 DEF n, half

\* Whole pages hold at least what is put into them.
LEMMA PageUpHolds ==
  ASSUME NEW n \in Nat
  PROVE  PageUp(n) \in Nat /\ n <= PageUp(n)
  <1>1. Page \in Nat /\ Page > 0
    BY ElfObjectAssumption
  <1> DEFINE m == n + Page - 1
             q == m \div Page
             r == m % Page
  <1>2. m \in Nat
    BY <1>1
  <1>3. q \in Nat /\ r \in Nat /\ r < Page /\ m = Page * q + r
    <2> HIDE DEF m
    <2> QED
      BY <1>1, <1>2
  <1>4. PageUp(n) = Page * q
    <2>1. PageUp(n) = q * Page
      BY DEF PageUp
    <2> HIDE DEF q
    <2> QED
      BY <1>1, <1>3, <2>1
  <1>5. Page * q \in Nat
    <2> HIDE DEF q
    <2> QED
      BY <1>1, <1>3
  <1> HIDE DEF q, r
  <1> QED
    BY <1>1, <1>3, <1>4, <1>5 DEF m

\* What load_segment writes where.
Filled(img, load1, load2) ==
  LET end == load2.p_vaddr + load2.p_filesz
  IN  /\ DOMAIN img = 0..PageUp(end) - 1
      /\ \A a \in DOMAIN img :
           img[a] = IF a \in load2.p_vaddr..end - 1
                      THEN load2.p_offset + a - load2.p_vaddr
                    ELSE IF a \in 0..load1.p_filesz - 1 THEN load1.p_offset + a
                    ELSE Zero

LEMMA SegmentBytes ==
  ASSUME input \in Cases, TwoLoads
  PROVE  /\ Header(LoadOne) \in Elf64_Phdr /\ Header(LoadTwo) \in Elf64_Phdr
         /\ Filled(Segments, Header(LoadOne), Header(LoadTwo))
  <1>1. Header(LoadOne) \in Elf64_Phdr /\ Header(LoadTwo) \in Elf64_Phdr
    BY LoadFacts, HeaderFacts
  <1>2. PICK load1, load2 : load1 = Header(LoadOne) /\ load2 = Header(LoadTwo)
    OBVIOUS
  <1> DEFINE end == load2.p_vaddr + load2.p_filesz
             Fresh == [a \in 0..PageUp(end) - 1 |-> Zero]
  <1>3. /\ load1.p_filesz \in Nat /\ load1.p_offset \in Nat
        /\ load2.p_vaddr \in Nat /\ load2.p_filesz \in Nat
        /\ load2.p_offset \in Nat
    BY <1>1, <1>2 DEF Elf64_Phdr
  <1>4. Segments = memcpy(memcpy(Fresh, 0, load1.p_offset, load1.p_filesz),
                          load2.p_vaddr, load2.p_offset, load2.p_filesz)
    BY <1>2 DEF Segments
  <1>5. PageUp(end) \in Nat
    BY <1>3, PageUpHolds
  <1>6. Filled(Segments, load1, load2)
    BY <1>3, <1>4, <1>5 DEF memcpy, Filled
  <1> QED
    BY <1>1, <1>2, <1>6

\* If the file has two PT_LOAD of its own, the loop takes those two.
LEMMA TwoOwnLoads ==
  ASSUME input \in Cases, TwoLoads, Cardinality(OwnLoads(file)) = 2
  PROVE  /\ LoadOne \in OwnLoads(file) /\ LoadTwo \in OwnLoads(file)
         /\ FirstOf(OwnLoads(file)) = LoadOne
         /\ LastOf(OwnLoads(file)) = LoadTwo
  <1> DEFINE O == OwnLoads(file)
             L == OfType("PT_LOAD")
             p == file.ehdr.e_phnum
  <1>1. p \in Nat /\ p <= Len(file.phdrs) /\ Len(file.phdrs) \in Nat
    BY InputFacts DEF File, Elf64_Ehdr
  <1>2. O \in SUBSET Nat /\ O \subseteq 1..p
    BY <1>1 DEF OwnLoads
  <1>3. \A k \in L : k <= p => k \in O
    BY <1>1, LoadFacts, ScannedFacts DEF OfType, OwnLoads
  <1>4. \A k \in O : k <= Len(Scanned) => k \in L
    BY <1>1, <1>2, ScannedFacts DEF OfType, OwnLoads
  <1> HIDE DEF O, p
  <1>5. PICK x \in O, y \in O : O = {x, y} /\ x < y
    <2>1. IsFiniteSet(O) /\ Cardinality(O) = 2
      <3>1. IsFiniteSet(1..p)
        BY <1>1, FS_Interval
      <3> QED
        BY <1>2, <3>1, FS_Subset DEF O
    <2>2. O # {}
      BY <2>1, FS_EmptySet
    <2>3. PICK x \in O : \A k \in O : x <= k
      BY <1>2, <2>2, FirstOfSet
    <2>4. Cardinality(O \ {x}) = 1 /\ IsFiniteSet(O \ {x})
      BY <2>1, <2>3, FS_RemoveElement
    <2>5. PICK y : O \ {x} = {y}
      BY <2>4, FS_Singleton
    <2>6. O = {x, y} /\ y \in O /\ y # x
      BY <2>3, <2>5
    <2>7. x \in Nat /\ y \in Nat /\ x <= y
      BY <1>2, <2>3, <2>6
    <2> QED
      BY <2>3, <2>6, <2>7
  <1>6. x \in Nat /\ y \in Nat /\ x <= p /\ y <= p
    BY <1>1, <1>2, <1>5
  <1>7. /\ LoadOne \in L /\ LoadTwo \in L /\ LoadOne \in Nat /\ LoadTwo \in Nat
        /\ LoadOne < LoadTwo /\ LoadTwo <= Len(Scanned)
        /\ \A k \in L : k = LoadOne \/ LoadTwo <= k
    BY LoadFacts, ScannedFacts
  <1> HIDE DEF L
  <1>8. LoadTwo <= p
    <2>1. CASE p <= Len(Scanned)
      <3>1. x \in L /\ y \in L
        BY <1>1, <1>4, <1>5, <1>6, <2>1, ScannedFacts
      <3> QED
        BY <1>1, <1>5, <1>6, <1>7, <3>1
    <2>2. CASE Len(Scanned) < p
      BY <1>1, <1>7, <2>2, ScannedFacts
    <2> QED
      BY <1>1, <2>1, <2>2, ScannedFacts
  <1>9. LoadOne = x /\ LoadTwo = y
    <2>1. LoadOne \in O /\ LoadTwo \in O
      BY <1>1, <1>3, <1>7, <1>8
    <2> QED
      BY <1>5, <1>6, <1>7, <2>1
  <1>10. FirstOf(O) = x
    <2>1. FirstOf(O) \in O /\ \A k \in O : FirstOf(O) <= k
      BY <1>2, <1>5, FirstOfSet
    <2> QED
      BY <1>5, <1>6, <2>1
  <1>11. LastOf(O) = y
    <2>1. LastOf(O) \in O /\ \A k \in O : k <= LastOf(O)
      BY <1>1, <1>2, <1>5, <1>6, LastOfSet
    <2> QED
      BY <1>5, <1>6, <2>1
  <1> QED
    BY <1>5, <1>9, <1>10, <1>11 DEF O

\* The image of a library of two segments.
LEMMA FaithfulSegments ==
  ASSUME input \in Cases, TwoLoads, image = Segments
  PROVE  ImageFaithful
  <1> SUFFICES ASSUME Cardinality(OwnLoads(file)) = 2
               PROVE  ImageFaithful
    BY DEF ImageFaithful
  <1> DEFINE first == file.phdrs[LoadOne]
             last == file.phdrs[LoadTwo]
             end == last.p_vaddr + last.p_filesz
  <1>1. /\ LoadOne \in OwnLoads(file) /\ LoadTwo \in OwnLoads(file)
        /\ FirstOf(OwnLoads(file)) = LoadOne
        /\ LastOf(OwnLoads(file)) = LoadTwo
    BY TwoOwnLoads
  <1>2. /\ Header(LoadOne) = first /\ Header(LoadTwo) = last
        /\ first \in Elf64_Phdr /\ last \in Elf64_Phdr
    BY LoadFacts, HeaderFacts
  <1>3. /\ first.p_vaddr \in Nat /\ first.p_filesz \in Nat /\ first.p_offset \in Nat
        /\ last.p_vaddr \in Nat /\ last.p_filesz \in Nat /\ last.p_offset \in Nat
    BY <1>2 DEF Elf64_Phdr
  <1>4. first.p_vaddr + first.p_filesz <= last.p_vaddr
    BY <1>1, LoadFacts, InputFacts DEF File
  <1>5. /\ DOMAIN image = 0..PageUp(end) - 1
        /\ \A a \in DOMAIN image :
             image[a] = IF a \in last.p_vaddr..end - 1
                          THEN last.p_offset + a - last.p_vaddr
                        ELSE IF a \in 0..first.p_filesz - 1 THEN first.p_offset + a
                        ELSE Zero
    <2>1. Filled(image, first, last)
      BY <1>2, SegmentBytes
    <2> HIDE DEF first, last
    <2> QED
      BY <2>1 DEF Filled
  <1>6. PageUp(end) \in Nat /\ end <= PageUp(end)
    BY <1>3, PageUpHolds
  <1> HIDE DEF first, last
  <1>7. ASSUME first.p_vaddr = 0, NEW b \in 0..first.p_filesz - 1
        PROVE  /\ first.p_vaddr + b \in DOMAIN image
               /\ image[first.p_vaddr + b] = first.p_offset + b
    <2>1. /\ first.p_vaddr + b = b /\ b \in 0..PageUp(end) - 1
          /\ ~(b \in last.p_vaddr..end - 1)
      BY <1>3, <1>4, <1>6, <1>7
    <2> QED
      BY <1>5, <1>7, <2>1
  <1>8. ASSUME NEW b \in 0..last.p_filesz - 1
        PROVE  /\ last.p_vaddr + b \in DOMAIN image
               /\ image[last.p_vaddr + b] = last.p_offset + b
    <2> DEFINE a == last.p_vaddr + b
    <2>1. /\ a \in last.p_vaddr..end - 1 /\ a \in 0..PageUp(end) - 1
          /\ last.p_offset + a - last.p_vaddr = last.p_offset + b
      BY <1>3, <1>6
    <2> HIDE DEF a
    <2>2. a \in DOMAIN image /\ image[a] = last.p_offset + b
      BY <1>5, <2>1
    <2> QED
      BY <2>2 DEF a
  <1>9. ASSUME NEW a \in end..PageUp(end) - 1
        PROVE  a \in DOMAIN image /\ image[a] = Zero
    <2>1. /\ a \in 0..PageUp(end) - 1
          /\ ~(a \in last.p_vaddr..end - 1) /\ ~(a \in 0..first.p_filesz - 1)
      BY <1>3, <1>4, <1>6
    <2> QED
      BY <1>5, <2>1
  <1> QED
    BY <1>1, <1>7, <1>8, <1>9 DEF ImageFaithful, first, last

-----------------------------------------------------------------------------
\* The manager's flags agree with how far load_elf has got.
StageInv ==
  /\ input \in Cases /\ mgr.main_ = input.main
  /\ pc \in {"find", "open"} => ~mgr.main_ /\ mgr.fd_ = -1
  /\ pc \in {"map", "segment", "crashed"} => ~mgr.main_ /\ mgr.fd_ # -1
  /\ pc \in {"find", "open", "map"} => mgr.ready_
  /\ pc = "refused" =>
       /\ ~mgr.main_
       /\ mgr.fd_ = -1 => mgr.error_
       /\ mgr.fd_ # -1 => file_size < EhdrSize \/ ~check_magic(file.ehdr.e_ident)
  /\ pc \in {"segment", "idle"} /\ ~mgr.main_ =>
       /\ mgr.fd_ # -1 /\ mgr.phdr_ /\ mgr.entry_ = FileBase
       /\ file_size >= EhdrSize /\ check_magic(file.ehdr.e_ident)
  /\ mgr.main_ => mgr.fd_ = -1
  /\ pc = "idle" /\ ~mgr.main_ /\ ~mgr.error_ => mgr.segment_
  /\ mgr.segment_ => /\ pc = "idle" /\ TwoLoads /\ Writable
                     /\ image = Segments

\* Who holds which descriptor.
FdInv ==
  /\ fds \ {mgr.fd_} = input.fds
  /\ mgr.fd_ # -1 => mgr.fd_ \in fds

\* A file that nobody moves is searched in the order of the directories.
SearchInv ==
  ~moved =>
    /\ present = input.present
    /\ pc = "find" => \A d \in Dir : d < path => ~Opens(d)
    /\ pc = "open" =>
         \/ Opens(path) /\ \A d \in Dir : d < path => ~Opens(d)
         \/ \A d \in Dir : ~Opens(d)
    /\ pc \notin {"find", "open"} /\ ~mgr.main_ =>
         IF input.present = {} \/ Cardinality(input.fds) = MaxFds
           THEN mgr.fd_ = -1 /\ mgr.error_
           ELSE mgr.fd_ # -1 /\ path = FirstOf(input.present)

\* The last answer is what a lookup gives, and hashmgr_ is set up once.
HashChoice ==
  IF get_dynamic_section("DT_SYMTAB") = 0 \/ get_dynamic_section("DT_STRTAB") = 0
    THEN "none" ELSE HashKind
AnswerInv ==
  /\ pc # "idle" \/ mgr.main_ => mgr.hashmgr_ = "none" /\ answer.name = <<>>
  /\ mgr.hashmgr_ \in {"none", HashChoice}
  /\ answer.name # <<>> => /\ answer.name \in Names
                           /\ answer.value = Value(answer.name)
                           /\ mgr.hashmgr_ = HashChoice

IInv == TypeOK /\ StageInv /\ FdInv /\ SearchInv /\ AnswerInv
-----------------------------------------------------------------------------
(***************************************************************************)
(* What a step that leaves the case alone cannot change.                   *)
(***************************************************************************)

\* Everything that is read from the file.
LEMMA SameFile ==
  ASSUME input' = input
  PROVE  /\ file' = file /\ file_size' = file_size /\ Scanned' = Scanned
         /\ TwoLoads' = TwoLoads /\ Writable' = Writable
         /\ Segments' = Segments
  <1>1. file' = file /\ file_size' = file_size
    BY DEF file, file_size, lseek
  <1>2. Scanned' = Scanned
    BY <1>1 DEF Scanned
  <1>3. OfType("PT_LOAD")' = OfType("PT_LOAD")
    BY <1>2 DEF OfType
  <1>4. LoadOne' = LoadOne /\ LoadTwo' = LoadTwo
    BY <1>3 DEF LoadOne, LoadTwo
  <1>5. /\ Header(LoadOne)' = Header(LoadOne)
        /\ Header(LoadTwo)' = Header(LoadTwo)
    BY <1>2, <1>4 DEF Header
  <1>6. TwoLoads' = TwoLoads
    BY <1>3 DEF TwoLoads
  <1>7. Writable' = Writable
    BY <1>5 DEF Writable, AsProt
  <1>8. Segments' = Segments
    BY <1>5 DEF Segments, memcpy, PageUp
  <1> QED
    BY <1>1, <1>2, <1>6, <1>7, <1>8

\* What a lookup gives, once the file is mapped.
LEMMA SameTables ==
  ASSUME input' = input, mgr'.main_ = mgr.main_, mgr'.entry_ = mgr.entry_
  PROVE  HashChoice' = HashChoice /\ \A name : Value(name)' = Value(name)
  <1>1. file' = file /\ Scanned' = Scanned
    BY SameFile
  <1>2. get_dynamic_table' = get_dynamic_table
    BY <1>1 DEF get_dynamic_table, OfType
  <1>3. get_addr_offset' = get_addr_offset
    BY <1>1 DEF get_addr_offset, Header
  <1>4. ASSUME NEW tag
        PROVE  get_dynamic_section(tag)' = get_dynamic_section(tag)
    BY <1>1, <1>2, <1>3 DEF get_dynamic_section
  <1>5. HashKind' = HashKind
    BY <1>4 DEF HashKind
  <1>6. HashTable' = HashTable
    BY <1>1, <1>4 DEF HashTable
  <1>7. HashChoice' = HashChoice
    BY <1>4, <1>5 DEF HashChoice
  <1>8. ASSUME NEW name
        PROVE  Value(name)' = Value(name)
    BY <1>1, <1>4, <1>5, <1>6 DEF Value
  <1> QED
    BY <1>7, <1>8

\* A lookup answers with an address, or with what memory decides.
LEMMA ValueType ==
  ASSUME input \in Cases, NEW name
  PROVE  Value(name) \in Nat \cup {Wild}
  <1>1. PICK last \in Nat : DOMAIN file.symtab = 0..last
    BY InputFacts DEF File
  <1> DEFINE i == lookup_symbol(HashTable, name, file.symtab)
  <1>2. i \in {0, Wild} \/ Matches(name, file.symtab, i)
    BY <1>1, LookupReturns
  <1> HIDE DEF i
  <1>3. CASE i \in {0, Wild}
    BY <1>3 DEF Value, i
  <1>4. CASE i \notin {0, Wild}
    <2>1. i \in DOMAIN file.symtab
      BY <1>2, <1>4 DEF Matches
    <2>2. file.symtab[i] \in Elf64_Sym
      BY <2>1, InputFacts DEF File
    <2>3. file.symtab[i].st_value \in Nat
      BY <2>2 DEF Elf64_Sym
    <2> QED
      BY <1>4, <2>3 DEF Value, i
  <1> QED
    BY <1>3, <1>4

\* The bytes load_segment writes come from the file, or are zero.
LEMMA SegmentType ==
  ASSUME input \in Cases, TwoLoads
  PROVE  \A a \in DOMAIN Segments : Segments[a] \in Nat \cup {Zero}
  <1>1. PICK load1, load2 : load1 = Header(LoadOne) /\ load2 = Header(LoadTwo)
    OBVIOUS
  <1>2. /\ load1 \in Elf64_Phdr /\ load2 \in Elf64_Phdr
        /\ Filled(Segments, load1, load2)
    BY <1>1, SegmentBytes
  <1>3. /\ load1.p_filesz \in Nat /\ load1.p_offset \in Nat
        /\ load2.p_vaddr \in Nat /\ load2.p_filesz \in Nat
        /\ load2.p_offset \in Nat
    BY <1>2 DEF Elf64_Phdr
  <1>4. PageUp(load2.p_vaddr + load2.p_filesz) \in Nat
    BY <1>3, PageUpHolds
  <1> QED
    BY <1>2, <1>3, <1>4 DEF Filled
-----------------------------------------------------------------------------
LEMMA IInvInit ==
  Init => IInv
  <1> SUFFICES ASSUME Init
               PROVE  IInv
    OBVIOUS
  <1> USE DEF Init
  <1>1. /\ input.present \subseteq Dir /\ input.fds \subseteq 0..MaxFds - 1
        /\ input.main \in BOOLEAN /\ MaxFds \in Nat
    BY InputFacts, ElfObjectAssumption
  <1>2. TypeOK
    BY <1>1 DEF TypeOK, Manager, NewManager, Dir
  <1>3. StageInv
    BY <1>1 DEF StageInv, NewManager
  <1>4. FdInv
    <2>1. mgr.fd_ = -1 /\ -1 \notin 0..MaxFds - 1
      BY <1>1 DEF NewManager
    <2> QED
      BY <1>1, <2>1 DEF FdInv
  <1>5. SearchInv
    BY <1>1 DEF SearchInv, NewManager, Dir
  <1>6. AnswerInv
    BY <1>1 DEF AnswerInv, NewManager
  <1> QED
    BY <1>2, <1>3, <1>4, <1>5, <1>6 DEF IInv

\* The directories are tried in their order.
LEMMA ProbeStep ==
  ASSUME IInv, Probe
  PROVE  IInv'
  <1> USE DEF IInv, Probe
  <1>1. input' = input /\ present' = present /\ moved' = moved /\ mgr' = mgr
        /\ fds' = fds /\ image' = image /\ answer' = answer
        /\ pc = "find" /\ pc' \in {"find", "open"}
    OBVIOUS
  <1>2. path \in Dir /\ path' \in Dir
    BY DEF TypeOK, Dir
  <1>3. TypeOK'
    BY <1>1, <1>2 DEF TypeOK
  <1>4. StageInv'
    BY <1>1, SameFile DEF StageInv
  <1>5. FdInv'
    BY <1>1 DEF FdInv
  <1>6. SearchInv'
    <2> SUFFICES ASSUME ~moved
                 PROVE  SearchInv'
      BY <1>1 DEF SearchInv
    <2>1. present = input.present /\ \A d \in Dir : d < path => ~Opens(d)
      BY <1>1 DEF SearchInv
    <2>2. \A d : Opens(d)' = Opens(d)
      BY <1>1 DEF Opens
    <2>3. CASE Opens(path)
      BY <1>1, <2>1, <2>2, <2>3 DEF SearchInv
    <2>4. CASE ~Opens(path) /\ path + 1 \in Dir
      <3>1. path' = path + 1 /\ pc' = "find"
        BY <1>1, <2>4
      <3>2. \A d \in Dir : d < path + 1 => ~Opens(d)
        BY <1>2, <2>1, <2>4 DEF Dir
      <3> QED
        BY <1>1, <2>1, <2>2, <3>1, <3>2 DEF SearchInv
    <2>5. CASE ~Opens(path) /\ path + 1 \notin Dir
      <3>1. pc' = "open"
        BY <2>5
      <3>2. \A d \in Dir : ~Opens(d)
        BY <1>2, <2>1, <2>5 DEF Dir
      <3> QED
        BY <1>1, <2>1, <2>2, <3>1, <3>2 DEF SearchInv
    <2> QED
      BY <2>3, <2>4, <2>5
  <1>7. AnswerInv'
    BY <1>1, SameTables DEF AnswerInv
  <1> QED
    BY <1>3, <1>4, <1>5, <1>6, <1>7

\* Somebody moves the file.
LEMMA MoveFileStep ==
  ASSUME IInv, MoveFile
  PROVE  IInv'
  <1> USE DEF IInv, MoveFile
  <1>1. TypeOK'
    BY DEF TypeOK
  <1>2. StageInv'
    BY SameFile DEF StageInv
  <1>3. FdInv' /\ SearchInv'
    BY DEF FdInv, SearchInv
  <1>4. AnswerInv'
    BY SameTables DEF AnswerInv
  <1> QED
    BY <1>1, <1>2, <1>3, <1>4

\* The file is opened, or cannot be.
LEMMA OpenStep ==
  ASSUME IInv, Open
  PROVE  IInv'
  <1> USE DEF IInv, Open
  <1>1. /\ input' = input /\ present' = present /\ moved' = moved
        /\ path' = path /\ image' = image /\ answer' = answer
        /\ pc = "open" /\ pc' \in {"map", "refused"}
    OBVIOUS
  <1>2. /\ input \in Cases /\ mgr \in Manager /\ ~mgr.main_ /\ mgr.fd_ = -1
        /\ fds \subseteq 0..MaxFds - 1
    BY <1>1 DEF TypeOK, StageInv
  <1>3. fds = input.fds
    <2>1. -1 \notin fds
      BY <1>2, ElfObjectAssumption
    <2> QED
      BY <1>2, <2>1 DEF FdInv
  <1>4. /\ mgr.hashmgr_ = "none" /\ answer.name = <<>>
        /\ ~mgr.segment_ /\ mgr.ready_
    BY <1>1 DEF AnswerInv, StageInv
  <1>5. IsFiniteSet(fds) /\ Cardinality(fds) \in Nat /\ Cardinality(fds) <= MaxFds
    <2> DEFINE All == 0..MaxFds - 1
    <2>1. MaxFds \in Nat
      BY ElfObjectAssumption
    <2>2. IsFiniteSet(All) /\ Cardinality(All) = MaxFds
      <3>1. /\ IsFiniteSet(0..MaxFds - 1)
            /\ Cardinality(0..MaxFds - 1) =
                 IF 0 > MaxFds - 1 THEN 0 ELSE (MaxFds - 1) - 0 + 1
        BY <2>1, FS_Interval
      <3> QED
        BY <2>1, <3>1
    <2>3. fds \subseteq All
      BY <1>2
    <2> HIDE DEF All
    <2>4. IsFiniteSet(fds) /\ Cardinality(fds) <= Cardinality(All)
      BY <2>2, <2>3, FS_Subset
    <2> QED
      BY <2>2, <2>4, FS_CardinalityType
  <1>6. CASE Opens(path)
    <2>1. NewFd \in 0..MaxFds - 1 /\ NewFd \notin fds
      BY <1>2, <1>6, NewFdFacts DEF Opens
    <2>2. /\ mgr' = [mgr EXCEPT !.fd_ = NewFd] /\ fds' = fds \cup {NewFd}
          /\ pc' = "map"
      BY <1>6
    <2>3. NewFd \in Nat /\ NewFd # -1 /\ NewFd \in -1..MaxFds - 1
      BY <2>1, ElfObjectAssumption
    <2> HIDE DEF Open
    <2>4. mgr' \in Manager
      BY <1>2, <2>2, <2>3 DEF Manager
    <2>5. /\ mgr'.fd_ = NewFd /\ mgr'.main_ = mgr.main_
          /\ mgr'.ready_ = mgr.ready_ /\ mgr'.error_ = mgr.error_
          /\ mgr'.segment_ = mgr.segment_ /\ mgr'.hashmgr_ = mgr.hashmgr_
          /\ mgr'.phdr_ = mgr.phdr_ /\ mgr'.entry_ = mgr.entry_
      BY <1>2, <2>2 DEF Manager
    <2>6. TypeOK'
      BY <1>1, <2>1, <2>2, <2>4 DEF TypeOK
    <2>7. StageInv'
      BY <1>1, <1>2, <1>4, <2>2, <2>3, <2>5 DEF StageInv
    <2>8. FdInv'
      BY <1>1, <1>3, <2>1, <2>2, <2>5 DEF FdInv
    <2>9. SearchInv'
      <3> SUFFICES ASSUME ~moved
                   PROVE  SearchInv'
        BY <1>1 DEF SearchInv
      <3>1. present = input.present /\ \A d \in Dir : d < path => ~Opens(d)
        BY <1>1, <1>6 DEF SearchInv, TypeOK
      <3>2. /\ path \in present /\ present \subseteq Dir /\ path \in Nat
            /\ Cardinality(fds) < MaxFds
        BY <1>6 DEF Opens, TypeOK, Dir
      <3>3. \A d \in present : path <= d
        BY <3>1, <3>2, <1>6 DEF Opens, Dir
      <3>4. path = FirstOf(present)
        <4>1. present \in SUBSET Nat /\ present # {}
          BY <3>2 DEF Dir
        <4>2. FirstOf(present) \in present /\ FirstOf(present) <= path
          BY <3>2, <4>1, FirstOfSet
        <4>3. path <= FirstOf(present) /\ FirstOf(present) \in Nat
          BY <3>3, <4>1, <4>2
        <4> QED
          BY <3>2, <4>2, <4>3
      <3>5. ~(input.present = {} \/ Cardinality(input.fds) = MaxFds)
        BY <1>3, <1>5, <3>1, <3>2, ElfObjectAssumption
      <3> QED
        BY <1>1, <2>2, <2>3, <2>5, <3>1, <3>4, <3>5 DEF SearchInv
    <2>10. AnswerInv'
      BY <1>1, <1>4, <2>2, <2>5 DEF AnswerInv
    <2> QED
      BY <2>6, <2>7, <2>8, <2>9, <2>10
  <1>7. CASE ~Opens(path)
    <2>1. /\ mgr' = [mgr EXCEPT !.error_ = TRUE, !.ready_ = FALSE]
          /\ fds' = fds /\ pc' = "refused"
      BY <1>7
    <2> HIDE DEF Open
    <2>2. mgr' \in Manager
      BY <1>2, <2>1 DEF Manager
    <2>3. /\ mgr'.fd_ = -1 /\ mgr'.main_ = mgr.main_ /\ mgr'.error_
          /\ mgr'.segment_ = mgr.segment_ /\ mgr'.hashmgr_ = mgr.hashmgr_
      BY <1>2, <2>1 DEF Manager
    <2>4. TypeOK'
      BY <1>1, <2>1, <2>2 DEF TypeOK
    <2>5. StageInv'
      BY <1>1, <1>2, <1>4, <2>1, <2>3 DEF StageInv
    <2>6. FdInv'
      BY <1>1, <1>2, <2>1, <2>3 DEF FdInv
    <2>7. SearchInv'
      <3> SUFFICES ASSUME ~moved
                   PROVE  SearchInv'
        BY <1>1 DEF SearchInv
      <3>1. present = input.present /\ \A d \in Dir : ~Opens(d)
        BY <1>1, <1>7 DEF SearchInv
      <3>2. input.present = {} \/ Cardinality(input.fds) = MaxFds
        <4>1. CASE Cardinality(fds) < MaxFds
          BY <3>1, <4>1 DEF Opens, TypeOK
        <4>2. CASE ~(Cardinality(fds) < MaxFds)
          BY <1>3, <1>5, <4>2, ElfObjectAssumption
        <4> QED
          BY <4>1, <4>2
      <3> QED
        BY <1>1, <2>1, <2>3, <3>1, <3>2 DEF SearchInv
    <2>8. AnswerInv'
      BY <1>1, <1>4, <2>1, <2>3 DEF AnswerInv
    <2> QED
      BY <2>4, <2>5, <2>6, <2>7, <2>8
  <1> QED
    BY <1>6, <1>7
\* The file is mapped, its size and its magic are tested.
LEMMA MapFileStep ==
  ASSUME IInv, MapFile
  PROVE  IInv'
  <1>1. /\ input' = input /\ present' = present /\ moved' = moved /\ fds' = fds
        /\ path' = path /\ image' = image /\ answer' = answer /\ pc = "map"
        /\ pc' = IF mgr'.ready_ THEN "segment" ELSE "refused"
    BY DEF MapFile
  <1>2. /\ input \in Cases /\ mgr \in Manager /\ ~mgr.main_ /\ mgr.fd_ # -1
        /\ mgr.ready_ /\ ~mgr.segment_ /\ mgr.hashmgr_ = "none"
        /\ answer.name = <<>> /\ mgr.main_ = input.main
    BY <1>1 DEF IInv, TypeOK, StageInv, AnswerInv
  <1>3. FileBase \in Nat /\ EhdrSize \in Nat /\ file_size \in Int
    BY <1>2, ElfObjectAssumption, SizeFacts
  <1>4. /\ mgr' \in Manager
        /\ mgr'.main_ = mgr.main_ /\ mgr'.fd_ = mgr.fd_
        /\ mgr'.segment_ = mgr.segment_ /\ mgr'.hashmgr_ = mgr.hashmgr_
        /\ mgr'.entry_ = FileBase
        /\ IF file_size < EhdrSize \/ ~check_magic(file.ehdr.e_ident)
             THEN ~mgr'.ready_ ELSE mgr'.ready_ /\ mgr'.phdr_
    <2>1. CASE file_size < EhdrSize
      <3>1. mgr' = [mgr EXCEPT !.entry_ = FileBase, !.ready_ = FALSE]
        BY <2>1 DEF MapFile
      <3> QED
        BY <1>2, <1>3, <2>1, <3>1 DEF Manager
    <2>2. CASE ~(file_size < EhdrSize) /\ ~check_magic(file.ehdr.e_ident)
      <3>1. mgr' = [mgr EXCEPT !.entry_ = FileBase, !.error_ = TRUE,
                               !.ready_ = FALSE]
        BY <2>2 DEF MapFile
      <3> QED
        BY <1>2, <1>3, <2>2, <3>1 DEF Manager
    <2>3. CASE ~(file_size < EhdrSize) /\ check_magic(file.ehdr.e_ident)
      <3>1. mgr' = [mgr EXCEPT !.entry_ = FileBase, !.phdr_ = TRUE]
        BY <2>3 DEF MapFile
      <3> QED
        BY <1>2, <1>3, <2>3, <3>1 DEF Manager
    <2> QED
      BY <2>1, <2>2, <2>3
  <1>5. TypeOK'
    BY <1>1, <1>4 DEF IInv, TypeOK
  <1>6. StageInv'
    BY <1>1, <1>2, <1>3, <1>4, SameFile DEF StageInv
  <1>7. FdInv'
    BY <1>1, <1>4 DEF IInv, FdInv
  <1>8. SearchInv'
    <2>1. pc' \in {"segment", "refused"} /\ ~mgr'.main_
      BY <1>1, <1>2, <1>4
    <2> SUFFICES ASSUME ~moved
                 PROVE  SearchInv'
      BY <1>1 DEF SearchInv
    <2>2. /\ present = input.present
          /\ IF input.present = {} \/ Cardinality(input.fds) = MaxFds
               THEN mgr.fd_ = -1 /\ mgr.error_
               ELSE mgr.fd_ # -1 /\ path = FirstOf(input.present)
      BY <1>1, <1>2 DEF IInv, SearchInv
    <2> QED
      BY <1>1, <1>2, <1>4, <2>1, <2>2 DEF SearchInv
  <1>9. AnswerInv'
    BY <1>1, <1>2, <1>4 DEF AnswerInv
  <1> QED
    BY <1>5, <1>6, <1>7, <1>8, <1>9 DEF IInv

\* The file cannot be mapped.
LEMMA MapFileFailsStep ==
  ASSUME IInv, MapFileFails
  PROVE  IInv'
  <1>1. /\ input' = input /\ present' = present /\ moved' = moved /\ fds' = fds
        /\ path' = path /\ image' = image /\ answer' = answer /\ pc = "map"
    BY DEF MapFileFails
  <1>2. /\ input \in Cases /\ mgr \in Manager /\ ~mgr.main_ /\ mgr.fd_ # -1
        /\ ~mgr.segment_ /\ mgr.hashmgr_ = "none" /\ answer.name = <<>>
        /\ mgr.main_ = input.main
    BY <1>1 DEF IInv, TypeOK, StageInv, AnswerInv
  <1>3. /\ mgr' \in Manager
        /\ mgr'.main_ = mgr.main_ /\ mgr'.fd_ = mgr.fd_
        /\ mgr'.segment_ = mgr.segment_ /\ mgr'.hashmgr_ = mgr.hashmgr_
        /\ \/ pc' = "refused" /\ file_size < EhdrSize
           \/ pc' = "crashed"
    <2>1. CASE file_size < EhdrSize
      <3>1. /\ mgr' = [mgr EXCEPT !.entry_ = Errno, !.ready_ = FALSE]
            /\ pc' = "refused"
        BY <2>1 DEF MapFileFails
      <3> QED
        BY <1>2, <2>1, <3>1 DEF Manager, Errno
    <2>2. CASE ~(file_size < EhdrSize)
      BY <1>2, <2>2 DEF MapFileFails
    <2> QED
      BY <2>1, <2>2
  <1>4. TypeOK'
    BY <1>1, <1>3 DEF IInv, TypeOK
  <1>5. StageInv'
    BY <1>1, <1>2, <1>3, SameFile DEF StageInv
  <1>6. FdInv'
    BY <1>1, <1>3 DEF IInv, FdInv
  <1>7. SearchInv'
    <2>1. pc' \in {"crashed", "refused"} /\ ~mgr'.main_
      BY <1>2, <1>3
    <2> SUFFICES ASSUME ~moved
                 PROVE  SearchInv'
      BY <1>1 DEF SearchInv
    <2>2. /\ present = input.present
          /\ IF input.present = {} \/ Cardinality(input.fds) = MaxFds
               THEN mgr.fd_ = -1 /\ mgr.error_
               ELSE mgr.fd_ # -1 /\ path = FirstOf(input.present)
      BY <1>1, <1>2 DEF IInv, SearchInv
    <2> QED
      BY <1>1, <1>2, <1>3, <2>1, <2>2 DEF SearchInv
  <1>8. AnswerInv'
    BY <1>1, <1>2, <1>3 DEF AnswerInv
  <1> QED
    BY <1>4, <1>5, <1>6, <1>7, <1>8 DEF IInv

\* load_segment, whatever it ends with.
LEMMA SegmentStep ==
  ASSUME IInv, NoSegment \/ LoadSegment \/ SegmentFaults
  PROVE  IInv'
  <1>1. /\ input' = input /\ present' = present /\ moved' = moved /\ fds' = fds
        /\ path' = path /\ answer' = answer /\ pc = "segment"
        /\ pc' \in {"idle", "crashed"}
    BY DEF NoSegment, LoadSegment, SegmentFaults
  <1>2. /\ input \in Cases /\ mgr \in Manager /\ ~mgr.main_ /\ mgr.fd_ # -1
        /\ ~mgr.segment_ /\ mgr.hashmgr_ = "none" /\ answer.name = <<>>
        /\ mgr.main_ = input.main /\ mgr.phdr_ /\ mgr.entry_ = FileBase
        /\ file_size >= EhdrSize /\ check_magic(file.ehdr.e_ident)
        /\ \A a \in DOMAIN image : image[a] \in Nat \cup {Zero}
    BY <1>1 DEF IInv, TypeOK, StageInv, AnswerInv
  <1>3. /\ mgr' \in Manager
        /\ mgr'.main_ = mgr.main_ /\ mgr'.fd_ = mgr.fd_
        /\ mgr'.hashmgr_ = mgr.hashmgr_ /\ mgr'.phdr_ = mgr.phdr_
        /\ mgr'.entry_ = mgr.entry_
        /\ \A a \in DOMAIN image' : image'[a] \in Nat \cup {Zero}
        /\ \/ pc' = "idle" /\ mgr'.error_ /\ ~mgr'.segment_
           \/ /\ pc' = "idle" /\ mgr'.segment_ /\ TwoLoads /\ Writable
              /\ image' = Segments
           \/ pc' = "crashed" /\ ~mgr'.segment_
    <2>1. CASE NoSegment
      <3>1. /\ mgr' = [mgr EXCEPT !.error_ = TRUE]
            /\ image' = image /\ pc' = "idle"
        BY <2>1 DEF NoSegment
      <3> QED
        BY <1>2, <3>1 DEF Manager
    <2>2. CASE LoadSegment
      <3>1. /\ mgr' = [mgr EXCEPT !.segment_ = TRUE]
            /\ image' = Segments /\ pc' = "idle" /\ TwoLoads /\ Writable
        BY <2>2 DEF LoadSegment
      <3>2. \A a \in DOMAIN image' : image'[a] \in Nat \cup {Zero}
        BY <1>2, <3>1, SegmentType
      <3> QED
        BY <1>2, <3>1, <3>2 DEF Manager
    <2>3. CASE SegmentFaults
      <3>1. mgr' = mgr /\ image' = image /\ pc' = "crashed"
        BY <2>3 DEF SegmentFaults
      <3> QED
        BY <1>2, <3>1
    <2> QED
      BY <2>1, <2>2, <2>3
  <1>4. TypeOK'
    BY <1>1, <1>3 DEF IInv, TypeOK
  <1>5. StageInv'
    BY <1>1, <1>2, <1>3, SameFile DEF StageInv
  <1>6. FdInv'
    BY <1>1, <1>3 DEF IInv, FdInv
  <1>7. SearchInv'
    <2> SUFFICES ASSUME ~moved
                 PROVE  SearchInv'
      BY <1>1 DEF SearchInv
    <2>1. /\ present = input.present
          /\ IF input.present = {} \/ Cardinality(input.fds) = MaxFds
               THEN mgr.fd_ = -1 /\ mgr.error_
               ELSE mgr.fd_ # -1 /\ path = FirstOf(input.present)
      BY <1>1, <1>2 DEF IInv, SearchInv
    <2> QED
      BY <1>1, <1>2, <1>3, <2>1 DEF SearchInv
  <1>8. AnswerInv'
    BY <1>1, <1>2, <1>3 DEF AnswerInv
  <1> QED
    BY <1>4, <1>5, <1>6, <1>7, <1>8 DEF IInv

\* A lookup, which sets the hash table up if it is the first.
LEMMA LookupStep ==
  ASSUME IInv, NEW name \in Names, get_symbol_address(name)
  PROVE  IInv'
  <1>1. /\ input' = input /\ present' = present /\ moved' = moved /\ fds' = fds
        /\ path' = path /\ image' = image /\ pc = "idle" /\ pc' = pc
        /\ ~mgr.main_ /\ answer' = [name |-> name, value |-> Value(name)]
    BY DEF get_symbol_address
  <1>2. /\ input \in Cases /\ mgr \in Manager
        /\ mgr.hashmgr_ \in {"none", HashChoice}
    BY DEF IInv, TypeOK, StageInv, AnswerInv
  <1>3. HashKind \in {"none", "gnu", "sysv", "both"}
    BY DEF HashKind
  <1>4. /\ mgr' \in Manager
        /\ mgr'.main_ = mgr.main_ /\ mgr'.fd_ = mgr.fd_
        /\ mgr'.segment_ = mgr.segment_ /\ mgr'.error_ = mgr.error_
        /\ mgr'.ready_ = mgr.ready_ /\ mgr'.phdr_ = mgr.phdr_
        /\ mgr'.entry_ = mgr.entry_ /\ mgr'.hashmgr_ = HashChoice
    <2>1. CASE get_dynamic_section("DT_SYMTAB") = 0
               \/ get_dynamic_section("DT_STRTAB") = 0
               \/ mgr.hashmgr_ # "none"
      <3>1. mgr' = mgr
        BY <2>1 DEF get_symbol_address
      <3>2. mgr.hashmgr_ = HashChoice
        BY <1>2, <2>1 DEF HashChoice
      <3> QED
        BY <1>2, <3>1, <3>2
    <2>2. CASE ~(get_dynamic_section("DT_SYMTAB") = 0
                 \/ get_dynamic_section("DT_STRTAB") = 0
                 \/ mgr.hashmgr_ # "none")
      <3>1. mgr' = [mgr EXCEPT !.hashmgr_ = HashKind]
        BY <2>2 DEF get_symbol_address
      <3>2. HashKind = HashChoice
        BY <2>2 DEF HashChoice
      <3> QED
        BY <1>2, <1>3, <3>1, <3>2 DEF Manager
    <2> QED
      BY <2>1, <2>2
  <1>5. TypeOK'
    <2>1. Value(name) \in Nat \cup {Wild}
      BY <1>2, ValueType
    <2> QED
      BY <1>1, <1>4, <2>1 DEF IInv, TypeOK
  <1>6. StageInv'
    BY <1>1, <1>4, SameFile DEF IInv, StageInv
  <1>7. FdInv' /\ SearchInv'
    BY <1>1, <1>4 DEF IInv, FdInv, SearchInv
  <1>8. AnswerInv'
    <2>1. HashChoice' = HashChoice /\ Value(name)' = Value(name)
      BY <1>1, <1>4, SameTables
    <2> QED
      BY <1>1, <1>4, <2>1 DEF AnswerInv
  <1> QED
    BY <1>5, <1>6, <1>7, <1>8 DEF IInv

LEMMA IInvStep ==
  IInv /\ [Next]_vars => IInv'
  <1> SUFFICES ASSUME IInv, [Next]_vars
               PROVE  IInv'
    OBVIOUS
  <1>1. CASE Probe
    BY <1>1, ProbeStep
  <1>2. CASE MoveFile
    BY <1>2, MoveFileStep
  <1>3. CASE Open
    BY <1>3, OpenStep
  <1>4. CASE MapFile
    BY <1>4, MapFileStep
  <1>5. CASE MapFileFails
    BY <1>5, MapFileFailsStep
  <1>6. CASE NoSegment \/ LoadSegment \/ SegmentFaults
    BY <1>6, SegmentStep
  <1>7. CASE \E name \in Names : get_symbol_address(name)
    BY <1>7, LookupStep
  <1>8. CASE UNCHANGED vars
    <2>1. /\ input' = input /\ present' = present /\ moved' = moved
          /\ mgr' = mgr /\ fds' = fds /\ path' = path /\ image' = image
          /\ answer' = answer /\ pc' = pc
      BY <1>8 DEF vars
    <2>2. TypeOK' /\ StageInv' /\ FdInv' /\ SearchInv'
      BY <2>1, SameFile
         DEF IInv, TypeOK, StageInv, FdInv, SearchInv, Opens
    <2>3. AnswerInv'
      BY <2>1, SameTables DEF IInv, AnswerInv
    <2> QED
      BY <2>2, <2>3 DEF IInv
  <1> QED
    BY <1>1, <1>2, <1>3, <1>4, <1>5, <1>6, <1>7, <1>8 DEF Next, Stopped

\* The invariant holds whatever the file, the kernel and its mover do.
LEMMA IInvHolds ==
  Spec => []IInv
  BY IInvInit, IInvStep, PTL DEF Spec
-----------------------------------------------------------------------------
(***************************************************************************)
(* What the invariant says of the file that was mapped.                    *)
(***************************************************************************)

\* Every variable keeps its type: no field of the manager ever holds what its
\* declaration in elf-manager.hh does not allow.
THEOREM ObjectTypes == Spec => []TypeOK
  <1>1. IInv => TypeOK
    BY DEF IInv
  <1> QED
    BY <1>1, IInvHolds, PTL

\* load_elf judges a file by its e_ident and by the int its size becomes, for
\* every file: what it refuses is refused for one of the two.
THEOREM JudgedByIdent == Spec => []JudgedByIdentAndInt
  <1>1. IInv => JudgedByIdentAndInt
    <2> SUFFICES ASSUME IInv, mgr.fd_ # -1
                 PROVE  JudgedByIdentAndInt
      BY DEF JudgedByIdentAndInt
    <2> DEFINE ident == file.ehdr.e_ident
               elf64 == /\ <<ident[1], ident[2], ident[3], ident[4]>> = ELFMAG
                        /\ <<ident[5], ident[6], ident[7]>> = <<2, 1, 1>>
                        /\ ident[8] \in {0, 3}
               sized == file.size % IntMod \in EhdrSize..(IntMod \div 2) - 1
    <2>1. input \in Cases
      BY DEF IInv, StageInv
    <2>2. ident \in [1..EI_NIDENT -> 0..255]
      BY <2>1, InputFacts DEF File, Elf64_Ehdr
    <2>3. check_magic(ident) <=> elf64
      <3> HIDE DEF ident
      <3> QED
        BY <2>2, MagicFacts
    <2>4. file_size >= EhdrSize <=> sized
      BY <2>1, SizeFacts
    <2>5. ~(file_size < EhdrSize /\ file_size >= EhdrSize)
      BY <2>1, SizeFacts, ElfObjectAssumption
    <2>6. /\ pc = "refused" => file_size < EhdrSize \/ ~check_magic(ident)
          /\ pc \in {"segment", "idle"} =>
               file_size >= EhdrSize /\ check_magic(ident)
      BY DEF IInv, StageInv
    <2> HIDE DEF elf64, sized
    <2>7. /\ pc = "refused" => ~(elf64 /\ sized)
          /\ pc \in {"segment", "idle"} => elf64 /\ sized
      BY <2>3, <2>4, <2>5, <2>6
    <2> QED
      BY <2>7 DEF JudgedByIdentAndInt, elf64, sized
  <1> QED
    BY <1>1, IInvHolds, PTL

\* A library's manager that operator bool calls good has an open file, known
\* headers and a segment that patch_relatable may write to, for every layout
\* of headers: one of the two PT_LOAD load_segment maps has PF_W.
THEOREM GoodUsable == Spec => []GoodIsUsable
  <1>1. IInv => GoodIsUsable
    <2> SUFFICES ASSUME IInv, Good(mgr), pc = "idle", ~mgr.main_
                 PROVE  /\ mgr.fd_ \in fds /\ mgr.phdr_ /\ mgr.segment_
                        /\ \E k \in {LoadOne, LoadTwo} : "PF_W" \in Header(k).p_flags
      BY DEF GoodIsUsable
    <2>1. /\ input \in Cases /\ mgr.fd_ \in fds /\ mgr.phdr_ /\ mgr.segment_
          /\ TwoLoads /\ Writable
      BY DEF IInv, StageInv, FdInv, Good
    <2>2. PICK f \in Header(LoadOne).p_flags \cup Header(LoadTwo).p_flags :
            AsProt[f] = "PROT_WRITE"
      BY <2>1 DEF Writable
    <2>3. /\ LoadOne \in 1..Len(Scanned) /\ LoadTwo \in 1..Len(Scanned)
      BY <2>1, LoadFacts
    <2>4. Header(LoadOne) \in Elf64_Phdr /\ Header(LoadTwo) \in Elf64_Phdr
      BY <2>1, <2>3, HeaderFacts
    <2>5. f \in PhdrFlag
      BY <2>2, <2>4 DEF Elf64_Phdr
    <2>6. f = "PF_W"
      BY <2>2, <2>5 DEF AsProt, PhdrFlag
    <2>7. \E k \in {LoadOne, LoadTwo} : "PF_W" \in Header(k).p_flags
      BY <2>2, <2>6
    <2> QED
      BY <2>1, <2>7
  <1> QED
    BY <1>1, IInvHolds, PTL

\* find_libpath leaves nothing open and load_elf keeps one descriptor; a file
\* that stays where it is comes from the first directory that has it.
THEOREM FirstDirectory == Spec => []FirstDirectoryWins
  <1>1. IInv => FirstDirectoryWins
    BY DEF IInv, FdInv, SearchInv, FirstDirectoryWins
  <1> QED
    BY <1>1, IInvHolds, PTL

\* load_segment puts every byte of a library of two segments where its
\* addresses say, for every size of the segments and of a page.
THEOREM FaithfulImage == Spec => []ImageFaithful
  <1>1. IInv => ImageFaithful
    <2> SUFFICES ASSUME IInv
                 PROVE  ImageFaithful
      OBVIOUS
    <2>1. CASE mgr.segment_
      BY <2>1, FaithfulSegments DEF IInv, StageInv
    <2>2. CASE ~mgr.segment_
      BY <2>2 DEF ImageFaithful
    <2> QED
      BY <2>1, <2>2
  <1> QED
    BY <1>1, IInvHolds, PTL

\* For every dynamic table, get_dynamic_section answers a pointer to the table
\* that the first entry of a tag names, in the mapped file or, for main_, at
\* its address; provided the first header of all has the distance between
\* address and file offset that the table has, which is all that
\* get_addr_offset goes by.
THEOREM TablesReached == Spec => []TablesFound
  <1>1. IInv => TablesFound
    <2> SUFFICES ASSUME IInv, pc = "idle", NEW k \in DOMAIN get_dynamic_table,
                        file.dyn[k].d_tag \in TableTag,
                        \A j \in 1..k - 1 : file.dyn[j].d_tag # file.dyn[k].d_tag,
                        Header(1).p_vaddr - Header(1).p_offset =
                          file.dyn[k].d_un - file.at[file.dyn[k].d_tag]
                 PROVE  get_dynamic_section(file.dyn[k].d_tag) =
                          IF mgr.main_ THEN file.dyn[k].d_un
                          ELSE FileBase + file.at[file.dyn[k].d_tag]
      BY DEF TablesFound
    <2> DEFINE tag == file.dyn[k].d_tag
               at == {j \in DOMAIN get_dynamic_table : file.dyn[j].d_tag = tag}
    <2>1. input \in Cases /\ (~mgr.main_ => mgr.entry_ = FileBase)
      BY DEF IInv, StageInv
    <2>2. file.dyn \in Seq(Elf64_Dyn) /\ file.at \in [TableTag -> Nat]
      BY <2>1, InputFacts DEF File
    <2>3. get_dynamic_table = file.dyn /\ OfType("PT_DYNAMIC") # {}
      BY DEF get_dynamic_table
    <2>4. k \in 1..Len(file.dyn) /\ Len(file.dyn) \in Nat
      BY <2>2, <2>3
    <2>5. FirstOf(at) = k
      <3>1. at \in SUBSET Nat /\ k \in at
        BY <2>2, <2>3, <2>4
      <3>2. FirstOf(at) \in at /\ FirstOf(at) <= k
        <4> HIDE DEF at
        <4> QED
          BY <3>1, FirstOfSet
      <3>3. file.dyn[FirstOf(at)].d_tag = tag /\ FirstOf(at) \in 1..Len(file.dyn)
        BY <2>2, <2>3, <3>2
      <3> HIDE DEF at
      <3> QED
        BY <2>4, <3>2, <3>3
    <2>6. get_dynamic_section(tag) = file.dyn[k].d_un - get_addr_offset
      BY <2>4, <2>5 DEF get_dynamic_section
    <2>7. /\ file.dyn[k].d_un \in Nat /\ file.at[tag] \in Nat
          /\ FileBase \in Nat
      <3>1. file.dyn[k] \in Elf64_Dyn
        BY <2>2, <2>4
      <3> QED
        BY <2>2, <3>1, ElfObjectAssumption DEF Elf64_Dyn
    <2>8. Header(1).p_vaddr \in Nat /\ Header(1).p_offset \in Nat
      <3>1. PICK j : j \in 1..Len(Scanned)
        BY <2>1, <2>3, ScannedFacts DEF OfType
      <3>2. 1 \in 1..Len(Scanned)
        BY <2>1, <3>1, ScannedFacts
      <3>3. Header(1) \in Elf64_Phdr
        BY <2>1, <3>2, HeaderFacts
      <3> QED
        BY <3>3 DEF Elf64_Phdr
    <2>9. get_addr_offset = IF mgr.main_ THEN 0
            ELSE Header(1).p_vaddr - (Header(1).p_offset + FileBase)
      BY <2>1 DEF get_addr_offset
    <2> QED
      BY <2>6, <2>7, <2>8, <2>9
  <1> QED
    BY <1>1, IInvHolds, PTL

-----------------------------------------------------------------------------
(***************************************************************************)
(* Lookups.                                                                *)
(***************************************************************************)

\* A name that only one symbol has is that symbol's.
LEMMA OneDefinition ==
  ASSUME NEW last \in Nat, DOMAIN file.symtab = 0..last,
         \A i, j \in 1..last :
           file.symtab[i].st_name = file.symtab[j].st_name => i = j,
         NEW i \in 1..last
  PROVE  Definition(file.symtab[i].st_name) = file.symtab[i].st_value
  <1> DEFINE name == file.symtab[i].st_name
             at == {j \in DOMAIN file.symtab \ {0} : file.symtab[j].st_name = name}
  <1>1. at \in SUBSET Nat /\ i \in at /\ \A j \in at : j = i
    OBVIOUS
  <1>2. FirstOf(at) = i
    <2> HIDE DEF at
    <2> QED
      BY <1>1, FirstOfSet
  <1>3. at # {}
    BY <1>1
  <1> QED
    BY <1>2, <1>3 DEF Definition

\* A lookup through DT_HASH compares every name.
LEMMA SysvLookup ==
  ASSUME input \in Cases, NEW name \in Names, HashChoice = "sysv"
  PROVE  Value(name) = Definition(name)
  <1>1. /\ get_dynamic_section("DT_SYMTAB") # 0
        /\ get_dynamic_section("DT_STRTAB") # 0
        /\ HashKind = "sysv" /\ get_dynamic_section("DT_GNU_HASH") = 0
    BY DEF HashChoice, HashKind
  <1>2. PICK last \in Nat : DOMAIN file.symtab = 0..last
    BY InputFacts DEF File
  <1>3. \A i \in 0..last : /\ file.symtab[i].st_name \in Seq(Character)
                           /\ file.symtab[i].st_value \in Nat
    BY <1>2, InputFacts DEF File, Elf64_Sym, String
  <1>4. name \in Seq(Character)
    BY ElfObjectAssumption DEF String
  <1> DEFINE named == {i \in DOMAIN file.symtab \ {0} :
                         strcmp(name, file.symtab[i].st_name) = 0}
             at == {i \in DOMAIN file.symtab \ {0} : file.symtab[i].st_name = name}
  <1>5. named = at
    <2>1. \A i \in DOMAIN file.symtab \ {0} :
            strcmp(name, file.symtab[i].st_name) = 0 <=>
              file.symtab[i].st_name = name
      BY <1>2, <1>3, <1>4, StrcmpZero
    <2> QED
      BY <2>1
  <1>6. lookup_symbol(HashTable, name, file.symtab) =
          IF named = {} THEN 0 ELSE FirstOf(named)
    BY <1>1 DEF lookup_symbol, HashTable, ElfHash, lookup_symbol_SV
  <1>7. at # {} => FirstOf(at) \in at /\ FirstOf(at) \notin {0, Wild}
    <2>1. at \in SUBSET Nat /\ 0 \notin at
      BY <1>2
    <2> HIDE DEF at
    <2> QED
      BY <2>1, FirstOfSet DEF Wild
  <1> HIDE DEF named
  <1> QED
    BY <1>1, <1>5, <1>6, <1>7 DEF Value, Definition

\* A lookup through DT_GNU_HASH goes to the name's bucket and along its chain.
LEMMA GnuValue ==
  ASSUME input \in Cases, NEW name \in Names, HashChoice = "gnu",
         WrittenTogether(file.symtab, file.gnu)
  PROVE  Value(name) = IF hash_symbol(name) <= 1 THEN 0 ELSE Definition(name)
  <1>1. /\ get_dynamic_section("DT_SYMTAB") # 0
        /\ get_dynamic_section("DT_STRTAB") # 0
        /\ HashKind = "gnu" /\ get_dynamic_section("DT_GNU_HASH") # 0
        /\ get_dynamic_section("DT_HASH") = 0
    BY DEF HashChoice, HashKind
  <1>2. PICK last \in Nat : DOMAIN file.symtab = 0..last
    BY InputFacts DEF File
  <1>3. \A i \in 1..last : /\ file.symtab[i].st_name \in Seq(Character)
                           /\ file.symtab[i].st_value \in Nat
    BY <1>2, InputFacts DEF File, Elf64_Sym, String
  <1>4. name \in Seq(Character) /\ hash_symbol(name) \in Nat
    BY ElfObjectAssumption, HashIsWord DEF String
  <1>5. LastOf(DOMAIN file.symtab) = last
    BY <1>2, LastOfInterval
  <1>6. \A i, j \in 1..last :
          file.symtab[i].st_name = file.symtab[j].st_name => i = j
    BY <1>5 DEF WrittenTogether
  <1>7. PICK first \in 1..last + 1, buckets \in 1..Len(file.gnu) :
          /\ file.gnu = GnuTable(file.symtab, first, buckets)
          /\ InBucketOrder(file.symtab, first, buckets)
          /\ \A i \in 1..first - 1 : file.symtab[i].st_value = 0
    BY <1>5 DEF WrittenTogether
  <1>8. HashTable = GnuHash(file.symtab, first, buckets)
    BY <1>1, <1>7 DEF HashTable, GnuHash
  <1> DEFINE i == lookup_symbol(HashTable, name, file.symtab)
  <1>9. buckets \in Nat \ {0}
    BY <1>7
  <1>10. IF i = 0
           THEN hash_symbol(name) > 1 =>
                  \A j \in first..last : file.symtab[j].st_name # name
           ELSE /\ i \in first..last /\ file.symtab[i].st_name = name
                /\ hash_symbol(name) > 1
    <2>1. PICK symtab : symtab = file.symtab
      OBVIOUS
    <2>2. /\ DOMAIN symtab = 0..last
          /\ \A j \in 1..last : symtab[j].st_name \in Seq(Character)
          /\ \A j, k \in 1..last : symtab[j].st_name = symtab[k].st_name => j = k
          /\ InBucketOrder(symtab, first, buckets)
          /\ name \in Seq(Character) /\ buckets \in Nat \ {0}
          /\ last \in Nat /\ first \in 1..last + 1
      BY <1>2, <1>3, <1>4, <1>6, <1>7, <1>9, <2>1
    <2>3. PICK r : r = lookup_symbol(GnuHash(symtab, first, buckets), name, symtab)
      OBVIOUS
    <2>4. IF r = 0
            THEN hash_symbol(name) > 1 =>
                   \A j \in first..last : symtab[j].st_name # name
            ELSE /\ r \in first..last /\ symtab[r].st_name = name
                 /\ hash_symbol(name) > 1
      BY <2>2, <2>3, GnuLookup
    <2>5. i = r
      BY <1>8, <2>1, <2>3 DEF i
    <2> QED
      BY <2>1, <2>4, <2>5
  <1> HIDE DEF i
  <1>11. CASE i = 0
    <2>1. Value(name) = 0
      BY <1>11 DEF Value, i
    <2>2. ASSUME hash_symbol(name) > 1
          PROVE  Definition(name) = 0
      <3> DEFINE at == {j \in DOMAIN file.symtab \ {0} :
                          file.symtab[j].st_name = name}
      <3>1. CASE at = {}
        BY <3>1 DEF Definition
      <3>2. ASSUME NEW j \in at
            PROVE  Definition(name) = 0
        <4>1. j \in 1..last /\ file.symtab[j].st_name = name
          BY <1>2
        <4>2. j \in 1..first - 1
          BY <1>7, <1>10, <1>11, <2>2, <4>1
        <4>3. Definition(name) = file.symtab[j].st_value
          BY <1>2, <1>6, <4>1, OneDefinition
        <4> QED
          BY <1>7, <4>2, <4>3
      <3> QED
        BY <3>1, <3>2
    <2> QED
      BY <1>4, <2>1, <2>2
  <1>12. CASE i # 0
    <2>1. /\ i \in 1..last /\ file.symtab[i].st_name = name
          /\ hash_symbol(name) > 1 /\ i # Wild
      BY <1>7, <1>10, <1>12 DEF Wild
    <2>2. Value(name) = file.symtab[i].st_value
      BY <1>1, <1>12, <2>1 DEF Value, i
    <2>3. Definition(name) = file.symtab[i].st_value
      BY <1>2, <1>6, <2>1, OneDefinition
    <2> QED
      BY <1>4, <2>1, <2>2, <2>3
  <1> QED
    BY <1>11, <1>12

\* Whatever table is read as whatever table, a symbol that is answered has the
\* name that was asked for.
LEMMA AnyValue ==
  ASSUME input \in Cases, NEW name \in Names,
         WrittenTogether(file.symtab, file.gnu)
  PROVE  Value(name) \in {0, Wild, Definition(name)}
  <1>1. PICK last \in Nat : DOMAIN file.symtab = 0..last
    BY InputFacts DEF File
  <1>2. \A i \in 0..last : file.symtab[i].st_name \in Seq(Character)
    BY <1>1, InputFacts DEF File, Elf64_Sym, String
  <1>3. name \in Seq(Character)
    BY ElfObjectAssumption DEF String
  <1>4. \A i, j \in 1..last :
          file.symtab[i].st_name = file.symtab[j].st_name => i = j
    BY <1>1, LastOfInterval DEF WrittenTogether
  <1> DEFINE i == lookup_symbol(HashTable, name, file.symtab)
  <1>5. i \in {0, Wild} \/ Matches(name, file.symtab, i)
    BY <1>1, LookupReturns
  <1> HIDE DEF i
  <1>6. CASE i \in {0, Wild}
    BY <1>6 DEF Value, i
  <1>7. CASE i \notin {0, Wild}
    <2>1. i \in 1..last /\ strcmp(name, file.symtab[i].st_name) = 0
      BY <1>1, <1>5, <1>7 DEF Matches
    <2>2. file.symtab[i].st_name = name
      BY <1>2, <1>3, <2>1, StrcmpZero
    <2>3. Definition(name) = file.symtab[i].st_value
      BY <1>1, <1>4, <2>1, <2>2, OneDefinition
    <2> QED
      BY <1>7, <2>3 DEF Value, i
  <1> QED
    BY <1>6, <1>7

\* If the symbol tables and GNU hash tables are what a static linker writes,
\* get_symbol_address finds what the object defines and nothing else, for
\* every number of symbols and buckets, every distribution of the names over
\* them and every width of the hash.
THEOREM LookupsFind ==
  ASSUME \A c \in Cases : WrittenTogether(c.file.symtab, c.file.gnu)
  PROVE  Spec => []FindsWhatIsThere
  <1>1. IInv => FindsWhatIsThere
    <2> SUFFICES ASSUME IInv, answer.name # <<>>
                 PROVE  FindsWhatIsThere
      BY DEF FindsWhatIsThere
    <2>1. /\ input \in Cases /\ answer.name \in Names
          /\ answer.value = Value(answer.name) /\ mgr.hashmgr_ = HashChoice
      BY DEF IInv, StageInv, AnswerInv
    <2>2. WrittenTogether(file.symtab, file.gnu)
      BY <2>1 DEF file
    <2>3. CASE HashChoice = "none"
      <3>1. Value(answer.name) = 0
        BY <2>3 DEF HashChoice, HashKind, Value
      <3> QED
        BY <2>1, <2>3, <3>1 DEF FindsWhatIsThere
    <2>4. CASE HashChoice = "sysv"
      BY <2>1, <2>4, SysvLookup DEF FindsWhatIsThere
    <2>5. CASE HashChoice = "gnu"
      BY <2>1, <2>2, <2>5, GnuValue DEF FindsWhatIsThere
    <2>6. CASE HashChoice = "both"
      BY <2>1, <2>2, <2>6, AnyValue DEF FindsWhatIsThere
    <2>7. HashChoice \in {"none", "sysv", "gnu", "both"}
      BY DEF HashChoice, HashKind
    <2> QED
      BY <2>3, <2>4, <2>5, <2>6, <2>7
  <1> QED
    BY <1>1, IInvHolds, PTL
=============================================================================

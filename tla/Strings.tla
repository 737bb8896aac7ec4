------------------------------- MODULE Strings -------------------------------
(***************************************************************************)
(* src/strings.cc and the conversions of src/utils.cc, as operators on     *)
(* strings (module ElfFormat).  A loop is written as what it stops at.     *)
(***************************************************************************)
EXTENDS ElfFormat

CONSTANT SizeMod   \* 2^64: where a negative int converted to size_t wraps

ASSUME StringsAssumption == SizeMod \in Nat \ {0}

\* A pointer to no string.
NullString == <<0>>

FirstOf(S) == CHOOSE i \in S : \A j \in S : i <= j
LastOf(S) == CHOOSE i \in S : \A j \in S : j <= i

\* s[i - 1]: a character or the NUL.
CharAt(s, i) == IF i <= Len(s) THEN s[i] ELSE 0
Positions(s, c) == {i \in 1..Len(s) : s[i] = c}

\* Where a comparison stops: the NUL of a, or a difference.
Stops(a, b) ==
  {i \in 1..Len(a) + 1 : CharAt(a, i) = 0 \/ CharAt(a, i) # CharAt(b, i)}

\* Mutant: a name that goes on is taken for equal.
strcmp_prefix(a, b) ==
  LET k == FirstOf(Stops(a, b)) IN IF k > Len(a) THEN 0 ELSE a[k] - CharAt(b, k)

strcmp(a, b) ==
  LET k == FirstOf(Stops(a, b)) IN CharAt(a, k) - CharAt(b, k)

\* Mutant: one character more is compared.
strncmp_more(a, b, len) ==
  LET k == FirstOf(Stops(a, b) \cup {len + 1})
  IN  CharAt(a, k) - CharAt(b, k)

\* `len > 1` ends the loop at character len, or at the first if len is 0.
strncmp(a, b, len) ==
  LET k == FirstOf(Stops(a, b) \cup {IF len > 1 THEN len ELSE 1})
  IN  CharAt(a, k) - CharAt(b, k)

\* The offset of the first c, or of the NUL.
strpos(s, c) ==
  IF Positions(s, c) = {} THEN Len(s) ELSE FirstOf(Positions(s, c)) - 1

\* The offset of the last c as its callers see it, converted to size_t: a
\* number larger than any length if there is none.
strrpos(s, c) ==
  (IF Positions(s, c) = {} THEN -1 ELSE LastOf(Positions(s, c)) - 1) % SizeMod

substr(s, start, len) ==
  LET end == IF start + len < Len(s) THEN start + len ELSE Len(s)
  IN  IF start > Len(s) THEN <<>> ELSE SubSeq(s, start + 1, end)

strcat(a, b) == a \o b

\* calloc of no bytes is null.
strdup(s) == IF s = <<>> THEN NullString ELSE s

-----------------------------------------------------------------------------
\* Mutant: the letters start at 'A' + 10.
Digit_shift(unit) == IF unit > 9 THEN 97 + unit ELSE 48 + unit

Digit(unit) == IF unit > 9 THEN 97 + unit - 10 ELSE 48 + unit

\* The digits of n, the most significant first: ztoa and ztoa16.
Digits(n, base) ==
  LET To[k \in 0..n] ==
        IF k < base THEN <<Digit(k)>>
        ELSE Append(To[k \div base], Digit(k % base))
  IN  To[n]
ztoa(n) == Digits(n, 10)
ztoa16(n) == Digits(n, 16)

Equals == 61     \* '='

\* The variable of the environment with this name: the first entry that
\* agrees with it in as many characters as the entry has before its '='.
getenv(env, name) ==
  LET hits == {i \in 1..Len(env) :
                 strncmp(name, env[i], strpos(env[i], Equals)) = 0}
      e == env[FirstOf(hits)]
      pos == strpos(e, Equals)
  IN  IF hits = {} THEN NullString ELSE substr(e, pos + 1, Len(e) - pos)

\* Mutant: objects of 32 bits pass.
check_magic_class(m) ==
  /\ SubSeq(m, 1, 4) = ELFMAG /\ m[6] = ELFDATA2LSB /\ m[7] = EV_CURRENT
  /\ m[8] \in {ELFOSABI_NONE, ELFOSABI_GNU}

check_magic(m) ==
  /\ SubSeq(m, 1, 7) = ELFMAG \o <<ELFCLASS64, ELFDATA2LSB, EV_CURRENT>>
  /\ m[8] \in {ELFOSABI_NONE, ELFOSABI_GNU}
=============================================================================

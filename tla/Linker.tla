------------------------------- MODULE Linker -------------------------------
(***************************************************************************)
(* Symbol resolution: ElfManager::link_dependencies and patch_relatable of *)
(* src/elf-manager.cc, run over the list of managers that load_dependencies*)
(* left in dependencies_ (module Loader).                                  *)
(*                                                                         *)
(* Object 0 is the manager the caller links (the program of ld_main, the   *)
(* handle of my_dlopen); objects 1..N are the loaded libraries in load     *)
(* order, which is the search order.  The call stack is the variable       *)
(* `stack`: one record per activation of link_dependencies.                *)
(*                                                                         *)
(* A symbol's address in an object is abstracted to the object; a write to *)
(* a relocation's target is abstracted to the slot <<object, table, k>>.   *)
(***************************************************************************)
EXTENDS Naturals, Sequences, FiniteSetsExt

CONSTANTS
  N,          \* number of loaded libraries
  Sym,        \* names of dynamic symbols
  NONE,       \* a relocation of type R_SH_NONE
  RELATIVE,   \* a relocation without a symbol: st_name is the empty string
  Programs,   \* the inputs to start from
  StackLimit  \* activations that fit on the C++ stack

Object == 0..N
Table == 1..2     \* DT_RELA, then DT_JMPREL
Reloc == Sym \cup {NONE, RELATIVE}

\* A library's segment_ is null if load_segment failed.  That of object 0, if
\* it is the manager on ld_main's stack, is never set: it is the address 0 the
\* program is at, unless it lies on bytes that are not zero.
Program ==
  [defs : [1..N -> SUBSET Sym],           \* what get_symbol_address finds
   table : [Object -> [Table -> Seq(Reloc)]],
   unmapped : SUBSET Object,              \* whose segment_ is not one
   scope : 0..N]                          \* managers in the search list

ASSUME LinkerAssumption ==
  /\ N \in Nat
  /\ {NONE, RELATIVE} \cap Sym = {}
  /\ NONE # RELATIVE
  /\ Programs \subseteq Program
  /\ StackLimit \in Nat \ {0}

VARIABLES
  prog,     \* the objects being linked; never changes
  got,      \* the object whose address each slot holds, 0 if not written
  error,    \* the objects whose error_ is set
  stack,    \* the activations of link_dependencies
  entered,  \* history: how often each object was linked
  status    \* linking, accepted, refused, overflow, crashed or wild

vars == <<prog, got, error, stack, entered, status>>

\* The relocations of program q, and the symbol each one is about.
SlotsOf(q) == UNION {{<<o, t, k>> : k \in 1..Len(q.table[o][t])} :
                       o \in Object, t \in Table}
Slot == SlotsOf(prog)
RelocOf(q, s) == q.table[s[1]][s[2]][s[3]]

\* The managers of the search list that define a symbol.
Definers(q, r) == {j \in 1..q.scope : r \in q.defs[j]}

\* Mutant: a search that finds nothing leaves the index past the list.
Provider_end(q, r) ==
  IF Definers(q, r) = {} THEN q.scope + 1
  ELSE CHOOSE j \in Definers(q, r) : \A i \in Definers(q, r) : j <= i

\* The first manager of the search list that defines a symbol; 0 if none.
\* No object defines the empty name, so RELATIVE has no provider.
Provider(q, r) ==
  IF Definers(q, r) = {} THEN 0
  ELSE CHOOSE j \in Definers(q, r) : \A i \in Definers(q, r) : j <= i

-----------------------------------------------------------------------------
Activation(o) == [obj |-> o, tab |-> 1, k |-> 1, at |-> "resolve"]

top == stack[Len(stack)]
Relocs == prog.table[top.obj][top.tab]
Found == Provider(prog, Relocs[top.k])
Here == <<top.obj, top.tab, top.k>>
Resume(f) == [stack EXCEPT ![Len(stack)] = f]
Running(phase) == status = "linking" /\ stack # <<>> /\ top.at = phase

\* One table is finished: the other one follows, or the activation returns.
\* The caller of the outermost activation tests error_ of object 0 alone.
LeaveTable ==
  IF top.tab = 1
    THEN /\ stack' = Resume([top EXCEPT !.tab = 2, !.k = 1])
         /\ UNCHANGED status
    ELSE /\ stack' = SubSeq(stack, 1, Len(stack) - 1)
         /\ status' = IF Len(stack) > 1 THEN "linking"
                      ELSE IF 0 \in error THEN "refused" ELSE "accepted"

TypeOK ==
  /\ prog \in Program
  /\ got \in [Slot -> Object]
  /\ error \subseteq Object
  /\ stack \in Seq([obj : Object, tab : Table, k : Nat \ {0},
                    at : {"resolve", "bind"}])
  /\ entered \in [Object -> Nat]
  /\ status \in {"linking", "accepted", "refused", "overflow", "crashed",
                 "wild"}

Init ==
  /\ prog \in Programs
  /\ got = [s \in Slot |-> 0]
  /\ error = prog.unmapped \ {0}
  /\ stack = <<Activation(0)>>
  /\ entered = [o \in Object |-> IF o = 0 THEN 1 ELSE 0]
  /\ status = "linking"

EndOfTable ==
  /\ Running("resolve")
  /\ top.k > Len(Relocs)
  /\ LeaveTable
  /\ UNCHANGED <<prog, entered, got, error>>

\* R_SH_NONE: patch_relatable returns, the relocations after it are skipped.
StopAtNone ==
  /\ Running("resolve")
  /\ top.k <= Len(Relocs)
  /\ Relocs[top.k] = NONE
  /\ LeaveTable
  /\ UNCHANGED <<prog, entered, got, error>>

AtSymbol ==
  /\ Running("resolve")
  /\ top.k <= Len(Relocs)
  /\ Relocs[top.k] # NONE

\* Mutant: a missing symbol is printed and not recorded.
NotFound_silent ==
  /\ AtSymbol
  /\ Found = 0
  /\ stack' = Resume([top EXCEPT !.k = @ + 1])
  /\ UNCHANGED <<prog, entered, got, error, status>>

\* Mutant: the loop does not advance over a missing symbol.
NotFound_retry ==
  /\ AtSymbol
  /\ Found = 0
  /\ error' = error \cup {top.obj}
  /\ UNCHANGED <<prog, entered, got, stack, status>>

\* No manager of the search list defines the symbol.
NotFound ==
  /\ AtSymbol
  /\ Found = 0
  /\ error' = error \cup {top.obj}
  /\ stack' = Resume([top EXCEPT !.k = @ + 1])
  /\ UNCHANGED <<prog, entered, got, status>>

\* Mutant: a write through a null segment_ goes unnoticed.
Write_near(p) ==
  /\ got' = [got EXCEPT ![Here] = p]
  /\ stack' = Resume([top EXCEPT !.k = @ + 1, !.at = "resolve"])
  /\ UNCHANGED <<prog, entered, error, status>>

\* The write of an address of object p into the slot at hand.  It goes to
\* segment_ + r_offset: nowhere if segment_ is null, anywhere if it was never
\* set.
Write(p) ==
  IF top.obj \in prog.unmapped
    THEN /\ status' = IF top.obj = 0 THEN "wild" ELSE "crashed"
         /\ UNCHANGED <<prog, entered, got, error, stack>>
    ELSE /\ got' = [got EXCEPT ![Here] = p]
         /\ stack' = Resume([top EXCEPT !.k = @ + 1, !.at = "resolve"])
         /\ UNCHANGED <<prog, entered, error, status>>

\* The symbol is the object's own: no recursion.
BindOwn ==
  /\ AtSymbol
  /\ Found = top.obj
  /\ top.obj # 0
  /\ Write(top.obj)

\* Mutant: the address is written before its object is linked.
LinkProvider_late ==
  /\ AtSymbol
  /\ Found \notin {0, top.obj}
  /\ Len(stack) < StackLimit
  /\ got' = [got EXCEPT ![Here] = Found]
  /\ stack' = Append(Resume([top EXCEPT !.at = "bind"]), Activation(Found))
  /\ entered' = [entered EXCEPT ![Found] = @ + 1]
  /\ UNCHANGED <<prog, error, status>>

\* Mutant: an object is linked for its own symbols too.
LinkProvider_own ==
  /\ AtSymbol
  /\ Found # 0
  /\ Len(stack) < StackLimit
  /\ stack' = Append(Resume([top EXCEPT !.at = "bind"]), Activation(Found))
  /\ entered' = [entered EXCEPT ![Found] = @ + 1]
  /\ UNCHANGED <<prog, got, error, status>>

\* Mutant: an object that linking has entered once is not entered again.
LinkProvider_once ==
  /\ AtSymbol
  /\ Found \notin {0, top.obj}
  /\ Len(stack) < StackLimit
  /\ IF entered[Found] > 0
       THEN stack' = Resume([top EXCEPT !.at = "bind"]) /\ UNCHANGED entered
       ELSE /\ stack' = Append(Resume([top EXCEPT !.at = "bind"]),
                               Activation(Found))
            /\ entered' = [entered EXCEPT ![Found] = @ + 1]
  /\ UNCHANGED <<prog, got, error, status>>

\* Another object provides it: that object is linked first, every time.
LinkProvider ==
  /\ AtSymbol
  /\ LET p == Found
     IN  /\ p \notin {0, top.obj}
         /\ IF Len(stack) < StackLimit
              THEN /\ stack' = Append(Resume([top EXCEPT !.at = "bind"]),
                                      Activation(p))
                   /\ entered' = [entered EXCEPT ![p] = @ + 1]
                   /\ UNCHANGED status
              ELSE /\ status' = "overflow"
                   /\ UNCHANGED <<stack, entered>>
  /\ UNCHANGED <<prog, got, error>>

\* The provider's activation has returned: the address is written.
BindLinked ==
  /\ Running("bind")
  /\ Write(Found)

Stopped == status # "linking" /\ UNCHANGED vars

Next ==
  \/ EndOfTable \/ StopAtNone \/ NotFound
  \/ BindOwn \/ LinkProvider \/ BindLinked
  \/ Stopped

Spec == Init /\ [][Next]_vars
FairSpec == Spec /\ WF_vars(Next)

-----------------------------------------------------------------------------
\* The slots patch_relatable reaches: those no R_SH_NONE precedes.
Reached(q, s) ==
  \A k \in 1..s[3] : q.table[s[1]][s[2]][k] # NONE

\* Object o is as patched as it will ever be: slots behind an R_SH_NONE stay
\* unwritten, and so do those whose symbol nobody defines.
Linked(o) ==
  \A s \in Slot : s[1] = o /\ Reached(prog, s) =>
                    got[s] = Provider(prog, RelocOf(prog, s))

\* Which objects use which: a relocation that is reached resolves to another.
Uses(q) ==
  {<<s[1], Provider(q, RelocOf(q, s))>> : s \in {z \in SlotsOf(q) : Reached(q, z)}}

\* The uses have no cycle: every set of libraries has one that uses no other
\* library of the set.
Acyclic(q) ==
  LET uses == Uses(q)
  IN  \A S \in SUBSET (1..N) : S # {} =>
        \E o \in S : \A p \in S \ {o} : <<o, p>> \notin uses

\* No slot ever points into another object whose own relocations are not done,
\* so code reached through a bound symbol finds bound whatever of its own
\* symbols ever will be.
ProvidersLinkedFirst ==
  \A s \in Slot : got[s] \notin {0, s[1]} => Linked(got[s])

\* Control reaches the program only if each of its own symbols was found.
AcceptedIsBound ==
  status = "accepted" =>
    \A s \in Slot : s[1] = 0 /\ Reached(prog, s) => got[s] # 0

\* The linker gets away with a library whose segments were never mapped, and
\* binds symbols to addresses near zero, only if none of that library's own
\* relocations can be resolved: one that can is written through a null
\* segment_ and ends the process.  So it is with a program whose segment_ is
\* garbage, whether or not anything is bound to it.
UnmappedBindsNothing ==
  status \in {"accepted", "refused"} =>
    \A o \in prog.unmapped :
      o = 0 \/ (\E s \in Slot : got[s] = o) =>
        \A t \in Slot : t[1] = o /\ Reached(prog, t) =>
                          Provider(prog, RelocOf(prog, t)) = 0

\* The price of linking a provider again for every symbol it provides: an
\* object is linked once per path of uses that leads to it, so the number of
\* activations multiplies from one object to the next.
LinkedOncePerPath ==
  LET Binds(p, o) == {s \in Slot : /\ s[1] = p /\ Reached(prog, s)
                                  /\ Provider(prog, RelocOf(prog, s)) = o}
      ways(o) == [p \in Object |-> entered[p] * Cardinality(Binds(p, o))]
  IN  status \in {"accepted", "refused"} =>
        \A o \in 1..N : entered[o] = SumFunctionOnSet(ways(o), Object \ {o})

\* Without a cycle of uses an object is never linked inside its own linking,
\* so the recursion is no deeper than the number of objects.
NoReentry ==
  \A j, k \in 1..Len(stack) :
    j # k /\ stack[j].obj = stack[k].obj => ~Acyclic(prog)

\* Without a cycle of uses linking ends, and a stack with room for one
\* activation per object suffices.
AcyclicLinkingEnds ==
  Acyclic(prog) /\ StackLimit > N => <>(status \notin {"linking", "overflow"})

\* link_dependencies binds as module Binding allows: every object the first
\* one uses, no other, each slot once, to its first definer, and after that
\* one's own slots; then it is judged by the first object's symbols alone.
Promise == INSTANCE Binding
           WITH names <- [s \in {z \in Slot : Reached(prog, z)} |->
                            Provider(prog, RelocOf(prog, s))],
                bound <- [s \in {z \in Slot : got[z] # 0} |-> got[s]],
                verdict <- IF status \in {"overflow", "crashed", "wild"}
                             THEN "dead" ELSE status
BindsProvidersFirst == Promise!BindSpec

\* "[ERROR] Unable to link some symbols" is printed instead of running the
\* program when a symbol is missing: no object it is bound to misses one.
AcceptedMeansNoMissingSymbol ==
  status = "accepted" =>
    \A s \in Slot : Reached(prog, s) /\ Provider(prog, RelocOf(prog, s)) = 0 =>
      \A t \in Slot : got[t] # s[1]

\* "Support dl_open": an object is refused only for a symbol that none of the
\* libraries it needs defines.
RefusedForMissingSymbol ==
  status = "refused" =>
    \E s \in Slot : s[1] = 0 /\ \A j \in 1..N : RelocOf(prog, s) \notin prog.defs[j]

\* Libraries may use each other: the recursion ends whatever the uses.
StackSuffices == status # "overflow"
=============================================================================

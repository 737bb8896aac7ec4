---------------------------- MODULE LinkerProofs ----------------------------
(***************************************************************************)
(* What holds of module Linker for every number of libraries, every table  *)
(* of relocations, every assignment of definitions and every stack.        *)
(***************************************************************************)
EXTENDS Linker, StackLemmas, TLAPS

\* A frame of the stack, the relocations it is at and what is to be bound.
Frame == [obj : Object, tab : Table, k : Nat \ {0}, at : {"resolve", "bind"}]
TableOf(q, f) == q.table[f.obj][f.tab]
Target(q, f) == Provider(q, TableOf(q, f)[f.k])
Names(q, s) == Provider(q, RelocOf(q, s))

\* The slots of frame f's object that it has left behind.
Behind(q, f) ==
  {s \in SlotsOf(q) : /\ s[1] = f.obj /\ Reached(q, s)
                      /\ s[2] < f.tab \/ (s[2] = f.tab /\ s[3] < f.k)}

\* Object o is as patched as it will ever be, if slots hold g.
LinkedIn(q, g, o) ==
  \A s \in SlotsOf(q) : s[1] = o /\ Reached(q, s) => g[s] = Names(q, s)

\* A frame has met no R_SH_NONE in its table; what it waits for is another
\* object; what it left behind is bound, or error_ says that it is not.
FrameOK(q, g, e, f) ==
  /\ \A k \in 1..f.k - 1 : /\ k <= Len(TableOf(q, f))
                           /\ TableOf(q, f)[k] # NONE
  /\ f.at = "bind" =>
       /\ f.k <= Len(TableOf(q, f)) /\ TableOf(q, f)[f.k] # NONE
       /\ Target(q, f) \notin {0, f.obj}
  /\ \A s \in Behind(q, f) : /\ g[s] = Names(q, s)
                             /\ g[s] = 0 => f.obj \in e

\* Every frame is as it should be; frame 1 alone is object 0's; the frames
\* below the top wait for the one above them.
StackInv ==
  /\ \A j \in 1..Len(stack) :
       /\ FrameOK(prog, got, error, stack[j])
       /\ stack[j].obj = 0 <=> j = 1
  /\ \A j \in 1..Len(stack) - 1 :
       /\ stack[j].at = "bind"
       /\ stack[j + 1].obj = Target(prog, stack[j])

\* An activation that goes on after a call finds the provider linked.
TopInv ==
  status = "linking" =>
    /\ stack # <<>>
    /\ top.at = "bind" => LinkedIn(prog, got, Target(prog, top))

\* A slot that holds an address was reached, in an object that is mapped and
\* either linked or being linked, and it holds its provider, which is linked.
SlotInv ==
  \A s \in Slot :
    got[s] # 0 =>
      /\ got[s] = Names(prog, s) /\ Reached(prog, s)
      /\ s[1] \notin prog.unmapped
      /\ \/ LinkedIn(prog, got, s[1])
         \/ \E j \in 1..Len(stack) : stack[j].obj = s[1]
      /\ got[s] = s[1] \/ LinkedIn(prog, got, got[s])

\* Once the outermost activation has returned.
EndInv ==
  status \in {"accepted", "refused"} =>
    /\ stack = <<>>
    /\ LinkedIn(prog, got, 0)
    /\ status = "accepted" =>
         \A s \in Slot : s[1] = 0 /\ Reached(prog, s) => got[s] # 0

IInv == TypeOK /\ StackInv /\ TopInv /\ SlotInv /\ EndInv

-----------------------------------------------------------------------------
\* What a slot is.
LEMMA SlotFacts ==
  ASSUME NEW q \in Program
  PROVE  /\ \A o \in Object, t \in Table :
              /\ q.table[o][t] \in Seq(Reloc)
              /\ \A k \in 1..Len(q.table[o][t]) : <<o, t, k>> \in SlotsOf(q)
         /\ \A s \in SlotsOf(q) :
              /\ s[1] \in Object /\ s[2] \in Table
              /\ s[3] \in 1..Len(q.table[s[1]][s[2]])
              /\ s = <<s[1], s[2], s[3]>>
  <1>1. \A o \in Object, t \in Table : q.table[o][t] \in Seq(Reloc)
    BY DEF Program
  <1>2. ASSUME NEW o \in Object, NEW t \in Table,
               NEW k \in 1..Len(q.table[o][t])
        PROVE  <<o, t, k>> \in SlotsOf(q)
    <2> DEFINE A == {<<o, t, j>> : j \in 1..Len(q.table[o][t])}
    <2>1. <<o, t, k>> \in A
      OBVIOUS
    <2>2. A \in {{<<a, b, j>> : j \in 1..Len(q.table[a][b])} :
                    a \in Object, b \in Table}
      OBVIOUS
    <2> HIDE DEF A
    <2> QED
      BY <2>1, <2>2 DEF SlotsOf
  <1>3. ASSUME NEW s \in SlotsOf(q)
        PROVE  /\ s[1] \in Object /\ s[2] \in Table
               /\ s[3] \in 1..Len(q.table[s[1]][s[2]])
               /\ s = <<s[1], s[2], s[3]>>
    <2>1. PICK o \in Object, t \in Table :
            \E k \in 1..Len(q.table[o][t]) : s = <<o, t, k>>
      BY DEF SlotsOf
    <2>2. PICK k \in 1..Len(q.table[o][t]) : s = <<o, t, k>>
      BY <2>1
    <2> QED
      BY <2>2
  <1> QED
    BY <1>1, <1>2, <1>3

\* A provider is a library, or there is none.
LEMMA ProviderIsLibrary ==
  ASSUME NEW q \in Program, NEW r
  PROVE  /\ Provider(q, r) \in Object
         /\ Provider(q, r) # 0 => Provider(q, r) \in 1..N
  <1> DEFINE D == Definers(q, r)
  <1>1. D \subseteq 1..N /\ N \in Nat
    BY LinkerAssumption DEF Definers, Program
  <1>2. CASE D = {}
    BY <1>1, <1>2 DEF Provider, Object
  <1>3. CASE D # {}
    <2>1. \E j \in D : \A i \in D : j <= i
      <3>1. D \in SUBSET Nat
        BY <1>1
      <3> QED
        BY <1>3, <3>1, LeastNumber
    <2>2. Provider(q, r) \in D
      BY <1>3, <2>1 DEF Provider
    <2> QED
      BY <1>1, <2>2 DEF Object
  <1> QED
    BY <1>2, <1>3

\* What a slot names is an object.
LEMMA NamesIsObject ==
  ASSUME NEW q \in Program, NEW s \in SlotsOf(q)
  PROVE  Names(q, s) \in Object
  BY ProviderIsLibrary DEF Names

\* A slot that a frame is at, and the tables it has.
LEMMA FrameFacts ==
  ASSUME NEW q \in Program, NEW f \in Frame
  PROVE  /\ f.obj \in Object /\ f.tab \in Table /\ f.k \in Nat \ {0}
         /\ TableOf(q, f) \in Seq(Reloc)
         /\ Len(TableOf(q, f)) \in Nat
         /\ f.k <= Len(TableOf(q, f)) =>
              /\ <<f.obj, f.tab, f.k>> \in SlotsOf(q)
              /\ Names(q, <<f.obj, f.tab, f.k>>) = Target(q, f)
  <1>1. f.obj \in Object /\ f.tab \in Table /\ f.k \in Nat \ {0}
    BY DEF Frame
  <1>2. TableOf(q, f) \in Seq(Reloc)
    BY <1>1, SlotFacts DEF TableOf
  <1>3. Len(TableOf(q, f)) \in Nat
    BY <1>2
  <1>4. ASSUME f.k <= Len(TableOf(q, f))
        PROVE  <<f.obj, f.tab, f.k>> \in SlotsOf(q)
    <2>1. f.k \in 1..Len(q.table[f.obj][f.tab])
      BY <1>1, <1>3, <1>4 DEF TableOf
    <2> QED
      BY <1>1, <2>1, SlotFacts
  <1>5. Names(q, <<f.obj, f.tab, f.k>>) = Target(q, f)
    BY DEF Names, Target, RelocOf, TableOf
  <1> QED
    BY <1>1, <1>2, <1>3, <1>4, <1>5

-----------------------------------------------------------------------------
(***************************************************************************)
(* Slots are written with what they name and errors are never taken back:  *)
(* then what is linked stays linked and what a frame left behind stays     *)
(* bound.                                                                  *)
(***************************************************************************)
Grows(q, g, h) == \A s \in SlotsOf(q) : h[s] = g[s] \/ h[s] = Names(q, s)

LEMMA LinkedStays ==
  ASSUME NEW q, NEW g, NEW h, Grows(q, g, h), NEW o, LinkedIn(q, g, o)
  PROVE  LinkedIn(q, h, o)
  BY DEF Grows, LinkedIn

LEMMA FrameStays ==
  ASSUME NEW q, NEW g, NEW h, Grows(q, g, h), NEW e, NEW d, e \subseteq d,
         NEW f, FrameOK(q, g, e, f)
  PROVE  FrameOK(q, h, d, f)
  <1>1. ASSUME NEW s \in Behind(q, f)
        PROVE  h[s] = Names(q, s) /\ (h[s] = 0 => f.obj \in d)
    <2>1. s \in SlotsOf(q)
      BY DEF Behind
    <2>2. g[s] = Names(q, s) /\ (g[s] = 0 => f.obj \in e)
      BY DEF FrameOK
    <2> QED
      BY <2>1, <2>2 DEF Grows
  <1> QED
    BY <1>1 DEF FrameOK

\* A new activation has left nothing behind.
LEMMA FreshFrame ==
  ASSUME NEW q \in Program, NEW g, NEW e, NEW o \in Object
  PROVE  Activation(o) \in Frame /\ FrameOK(q, g, e, Activation(o))
  <1>1. Activation(o) \in Frame
    BY DEF Activation, Frame, Table
  <1>2. Behind(q, Activation(o)) = {}
    BY SlotFacts DEF Behind, Activation, Table
  <1> QED
    BY <1>1, <1>2 DEF FrameOK, Activation

\* A frame with new values in it.
LEMMA FrameUpdates ==
  ASSUME NEW A, NEW B, NEW C, NEW D,
         NEW f \in [obj : A, tab : B, k : C, at : D], NEW k \in C
  PROVE  /\ \A at \in D :
              LET h == [f EXCEPT !.k = k, !.at = at]
              IN  /\ h \in [obj : A, tab : B, k : C, at : D]
                  /\ h.obj = f.obj /\ h.tab = f.tab /\ h.k = k /\ h.at = at
         /\ \A tab \in B :
              LET h == [f EXCEPT !.tab = tab, !.k = k]
              IN  /\ h \in [obj : A, tab : B, k : C, at : D]
                  /\ h.obj = f.obj /\ h.tab = tab /\ h.k = k /\ h.at = f.at
         /\ \A at \in D :
              LET h == [f EXCEPT !.at = at]
              IN  /\ h \in [obj : A, tab : B, k : C, at : D]
                  /\ h.obj = f.obj /\ h.tab = f.tab /\ h.k = f.k /\ h.at = at
  OBVIOUS

\* A frame goes past a relocation that is bound, or reported.
LEMMA FrameAdvances ==
  ASSUME NEW q \in Program, NEW g, NEW e, NEW f \in Frame, FrameOK(q, g, e, f),
         f.k <= Len(TableOf(q, f)), TableOf(q, f)[f.k] # NONE,
         g[<<f.obj, f.tab, f.k>>] = Target(q, f),
         Target(q, f) = 0 => f.obj \in e
  PROVE  LET h == [f EXCEPT !.k = @ + 1, !.at = "resolve"]
         IN  h \in Frame /\ h.obj = f.obj /\ FrameOK(q, g, e, h)
  <1> DEFINE h == [f EXCEPT !.k = @ + 1, !.at = "resolve"]
  <1>0. /\ h.obj = f.obj /\ h.tab = f.tab /\ h.k = f.k + 1
        /\ h.at = "resolve" /\ h \in Frame
    <2>1. f.k + 1 \in Nat \ {0} /\ "resolve" \in {"resolve", "bind"}
      BY DEF Frame
    <2> QED
      BY <2>1, FrameUpdates DEF Frame
  <1>1. f.k \in Nat \ {0} /\ f.tab \in Table
    BY FrameFacts
  <1> HIDE DEF h
  <1>2. TableOf(q, h) = TableOf(q, f)
    BY <1>0 DEF TableOf
  <1>3. ASSUME NEW k \in 1..h.k - 1
        PROVE  k <= Len(TableOf(q, h)) /\ TableOf(q, h)[k] # NONE
    <2>1. k = f.k \/ k \in 1..f.k - 1
      BY <1>0, <1>1
    <2> QED
      BY <1>2, <2>1 DEF FrameOK
  <1>4. ASSUME NEW s \in Behind(q, h)
        PROVE  g[s] = Names(q, s) /\ (g[s] = 0 => h.obj \in e)
    <2>1. /\ s \in SlotsOf(q) /\ s[1] = f.obj /\ Reached(q, s)
          /\ s[2] < f.tab \/ (s[2] = f.tab /\ s[3] < f.k + 1)
      BY <1>0 DEF Behind
    <2>2. s = <<s[1], s[2], s[3]>> /\ s[3] \in Nat
      BY <2>1, SlotFacts
    <2>3. CASE s[2] = f.tab /\ s[3] = f.k
      <3>1. s = <<f.obj, f.tab, f.k>>
        BY <2>1, <2>2, <2>3
      <3> QED
        BY <3>1, <1>0, FrameFacts
    <2>4. CASE ~(s[2] = f.tab /\ s[3] = f.k)
      <3>1. s \in Behind(q, f)
        BY <2>1, <2>2, <2>4, <1>1 DEF Behind
      <3> QED
        BY <3>1, <1>0 DEF FrameOK
    <2> QED
      BY <2>3, <2>4
  <1>5. FrameOK(q, g, e, h)
    BY <1>0, <1>3, <1>4 DEF FrameOK
  <1> QED
    BY <1>0, <1>5 DEF h

\* Where a table ends, for a frame.
AtEnd(q, f) == f.k > Len(TableOf(q, f)) \/ TableOf(q, f)[f.k] = NONE

\* A reached slot of the table at whose end a frame is lies behind it.
LEMMA ReachedIsBehind ==
  ASSUME NEW q \in Program, NEW g, NEW e, NEW f \in Frame, FrameOK(q, g, e, f),
         AtEnd(q, f), NEW s \in SlotsOf(q), s[1] = f.obj, s[2] = f.tab,
         Reached(q, s)
  PROVE  s \in Behind(q, f)
  <1>1. /\ s[3] \in 1..Len(TableOf(q, f)) /\ f.k \in Nat \ {0}
        /\ Len(TableOf(q, f)) \in Nat
    BY SlotFacts, FrameFacts DEF TableOf
  <1>2. s[3] < f.k
    <2>1. CASE f.k > Len(TableOf(q, f))
      BY <1>1, <2>1
    <2>2. CASE TableOf(q, f)[f.k] = NONE
      <3>1. \A k \in 1..s[3] : TableOf(q, f)[k] # NONE
        BY DEF Reached, TableOf
      <3> QED
        BY <1>1, <2>2, <3>1
    <2> QED
      BY <2>1, <2>2 DEF AtEnd
  <1> QED
    BY <1>2 DEF Behind

\* The first table is finished: the frame goes to the second one.
LEMMA FrameTurns ==
  ASSUME NEW q \in Program, NEW g, NEW e, NEW f \in Frame, FrameOK(q, g, e, f),
         f.tab = 1, f.at = "resolve", AtEnd(q, f)
  PROVE  LET h == [f EXCEPT !.tab = 2, !.k = 1]
         IN  h \in Frame /\ h.obj = f.obj /\ h.at = "resolve" /\ FrameOK(q, g, e, h)
  <1> DEFINE h == [f EXCEPT !.tab = 2, !.k = 1]
  <1>0. /\ h.obj = f.obj /\ h.tab = 2 /\ h.k = 1 /\ h.at = "resolve"
        /\ h \in Frame
    <2>1. 2 \in Table /\ 1 \in Nat \ {0}
      BY DEF Table
    <2> QED
      BY <2>1, FrameUpdates DEF Frame
  <1> HIDE DEF h
  <1>1. ASSUME NEW s \in Behind(q, h)
        PROVE  g[s] = Names(q, s) /\ (g[s] = 0 => h.obj \in e)
    <2>1. /\ s \in SlotsOf(q) /\ s[1] = f.obj /\ Reached(q, s)
          /\ s[2] < 2 \/ (s[2] = 2 /\ s[3] < 1)
      BY <1>0 DEF Behind
    <2>2. s[2] = 1
      <3>1. s[2] \in Table /\ s[3] \in Nat \ {0}
        BY <2>1, SlotFacts
      <3> QED
        BY <2>1, <3>1 DEF Table
    <2>3. s \in Behind(q, f)
      BY <2>1, <2>2, ReachedIsBehind
    <2> QED
      BY <1>0, <2>3 DEF FrameOK
  <1>2. FrameOK(q, g, e, h)
    BY <1>0, <1>1 DEF FrameOK
  <1> QED
    BY <1>0, <1>2 DEF h

\* The second table is finished: the object is linked.
LEMMA FrameDone ==
  ASSUME NEW q \in Program, NEW g, NEW e, NEW f \in Frame, FrameOK(q, g, e, f),
         f.tab = 2, AtEnd(q, f)
  PROVE  /\ LinkedIn(q, g, f.obj)
         /\ \A s \in SlotsOf(q) :
              s[1] = f.obj /\ Reached(q, s) /\ g[s] = 0 => f.obj \in e
  <1>1. ASSUME NEW s \in SlotsOf(q), s[1] = f.obj, Reached(q, s)
        PROVE  s \in Behind(q, f)
    <2>1. s[2] \in Table
      BY SlotFacts
    <2>2. CASE s[2] = 2
      BY <1>1, <2>2, ReachedIsBehind
    <2>3. CASE s[2] = 1
      BY <1>1, <2>3 DEF Behind
    <2> QED
      BY <2>1, <2>2, <2>3 DEF Table
  <1> QED
    BY <1>1 DEF LinkedIn, FrameOK

-----------------------------------------------------------------------------
\* Linking begins with object 0, whatever error_ its caller left.
Begins ==
  /\ prog \in Program
  /\ got = [s \in Slot |-> 0]
  /\ error \subseteq Object
  /\ stack = <<Activation(0)>>
  /\ entered \in [Object -> Nat]
  /\ status = "linking"

LEMMA InitBegins == Init => Begins
  BY LinkerAssumption DEF Init, Begins, Program, Object

LEMMA BeginsType == Begins => TypeOK
  <1> SUFFICES ASSUME Begins
               PROVE  TypeOK
    OBVIOUS
  <1>1. N \in Nat /\ 0 \in Object
    BY LinkerAssumption DEF Object
  <1>2. stack \in Seq(Frame)
    BY <1>1 DEF Begins, Activation, Frame, Table
  <1> QED
    BY <1>1, <1>2 DEF Begins, TypeOK, Frame

LEMMA TypeInit == Init => TypeOK
  BY InitBegins, BeginsType

\* What the top of the stack is.
LEMMA TopFacts ==
  ASSUME TypeOK, stack # <<>>
  PROVE  /\ top \in Frame /\ stack \in Seq(Frame) /\ Len(stack) \in Nat \ {0}
         /\ Found \in Object
         /\ Relocs = TableOf(prog, top) /\ Found = Target(prog, top)
  <1>1. stack \in Seq(Frame)
    BY DEF TypeOK, Frame
  <1>2. Len(stack) \in Nat \ {0} /\ top \in Frame
    BY <1>1, LastOfSeq DEF top
  <1>3. Found \in Object
    BY ProviderIsLibrary DEF TypeOK, Found
  <1> QED
    BY <1>1, <1>2, <1>3 DEF TableOf, Target, Relocs, Found

LEMMA TypeWrite ==
  ASSUME TypeOK, stack # <<>>, NEW p \in Object, Write(p)
  PROVE  TypeOK'
  <1>1. top \in Frame /\ stack \in Seq(Frame)
    BY TopFacts
  <1>2. CASE top.obj \in prog.unmapped
    BY <1>2 DEF TypeOK, Write, Slot
  <1>3. CASE top.obj \notin prog.unmapped
    <2> DEFINE f == [top EXCEPT !.k = @ + 1, !.at = "resolve"]
    <2>1. f \in Frame
      <3>1. top.k + 1 \in Nat \ {0}
        BY <1>1 DEF Frame
      <3> QED
        BY <1>1, <3>1, FrameUpdates DEF Frame
    <2>2. stack' = [stack EXCEPT ![Len(stack)] = f]
      BY <1>3 DEF Write, Resume
    <2>3. stack' \in Seq(Frame)
      BY <1>1, <2>1, <2>2, ResumeSeq
    <2>4. got' \in [Slot -> Object] /\ Slot' = Slot
      BY <1>3 DEF Write, TypeOK, Slot
    <2> QED
      BY <1>3, <2>3, <2>4 DEF Write, TypeOK, Frame
  <1> QED
    BY <1>2, <1>3

LEMMA TypeLeaveTable ==
  ASSUME TypeOK, stack # <<>>, LeaveTable, UNCHANGED <<prog, entered, got, error>>
  PROVE  TypeOK'
  <1>1. top \in Frame /\ stack \in Seq(Frame)
    BY TopFacts
  <1>2. CASE top.tab = 1
    <2> DEFINE f == [top EXCEPT !.tab = 2, !.k = 1]
    <2>1. f \in Frame
      <3>1. 2 \in Table /\ 1 \in Nat \ {0}
        BY DEF Table
      <3> QED
        BY <1>1, <3>1, FrameUpdates DEF Frame
    <2>2. stack' = [stack EXCEPT ![Len(stack)] = f]
      BY <1>2 DEF LeaveTable, Resume
    <2>3. stack' \in Seq(Frame)
      BY <1>1, <2>1, <2>2, ResumeSeq
    <2> QED
      BY <1>2, <2>3 DEF LeaveTable, TypeOK, Frame, Slot
  <1>3. CASE top.tab # 1
    <2>1. stack' \in Seq(Frame)
      BY <1>1, <1>3, PopSeq DEF LeaveTable
    <2> QED
      BY <1>3, <2>1 DEF LeaveTable, TypeOK, Frame, Slot
  <1> QED
    BY <1>2, <1>3

LEMMA TypeStep == TypeOK /\ [Next]_vars => TypeOK'
  <1> SUFFICES ASSUME TypeOK, [Next]_vars
               PROVE  TypeOK'
    OBVIOUS
  <1>1. ASSUME EndOfTable \/ StopAtNone
        PROVE  TypeOK'
    BY <1>1, TypeLeaveTable DEF EndOfTable, StopAtNone, Running
  <1>2. CASE NotFound
    <2> DEFINE f == [top EXCEPT !.k = @ + 1]
    <2>1. top \in Frame /\ stack \in Seq(Frame) /\ stack # <<>>
      BY <1>2, TopFacts DEF NotFound, AtSymbol, Running
    <2>2. f \in Frame
      BY <2>1 DEF Frame
    <2>3. stack' \in Seq(Frame)
      <3>1. stack' = [stack EXCEPT ![Len(stack)] = f]
        BY <1>2 DEF NotFound, Resume
      <3> QED
        BY <2>1, <2>2, <3>1, ResumeSeq
    <2>4. error' \subseteq Object
      BY <1>2, <2>1 DEF NotFound, TypeOK, Frame
    <2> QED
      BY <1>2, <2>3, <2>4 DEF NotFound, TypeOK, Frame, Slot
  <1>3. CASE BindOwn
    BY <1>3, TopFacts, TypeWrite DEF BindOwn, AtSymbol, Running
  <1>4. CASE LinkProvider
    <2>1. top \in Frame /\ stack \in Seq(Frame) /\ stack # <<>> /\ Found \in Object
      BY <1>4, TopFacts DEF LinkProvider, AtSymbol, Running
    <2>2. CASE Len(stack) < StackLimit
      <3> DEFINE f == [top EXCEPT !.at = "bind"]
      <3>1. f \in Frame /\ Activation(Found) \in Frame
        BY <2>1, FreshFrame DEF Frame, TypeOK
      <3>2. stack' = Append([stack EXCEPT ![Len(stack)] = f], Activation(Found))
        BY <1>4, <2>2 DEF LinkProvider, Resume
      <3>3. stack' \in Seq(Frame)
        BY <2>1, <3>1, <3>2, PushSeq
      <3>4. entered' \in [Object -> Nat]
        <4>1. entered' = [entered EXCEPT ![Found] = @ + 1]
          BY <1>4, <2>2 DEF LinkProvider
        <4>2. entered \in [Object -> Nat]
          BY DEF TypeOK
        <4> QED
          BY <2>1, <4>1, <4>2
      <3> QED
        BY <1>4, <2>2, <3>3, <3>4 DEF LinkProvider, TypeOK, Frame, Slot
    <2>3. CASE ~(Len(stack) < StackLimit)
      BY <1>4, <2>3 DEF LinkProvider, TypeOK, Slot
    <2> QED
      BY <2>2, <2>3
  <1>5. CASE BindLinked
    BY <1>5, TopFacts, TypeWrite DEF BindLinked, Running
  <1>6. CASE UNCHANGED vars
    BY <1>6 DEF vars, TypeOK, Slot
  <1> QED
    BY <1>1, <1>2, <1>3, <1>4, <1>5, <1>6 DEF Next, Stopped

\* Linking keeps its variables in their types: got has exactly the slots of
\* the program, whatever patch_relatable writes.
THEOREM TypeCorrect == Spec => []TypeOK
  BY TypeInit, TypeStep, PTL DEF Spec
-----------------------------------------------------------------------------
(***************************************************************************)
(* What the three changes of the stack keep.                               *)
(***************************************************************************)
Keeps == prog' = prog /\ Grows(prog, got, got') /\ error \subseteq error'

LEMMA Resumes ==
  ASSUME TypeOK, StackInv, stack # <<>>, Keeps,
         NEW f \in Frame, f.obj = top.obj, FrameOK(prog, got', error', f),
         stack' = Resume(f)
  PROVE  /\ StackInv' /\ stack' # <<>> /\ top' = f /\ Len(stack') = Len(stack)
         /\ \A j \in 1..Len(stack) : stack'[j].obj = stack[j].obj
  <1> DEFINE n == Len(stack)
  <1>1. stack \in Seq(Frame) /\ n \in Nat \ {0}
    BY TopFacts
  <1>2. /\ stack' \in Seq(Frame) /\ Len(stack') = n /\ stack'[n] = f
        /\ \A j \in 1..(n - 1) : stack'[j] = stack[j]
    BY <1>1, ResumeSeq DEF Resume
  <1> HIDE DEF n
  <1>3. top' = f /\ stack' # <<>>
    BY <1>1, <1>2, EmptySeq DEF top
  <1>4. stack[n].obj = f.obj
    BY DEF n, top
  <1>5. \A j \in 1..n : j = n \/ j \in 1..(n - 1)
    BY <1>1
  <1>6. \A j \in 1..n : stack'[j].obj = stack[j].obj
    BY <1>2, <1>4, <1>5
  <1>7. ASSUME NEW j \in 1..n
        PROVE  FrameOK(prog, got', error', stack'[j])
    <2>1. CASE j = n
      BY <1>2, <2>1
    <2>2. CASE j \in 1..(n - 1)
      <3>1. FrameOK(prog, got, error, stack[j])
        BY DEF StackInv, n
      <3> QED
        BY <1>2, <2>2, <3>1, FrameStays DEF Keeps
    <2> QED
      BY <1>5, <2>1, <2>2
  <1>8. ASSUME NEW j \in 1..(n - 1)
        PROVE  stack'[j].at = "bind" /\ stack'[j + 1].obj = Target(prog, stack'[j])
    <2>1. j + 1 \in 1..n
      BY <1>1
    <2>2. stack[j].at = "bind" /\ stack[j + 1].obj = Target(prog, stack[j])
      BY DEF StackInv, n
    <2> QED
      BY <1>2, <1>6, <2>1, <2>2
  <1>9. \A j \in 1..n : stack[j].obj = 0 <=> j = 1
    BY DEF StackInv, n
  <1>10. StackInv'
    BY <1>2, <1>6, <1>7, <1>8, <1>9 DEF StackInv, Keeps
  <1> QED
    BY <1>2, <1>3, <1>6, <1>10 DEF n

LEMMA Pops ==
  ASSUME TypeOK, StackInv, stack # <<>>, Keeps,
         stack' = SubSeq(stack, 1, Len(stack) - 1)
  PROVE  /\ StackInv' /\ Len(stack') = Len(stack) - 1
         /\ \A j \in 1..Len(stack) - 1 : stack'[j] = stack[j]
         /\ stack' = <<>> <=> Len(stack) = 1
         /\ Len(stack) > 1 =>
              top'.at = "bind" /\ top.obj = Target(prog, top')
  <1> DEFINE n == Len(stack)
  <1>1. stack \in Seq(Frame) /\ n \in Nat \ {0}
    BY TopFacts
  <1>2. /\ stack' \in Seq(Frame) /\ Len(stack') = n - 1
        /\ \A j \in 1..(n - 1) : stack'[j] = stack[j]
    BY <1>1, PopSeq
  <1> HIDE DEF n
  <1>3. ASSUME NEW j \in 1..(n - 1)
        PROVE  /\ FrameOK(prog, got', error', stack'[j])
               /\ stack'[j].obj = 0 <=> j = 1
               /\ stack[j].at = "bind"
               /\ stack[j + 1].obj = Target(prog, stack[j])
    <2>1. j \in 1..n
      BY <1>1
    <2>2. FrameOK(prog, got, error, stack[j]) /\ (stack[j].obj = 0 <=> j = 1)
      BY <2>1 DEF StackInv, n
    <2>3. FrameOK(prog, got', error', stack[j])
      BY <2>2, FrameStays DEF Keeps
    <2>4. stack[j].at = "bind" /\ stack[j + 1].obj = Target(prog, stack[j])
      BY DEF StackInv, n
    <2> QED
      BY <1>2, <2>2, <2>3, <2>4
  <1>4. ASSUME NEW j \in 1..(n - 1 - 1)
        PROVE  /\ stack'[j].at = "bind"
               /\ stack'[j + 1].obj = Target(prog, stack'[j])
    <2>1. j \in 1..(n - 1) /\ j + 1 \in 1..(n - 1)
      BY <1>1
    <2> QED
      BY <1>2, <1>3, <2>1
  <1>5. StackInv'
    BY <1>2, <1>3, <1>4 DEF StackInv, Keeps
  <1>6. stack' = <<>> <=> n = 1
    <2>1. stack' = <<>> <=> Len(stack') = 0
      BY <1>2, EmptySeq
    <2> QED
      BY <1>1, <1>2, <2>1
  <1>7. ASSUME n > 1
        PROVE  top'.at = "bind" /\ top.obj = Target(prog, top')
    <2>1. n - 1 \in 1..(n - 1) /\ (n - 1) + 1 = n
      BY <1>1, <1>7
    <2>2. stack[n - 1].at = "bind" /\ stack[n].obj = Target(prog, stack[n - 1])
      <3>1. /\ stack[n - 1].at = "bind"
            /\ stack[(n - 1) + 1].obj = Target(prog, stack[n - 1])
        BY <1>3, <2>1
      <3> QED
        BY <2>1, <3>1
    <2>3. top' = stack[n - 1]
      BY <1>2, <2>1 DEF top
    <2> QED
      BY <2>2, <2>3 DEF top, n
  <1> QED
    BY <1>2, <1>5, <1>6, <1>7 DEF n

LEMMA Pushes ==
  ASSUME TypeOK, StackInv, stack # <<>>, Keeps,
         NEW f \in Frame, f.obj = top.obj, FrameOK(prog, got', error', f),
         f.at = "bind", NEW o \in Object, o # 0, o = Target(prog, f),
         stack' = Append(Resume(f), Activation(o))
  PROVE  /\ StackInv' /\ stack' # <<>> /\ top' = Activation(o)
         /\ Len(stack') = Len(stack) + 1
         /\ \A j \in 1..Len(stack) : stack'[j].obj = stack[j].obj
  <1> DEFINE n == Len(stack)
  <1>1. stack \in Seq(Frame) /\ n \in Nat \ {0} /\ prog \in Program
    BY TopFacts DEF TypeOK
  <1>2. /\ Activation(o) \in Frame
        /\ FrameOK(prog, got', error', Activation(o))
        /\ Activation(o).obj = o
    BY <1>1, FreshFrame DEF Activation
  <1>3. /\ stack' \in Seq(Frame) /\ Len(stack') = n + 1
        /\ stack'[n + 1] = Activation(o) /\ stack'[n] = f
        /\ \A j \in 1..(n - 1) : stack'[j] = stack[j]
    BY <1>1, <1>2, PushSeq DEF Resume
  <1> HIDE DEF n
  <1>4. top' = Activation(o) /\ stack' # <<>>
    BY <1>1, <1>3, EmptySeq DEF top
  <1>5. stack[n].obj = f.obj
    BY DEF n, top
  <1>6. \A j \in 1..n : j = n \/ j \in 1..(n - 1)
    BY <1>1
  <1>7. \A j \in 1..n : stack'[j].obj = stack[j].obj
    BY <1>3, <1>5, <1>6
  <1>8. ASSUME NEW j \in 1..n
        PROVE  /\ FrameOK(prog, got', error', stack'[j])
               /\ stack'[j].obj = 0 <=> j = 1
               /\ stack'[j].at = "bind"
               /\ stack'[j + 1].obj = Target(prog, stack'[j])
    <2>1. stack'[j].obj = 0 <=> j = 1
      BY <1>7 DEF StackInv, n
    <2>2. CASE j = n
      BY <1>2, <1>3, <2>1, <2>2
    <2>3. CASE j \in 1..(n - 1)
      <3>1. /\ FrameOK(prog, got, error, stack[j]) /\ stack[j].at = "bind"
            /\ stack[j + 1].obj = Target(prog, stack[j])
        BY <2>3 DEF StackInv, n
      <3>2. FrameOK(prog, got', error', stack[j])
        BY <3>1, FrameStays DEF Keeps
      <3>3. j + 1 \in 1..n
        BY <1>1, <2>3
      <3> QED
        BY <1>3, <1>7, <2>1, <2>3, <3>1, <3>2, <3>3
    <2> QED
      BY <1>6, <2>2, <2>3
  <1>9. /\ FrameOK(prog, got', error', stack'[n + 1])
        /\ stack'[n + 1].obj = 0 <=> n + 1 = 1
    BY <1>1, <1>2, <1>3
  <1>10. StackInv'
    <2>1. \A j \in 1..(n + 1) : j = n + 1 \/ j \in 1..n
      BY <1>1
    <2>2. (n + 1) - 1 = n
      BY <1>1
    <2> QED
      BY <1>3, <1>8, <1>9, <2>1, <2>2 DEF StackInv, Keeps
  <1> QED
    BY <1>3, <1>4, <1>7, <1>10 DEF n
-----------------------------------------------------------------------------
\* A slot that holds an address keeps what SlotInv says of it while the
\* objects that leave the stack are linked.
LEMMA SlotsKeep ==
  ASSUME TypeOK, SlotInv, Keeps,
         \A j \in 1..Len(stack) :
           \/ LinkedIn(prog, got', stack[j].obj)
           \/ \E i \in 1..Len(stack') : stack'[i].obj = stack[j].obj,
         NEW s \in Slot, got[s] # 0, got'[s] = got[s]
  PROVE  /\ got'[s] = Names(prog, s) /\ Reached(prog, s)
         /\ s[1] \notin prog.unmapped
         /\ \/ LinkedIn(prog, got', s[1])
            \/ \E j \in 1..Len(stack') : stack'[j].obj = s[1]
         /\ got'[s] = s[1] \/ LinkedIn(prog, got', got'[s])
  <1>1. /\ got[s] = Names(prog, s) /\ Reached(prog, s)
        /\ s[1] \notin prog.unmapped
        /\ \/ LinkedIn(prog, got, s[1])
           \/ \E j \in 1..Len(stack) : stack[j].obj = s[1]
        /\ got[s] = s[1] \/ LinkedIn(prog, got, got[s])
    BY DEF SlotInv
  <1>2. \A o : LinkedIn(prog, got, o) => LinkedIn(prog, got', o)
    BY LinkedStays DEF Keeps
  <1> QED
    BY <1>1, <1>2

\* A step that writes nothing and ends nothing.
LEMMA SlotInvKept ==
  ASSUME TypeOK, SlotInv, Keeps, got' = got,
         \A j \in 1..Len(stack) :
           \/ LinkedIn(prog, got', stack[j].obj)
           \/ \E i \in 1..Len(stack') : stack'[i].obj = stack[j].obj
  PROVE  SlotInv'
  <1>1. Slot' = Slot
    BY DEF Keeps, Slot
  <1> QED
    BY <1>1, SlotsKeep DEF SlotInv, Keeps

\* The relocation at hand: a slot not written yet, which nothing before it
\* in its table keeps from being reached.
LEMMA AtReloc ==
  ASSUME TypeOK, StackInv, stack # <<>>,
         top.k <= Len(Relocs), Relocs[top.k] # NONE
  PROVE  /\ Here \in Slot /\ Reached(prog, Here) /\ Names(prog, Here) = Found
         /\ Here[1] = top.obj
         /\ FrameOK(prog, got, error, top)
         /\ top = stack[Len(stack)] /\ Len(stack) \in 1..Len(stack)
  <1>1. /\ top \in Frame /\ Len(stack) \in 1..Len(stack) /\ prog \in Program
        /\ Relocs = TableOf(prog, top) /\ Found = Target(prog, top)
    BY TopFacts DEF TypeOK
  <1>2. FrameOK(prog, got, error, top)
    BY <1>1 DEF StackInv, top
  <1>3. Here \in Slot /\ Names(prog, Here) = Found /\ top.k \in Nat \ {0}
    BY <1>1, FrameFacts DEF Here, Slot
  <1>4. Reached(prog, Here)
    <2>1. \A k \in 1..top.k : k = top.k \/ k \in 1..top.k - 1
      BY <1>3
    <2>2. \A k \in 1..top.k : TableOf(prog, top)[k] # NONE
      BY <1>1, <1>2, <2>1 DEF FrameOK
    <2> QED
      BY <2>2 DEF Reached, Here, TableOf
  <1> QED
    BY <1>1, <1>2, <1>3, <1>4 DEF Here, top

\* An address is written: the object's own, or one of a linked object.
LEMMA WriteStep ==
  ASSUME IInv, status = "linking", stack # <<>>,
         top.k <= Len(Relocs), Relocs[top.k] # NONE,
         Found # 0, Found = top.obj \/ LinkedIn(prog, got, Found),
         Write(Found)
  PROVE  StackInv' /\ TopInv' /\ SlotInv' /\ EndInv'
  <1> USE DEF IInv
  <1>1. /\ Here \in Slot /\ Reached(prog, Here) /\ Names(prog, Here) = Found
        /\ Here[1] = top.obj
        /\ FrameOK(prog, got, error, top)
        /\ top = stack[Len(stack)] /\ Len(stack) \in 1..Len(stack)
    BY AtReloc
  <1>2. /\ top \in Frame /\ prog \in Program
        /\ Relocs = TableOf(prog, top) /\ Found = Target(prog, top)
        /\ got \in [Slot -> Object]
    BY TopFacts DEF TypeOK
  <1>3. CASE top.obj \in prog.unmapped
    BY <1>3 DEF Write, StackInv, TopInv, SlotInv, EndInv, Slot
  <1>4. CASE top.obj \notin prog.unmapped
    <2> DEFINE f == [top EXCEPT !.k = @ + 1, !.at = "resolve"]
    <2>1. /\ got' = [got EXCEPT ![Here] = Found] /\ stack' = Resume(f)
          /\ UNCHANGED <<prog, error, status>>
      BY <1>4 DEF Write
    <2>2. got'[Here] = Found /\ \A s \in Slot : s # Here => got'[s] = got[s]
      BY <1>1, <1>2, <2>1
    <2>3. Keeps
      BY <1>1, <2>1, <2>2 DEF Keeps, Grows, Slot
    <2>4. f \in Frame /\ f.obj = top.obj /\ FrameOK(prog, got', error', f)
      <3>1. FrameOK(prog, got', error', top)
        BY <1>1, <2>3, FrameStays DEF Keeps
      <3>2. /\ top.k <= Len(TableOf(prog, top))
            /\ TableOf(prog, top)[top.k] # NONE
            /\ got'[<<top.obj, top.tab, top.k>>] = Target(prog, top)
            /\ Target(prog, top) = 0 => top.obj \in error'
        BY <1>2, <2>2 DEF Here
      <3> QED
        BY <1>2, <3>1, <3>2, FrameAdvances
    <2>5. f.at = "resolve"
      BY <1>2, FrameUpdates DEF Frame
    <2> HIDE DEF f
    <2>6. /\ StackInv' /\ stack' # <<>> /\ top' = f /\ Len(stack') = Len(stack)
          /\ \A j \in 1..Len(stack) : stack'[j].obj = stack[j].obj
      BY <2>1, <2>3, <2>4, Resumes
    <2>7. TopInv'
      BY <2>5, <2>6 DEF TopInv
    <2>8. SlotInv'
      <3>1. Slot' = Slot /\ prog' = prog
        BY <2>1 DEF Slot
      <3>2. ASSUME NEW s \in Slot, got'[s] # 0
            PROVE  /\ got'[s] = Names(prog, s) /\ Reached(prog, s)
                   /\ s[1] \notin prog.unmapped
                   /\ \/ LinkedIn(prog, got', s[1])
                      \/ \E j \in 1..Len(stack') : stack'[j].obj = s[1]
                   /\ got'[s] = s[1] \/ LinkedIn(prog, got', got'[s])
        <4>1. CASE s = Here
          <5>1. LinkedIn(prog, got, Found) => LinkedIn(prog, got', Found)
            BY <2>3, LinkedStays DEF Keeps
          <5>2. \E j \in 1..Len(stack') : stack'[j].obj = top.obj
            BY <1>1, <2>6
          <5> QED
            BY <1>1, <1>4, <2>2, <4>1, <5>1, <5>2
        <4>2. CASE s # Here
          BY <2>2, <2>3, <2>6, <3>2, <4>2, SlotsKeep
        <4> QED
          BY <4>1, <4>2
      <3> QED
        BY <3>1, <3>2 DEF SlotInv
    <2>9. EndInv'
      BY <2>1 DEF EndInv
    <2> QED
      BY <2>6, <2>7, <2>8, <2>9
  <1> QED
    BY <1>3, <1>4

\* A table is finished.
LEMMA LeaveTableStep ==
  ASSUME IInv, status = "linking", stack # <<>>, top.at = "resolve",
         AtEnd(prog, top), LeaveTable, UNCHANGED <<prog, entered, got, error>>
  PROVE  StackInv' /\ TopInv' /\ SlotInv' /\ EndInv'
  <1> USE DEF IInv
  <1>1. /\ top \in Frame /\ prog \in Program
        /\ Len(stack) \in 1..Len(stack) /\ Len(stack) \in Nat \ {0}
    BY TopFacts DEF TypeOK
  <1>2. FrameOK(prog, got, error, top)
    BY <1>1 DEF StackInv, top
  <1>3. Keeps /\ got' = got
    BY DEF Keeps, Grows
  <1>4. CASE top.tab = 1
    <2> DEFINE f == [top EXCEPT !.tab = 2, !.k = 1]
    <2>1. stack' = Resume(f) /\ status' = status
      BY <1>4 DEF LeaveTable
    <2>2. f \in Frame /\ f.obj = top.obj /\ f.at = "resolve"
          /\ FrameOK(prog, got', error', f)
      BY <1>1, <1>2, <1>3, <1>4, FrameTurns
    <2> HIDE DEF f
    <2>3. /\ StackInv' /\ stack' # <<>> /\ top' = f /\ Len(stack') = Len(stack)
          /\ \A j \in 1..Len(stack) : stack'[j].obj = stack[j].obj
      BY <1>3, <2>1, <2>2, Resumes
    <2>4. SlotInv'
      BY <1>3, <2>3, SlotInvKept
    <2> QED
      BY <2>1, <2>2, <2>3, <2>4 DEF TopInv, EndInv
  <1>5. CASE top.tab # 1
    <2>1. /\ stack' = SubSeq(stack, 1, Len(stack) - 1)
          /\ status' = IF Len(stack) > 1 THEN "linking"
                       ELSE IF 0 \in error THEN "refused" ELSE "accepted"
      BY <1>5 DEF LeaveTable
    <2>2. /\ StackInv' /\ Len(stack') = Len(stack) - 1
          /\ \A j \in 1..Len(stack) - 1 : stack'[j] = stack[j]
          /\ stack' = <<>> <=> Len(stack) = 1
          /\ Len(stack) > 1 =>
               top'.at = "bind" /\ top.obj = Target(prog, top')
      BY <1>3, <2>1, Pops
    <2>3. /\ LinkedIn(prog, got, top.obj)
          /\ \A s \in SlotsOf(prog) :
               s[1] = top.obj /\ Reached(prog, s) /\ got[s] = 0 =>
                 top.obj \in error
      <3>1. top.tab = 2
        BY <1>1, <1>5 DEF Frame, Table
      <3> QED
        BY <1>1, <1>2, <3>1, FrameDone
    <2>4. TopInv'
      <3>1. CASE Len(stack) > 1
        <4>1. stack' # <<>>
          BY <2>2, <3>1
        <4>2. LinkedIn(prog', got', Target(prog', top'))
          BY <2>2, <2>3, <3>1
        <4> QED
          BY <4>1, <4>2 DEF TopInv
      <3>2. CASE ~(Len(stack) > 1)
        BY <2>1, <3>2 DEF TopInv
      <3> QED
        BY <3>1, <3>2
    <2>5. SlotInv'
      <3>1. ASSUME NEW j \in 1..Len(stack)
            PROVE  \/ LinkedIn(prog, got', stack[j].obj)
                   \/ \E i \in 1..Len(stack') : stack'[i].obj = stack[j].obj
        <4>1. CASE j = Len(stack)
          BY <1>3, <2>3, <4>1 DEF top
        <4>2. CASE j # Len(stack)
          <5>1. j \in 1..Len(stack) - 1
            BY <1>1, <4>2
          <5> QED
            BY <2>2, <5>1
        <4> QED
          BY <4>1, <4>2
      <3> QED
        BY <1>3, <3>1, SlotInvKept
    <2>6. EndInv'
      <3>1. CASE Len(stack) > 1
        BY <2>1, <3>1 DEF EndInv
      <3>2. CASE ~(Len(stack) > 1)
        <4>1. Len(stack) = 1
          <5>1. \A n \in Nat \ {0} : ~(n > 1) => n = 1
            OBVIOUS
          <5> QED
            BY <1>1, <3>2, <5>1
        <4>2. top.obj = 0
          BY <1>1, <4>1 DEF StackInv, top
        <4> QED
          BY <1>3, <2>1, <2>2, <2>3, <4>1, <4>2 DEF EndInv, Slot
      <3> QED
        BY <3>1, <3>2
    <2> QED
      BY <2>2, <2>4, <2>5, <2>6
  <1> QED
    BY <1>4, <1>5
\* A slot whose symbol nobody provides holds nothing.
LEMMA SlotInvZero ==
  ASSUME TypeOK, SlotInv, NEW s \in Slot, Names(prog, s) = 0
  PROVE  got[s] = 0
  BY DEF SlotInv

\* A symbol nobody defines: error_ is set and the loop goes on.
LEMMA NotFoundStep ==
  ASSUME IInv, NotFound
  PROVE  StackInv' /\ TopInv' /\ SlotInv' /\ EndInv'
  <1> USE DEF IInv
  <1> DEFINE f == [top EXCEPT !.k = @ + 1]
             h == [top EXCEPT !.k = @ + 1, !.at = "resolve"]
  <1>1. /\ status = "linking" /\ stack # <<>> /\ top.at = "resolve"
        /\ top.k <= Len(Relocs) /\ Relocs[top.k] # NONE /\ Found = 0
        /\ error' = error \cup {top.obj} /\ stack' = Resume(f)
        /\ UNCHANGED <<prog, entered, got, status>>
    BY DEF NotFound, AtSymbol, Running
  <1>2. /\ Here \in Slot /\ Reached(prog, Here) /\ Names(prog, Here) = Found
        /\ FrameOK(prog, got, error, top)
    BY <1>1, AtReloc
  <1>3. /\ top \in Frame /\ prog \in Program
        /\ Relocs = TableOf(prog, top) /\ Found = Target(prog, top)
    BY <1>1, TopFacts DEF TypeOK
  <1>4. Keeps /\ got' = got
    BY <1>1 DEF Keeps, Grows
  <1>5. f = h
    <2>1. top = [top EXCEPT !.at = "resolve"]
      BY <1>1, <1>3 DEF Frame
    <2> QED
      BY <1>1, <1>3, <2>1 DEF Frame
  <1>6. got[Here] = 0
    BY <1>1, <1>2, SlotInvZero
  <1>7. f \in Frame /\ f.obj = top.obj /\ FrameOK(prog, got', error', f)
    <2>1. FrameOK(prog, got', error', top)
      BY <1>2, <1>4, FrameStays DEF Keeps
    <2>2. /\ top.k <= Len(TableOf(prog, top))
          /\ TableOf(prog, top)[top.k] # NONE
          /\ got'[<<top.obj, top.tab, top.k>>] = Target(prog, top)
          /\ Target(prog, top) = 0 => top.obj \in error'
      BY <1>1, <1>3, <1>6 DEF Here
    <2>3. h \in Frame /\ h.obj = top.obj /\ FrameOK(prog, got', error', h)
      BY <1>3, <2>1, <2>2, FrameAdvances
    <2> QED
      BY <1>5, <2>3
  <1>8. f.at = "resolve"
    BY <1>1, <1>3 DEF Frame
  <1> HIDE DEF f, h
  <1>9. /\ StackInv' /\ stack' # <<>> /\ top' = f /\ Len(stack') = Len(stack)
        /\ \A j \in 1..Len(stack) : stack'[j].obj = stack[j].obj
    BY <1>1, <1>4, <1>7, Resumes
  <1>10. SlotInv'
    BY <1>4, <1>9, SlotInvKept
  <1> QED
    BY <1>1, <1>8, <1>9, <1>10 DEF TopInv, EndInv

\* The provider's activation is pushed, or the stack is full.
LEMMA LinkProviderStep ==
  ASSUME IInv, LinkProvider
  PROVE  StackInv' /\ TopInv' /\ SlotInv' /\ EndInv'
  <1> USE DEF IInv
  <1>1. /\ status = "linking" /\ stack # <<>> /\ top.at = "resolve"
        /\ top.k <= Len(Relocs) /\ Relocs[top.k] # NONE
        /\ Found # 0 /\ Found # top.obj
        /\ UNCHANGED <<prog, got, error>>
    BY DEF LinkProvider, AtSymbol, Running
  <1>2. FrameOK(prog, got, error, top)
    BY <1>1, AtReloc
  <1>3. /\ top \in Frame /\ prog \in Program /\ Found \in Object
        /\ Relocs = TableOf(prog, top) /\ Found = Target(prog, top)
    BY <1>1, TopFacts DEF TypeOK
  <1>4. Keeps /\ got' = got
    BY <1>1 DEF Keeps, Grows
  <1>5. CASE Len(stack) < StackLimit
    <2> DEFINE f == [top EXCEPT !.at = "bind"]
    <2>1. stack' = Append(Resume(f), Activation(Found)) /\ status' = status
      BY <1>5 DEF LinkProvider
    <2>2. /\ f \in Frame /\ f.obj = top.obj /\ f.tab = top.tab /\ f.k = top.k
          /\ f.at = "bind"
      BY <1>3 DEF Frame
    <2> HIDE DEF f
    <2>3. /\ TableOf(prog, f) = TableOf(prog, top) /\ Target(prog, f) = Found
          /\ Behind(prog, f) = Behind(prog, top)
      BY <1>3, <2>2 DEF TableOf, Target, Behind
    <2>4. FrameOK(prog, got', error', f)
      BY <1>1, <1>2, <1>3, <2>2, <2>3 DEF FrameOK
    <2>5. /\ StackInv' /\ stack' # <<>> /\ top' = Activation(Found)
          /\ Len(stack') = Len(stack) + 1
          /\ \A j \in 1..Len(stack) : stack'[j].obj = stack[j].obj
      BY <1>1, <1>3, <1>4, <2>1, <2>2, <2>3, <2>4, Pushes
    <2>6. \A j \in 1..Len(stack) : j \in 1..Len(stack')
      <3>1. Len(stack) \in Nat
        BY <1>1, TopFacts
      <3> QED
        BY <2>5, <3>1
    <2>7. SlotInv'
      BY <1>4, <2>5, <2>6, SlotInvKept
    <2>8. TopInv'
      BY <2>5 DEF TopInv, Activation
    <2> QED
      BY <1>1, <2>1, <2>5, <2>7, <2>8 DEF EndInv
  <1>6. CASE ~(Len(stack) < StackLimit)
    <2>1. status' = "overflow" /\ stack' = stack
      BY <1>6 DEF LinkProvider
    <2> QED
      BY <1>1, <2>1 DEF StackInv, TopInv, SlotInv, EndInv, Slot
  <1> QED
    BY <1>5, <1>6

\* The relocation a waiting activation goes on with.
LEMMA AtBind ==
  ASSUME TypeOK, StackInv, TopInv, status = "linking", stack # <<>>,
         top.at = "bind"
  PROVE  /\ top.k <= Len(Relocs) /\ Relocs[top.k] # NONE /\ Found # 0
         /\ LinkedIn(prog, got, Found)
  <1>1. /\ Relocs = TableOf(prog, top) /\ Found = Target(prog, top)
        /\ Len(stack) \in 1..Len(stack)
    BY TopFacts
  <1>2. FrameOK(prog, got, error, top)
    BY <1>1 DEF StackInv, top
  <1> QED
    BY <1>1, <1>2 DEF FrameOK, TopInv

LEMMA BeginsInv == Begins => IInv
  <1> SUFFICES ASSUME Begins
               PROVE  IInv
    OBVIOUS
  <1>1. TypeOK
    BY BeginsType
  <1>2. prog \in Program /\ 0 \in Object /\ stack = <<Activation(0)>>
    BY <1>1, LinkerAssumption DEF Begins, TypeOK, Object
  <1>3. StackInv
    <2>1. FrameOK(prog, got, error, Activation(0)) /\ Activation(0).obj = 0
      BY <1>2, FreshFrame DEF Activation
    <2> QED
      BY <1>2, <2>1 DEF StackInv
  <1>4. TopInv
    BY <1>2 DEF TopInv, top, Activation
  <1>5. SlotInv
    BY DEF Begins, SlotInv
  <1>6. EndInv
    BY DEF Begins, EndInv
  <1> QED
    BY <1>1, <1>3, <1>4, <1>5, <1>6 DEF IInv

LEMMA IInvInit == Init => IInv
  BY InitBegins, BeginsInv

LEMMA IInvStep == IInv /\ [Next]_vars => IInv'
  <1> SUFFICES ASSUME IInv, [Next]_vars
               PROVE  StackInv' /\ TopInv' /\ SlotInv' /\ EndInv'
    BY TypeStep DEF IInv
  <1>1. CASE EndOfTable
    <2>1. /\ status = "linking" /\ stack # <<>> /\ top.at = "resolve"
          /\ AtEnd(prog, top)
      BY <1>1, TopFacts DEF EndOfTable, Running, AtEnd, IInv
    <2> QED
      BY <1>1, <2>1, LeaveTableStep DEF EndOfTable
  <1>2. CASE StopAtNone
    <2>1. /\ status = "linking" /\ stack # <<>> /\ top.at = "resolve"
          /\ AtEnd(prog, top)
      BY <1>2, TopFacts DEF StopAtNone, Running, AtEnd, IInv
    <2> QED
      BY <1>2, <2>1, LeaveTableStep DEF StopAtNone
  <1>3. CASE NotFound
    BY <1>3, NotFoundStep
  <1>4. CASE BindOwn
    BY <1>4, WriteStep DEF BindOwn, AtSymbol, Running
  <1>5. CASE LinkProvider
    BY <1>5, LinkProviderStep
  <1>6. CASE BindLinked
    <2>1. /\ status = "linking" /\ stack # <<>> /\ top.at = "bind" /\ Write(Found)
      BY <1>6 DEF BindLinked, Running
    <2>2. /\ top.k <= Len(Relocs) /\ Relocs[top.k] # NONE /\ Found # 0
          /\ LinkedIn(prog, got, Found)
      BY <2>1, AtBind DEF IInv
    <2> QED
      BY <2>1, <2>2, WriteStep
  <1>7. CASE UNCHANGED vars
    <2>1. UNCHANGED <<prog, got, error, stack, entered, status>>
      BY <1>7 DEF vars
    <2>2. StackInv' /\ TopInv'
      BY <2>1 DEF IInv, StackInv, TopInv, top
    <2>3. SlotInv' /\ EndInv'
      BY <2>1 DEF IInv, SlotInv, EndInv, Slot
    <2> QED
      BY <2>2, <2>3
  <1> QED
    BY <1>1, <1>2, <1>3, <1>4, <1>5, <1>6, <1>7 DEF Next, Stopped

LEMMA Inductive == Spec => []IInv
  BY IInvInit, IInvStep, PTL DEF Spec
\* Linked, for the slots as they are.
LEMMA LinkedIsLinkedIn ==
  ASSUME NEW o
  PROVE  Linked(o) <=> LinkedIn(prog, got, o)
  BY DEF Linked, LinkedIn, Names, Slot

\* patch_relatable writes a slot with an address of another object only after
\* link_dependencies has returned for that object, and nothing it does later
\* undoes that: code reached through a bound symbol finds bound whatever of its
\* own symbols ever will be, for all relocations and whatever is missing.
THEOREM ProvidersFirst == Spec => []ProvidersLinkedFirst
  <1>1. IInv => ProvidersLinkedFirst
    BY LinkedIsLinkedIn DEF IInv, SlotInv, ProvidersLinkedFirst
  <1> QED
    BY <1>1, Inductive, PTL

\* ld_main jumps to the program only if patch_relatable found each of its
\* symbols: has_error() of the program alone is enough to know.
THEOREM AcceptedBound == Spec => []AcceptedIsBound
  <1>1. IInv => AcceptedIsBound
    BY DEF IInv, EndInv, AcceptedIsBound
  <1> QED
    BY <1>1, Inductive, PTL

\* A library that load_segment could not map, and a program whose manager's
\* segment_ was left on garbage, get away with it only if none of their own
\* relocations resolves: patch_relatable would write through segment_.
THEOREM UnmappedUnbound == Spec => []UnmappedBindsNothing
  <1>1. IInv => UnmappedBindsNothing
    <2> SUFFICES ASSUME IInv, status \in {"accepted", "refused"},
                        NEW o \in prog.unmapped,
                        o = 0 \/ \E s \in Slot : got[s] = o,
                        NEW t \in Slot, t[1] = o, Reached(prog, t)
                 PROVE  Names(prog, t) = 0
      BY DEF UnmappedBindsNothing, Names
    <2>1. LinkedIn(prog, got, o)
      <3>1. CASE o = 0
        BY <3>1 DEF IInv, EndInv
      <3>2. ASSUME o # 0, NEW s \in Slot, got[s] = o
            PROVE  LinkedIn(prog, got, o)
        BY <3>2 DEF IInv, SlotInv
      <3> QED
        BY <3>1, <3>2
    <2>2. got[t] = Names(prog, t)
      BY <2>1 DEF LinkedIn, Slot
    <2>3. got[t] = 0
      BY DEF IInv, SlotInv
    <2> QED
      BY <2>2, <2>3
  <1> QED
    BY <1>1, Inductive, PTL
-----------------------------------------------------------------------------
(***************************************************************************)
(* Depth.  Each frame below the top uses the one above it, so an object    *)
(* that is on the stack twice lies on a cycle of uses, and one that is     *)
(* linked when the stack holds every object is on it already.              *)
(***************************************************************************)
\* The slot an activation is at, which nothing before it keeps from being reached.
LEMMA FrameSlot ==
  ASSUME NEW q \in Program, NEW g, NEW e, NEW f \in Frame, FrameOK(q, g, e, f),
         f.k <= Len(TableOf(q, f)), TableOf(q, f)[f.k] # NONE
  PROVE  LET s == <<f.obj, f.tab, f.k>>
         IN  /\ s \in SlotsOf(q) /\ s[1] = f.obj /\ Reached(q, s)
             /\ Names(q, s) = Target(q, f)
  <1> DEFINE s == <<f.obj, f.tab, f.k>>
  <1>1. s \in SlotsOf(q) /\ Names(q, s) = Target(q, f) /\ f.k \in Nat \ {0}
    BY FrameFacts
  <1>2. Reached(q, s)
    <2>1. \A k \in 1..f.k : k = f.k \/ k \in 1..f.k - 1
      BY <1>1
    <2>2. \A k \in 1..f.k : TableOf(q, f)[k] # NONE
      BY <2>1 DEF FrameOK
    <2> QED
      BY <2>2 DEF Reached, TableOf
  <1> QED
    BY <1>1, <1>2

LEMMA FrameUses ==
  ASSUME NEW q \in Program, NEW g, NEW e, NEW f \in Frame, FrameOK(q, g, e, f),
         f.k <= Len(TableOf(q, f)), TableOf(q, f)[f.k] # NONE
  PROVE  <<f.obj, Target(q, f)>> \in Uses(q)
  BY FrameSlot DEF Uses, Names

\* The frames j to k, the last of which uses the object of the first.
LEMMA LoopIsCycle ==
  ASSUME TypeOK, StackInv, NEW j \in 1..Len(stack), NEW k \in j..Len(stack),
         stack[j].obj # 0, stack[j].obj # stack[k].obj,
         <<stack[k].obj, stack[j].obj>> \in Uses(prog)
  PROVE  ~Acyclic(prog)
  <1> DEFINE S == {stack[i].obj : i \in j..k}
  <1>1. stack \in Seq(Frame) /\ Len(stack) \in Nat /\ prog \in Program
    BY DEF TypeOK, Frame
  <1>2. j \in j..k /\ j..k \subseteq 1..Len(stack)
    BY <1>1
  <1>3. \A i \in j..k : stack[i].obj \in 1..N
    <2> SUFFICES ASSUME NEW i \in j..k
                 PROVE  stack[i].obj \in 1..N
      OBVIOUS
    <2>1. stack[i] \in Frame /\ (stack[i].obj = 0 <=> i = 1) /\ j # 1
      BY <1>1, <1>2 DEF StackInv
    <2>2. stack[i].obj \in Object /\ i # 1
      BY <1>1, <1>2, <2>1 DEF Frame
    <2> QED
      BY <2>1, <2>2, LinkerAssumption DEF Object
  <1>4. S \in SUBSET (1..N) /\ S # {}
    BY <1>2, <1>3
  <1>5. ASSUME NEW i \in j..k
        PROVE  \E p \in S \ {stack[i].obj} : <<stack[i].obj, p>> \in Uses(prog)
    <2>1. CASE i = k
      BY <1>2, <2>1
    <2>2. CASE i # k
      <3>1. i + 1 \in j..k /\ i \in 1..Len(stack) - 1 /\ i \in 1..Len(stack)
        BY <1>1, <2>2
      <3>2. /\ stack[i].at = "bind" /\ stack[i + 1].obj = Target(prog, stack[i])
            /\ FrameOK(prog, got, error, stack[i]) /\ stack[i] \in Frame
        BY <1>1, <3>1 DEF StackInv
      <3>3. /\ <<stack[i].obj, Target(prog, stack[i])>> \in Uses(prog)
            /\ Target(prog, stack[i]) # stack[i].obj
        <4>1. /\ stack[i].k <= Len(TableOf(prog, stack[i]))
              /\ TableOf(prog, stack[i])[stack[i].k] # NONE
              /\ Target(prog, stack[i]) # stack[i].obj
          BY <3>2 DEF FrameOK
        <4> QED
          BY <1>1, <3>2, <4>1, FrameUses
      <3> QED
        BY <3>1, <3>2, <3>3
    <2> QED
      BY <2>1, <2>2
  <1>6. ASSUME NEW o \in S
        PROVE  \E p \in S \ {o} : <<o, p>> \in Uses(prog)
    BY <1>5
  <1> HIDE DEF S
  <1> QED
    BY <1>4, <1>6 DEF Acyclic

LEMMA DistinctFrames == TypeOK /\ StackInv => NoReentry
  <1> SUFFICES ASSUME TypeOK, StackInv,
                      NEW j \in 1..Len(stack), NEW k \in 1..Len(stack),
                      j < k, stack[j].obj = stack[k].obj
               PROVE  ~Acyclic(prog)
    <2>1. Len(stack) \in Nat \/ ~TypeOK
      BY DEF TypeOK
    <2> QED
      BY <2>1 DEF NoReentry
  <1>1. stack \in Seq(Frame) /\ Len(stack) \in Nat /\ prog \in Program
    BY DEF TypeOK, Frame
  <1> DEFINE i == k - 1
  <1>2. /\ i \in j..Len(stack) /\ i \in 1..Len(stack) - 1 /\ i \in 1..Len(stack)
        /\ i + 1 = k
    BY <1>1
  <1> HIDE DEF i
  <1>3. /\ stack[i].at = "bind" /\ stack[k].obj = Target(prog, stack[i])
        /\ FrameOK(prog, got, error, stack[i]) /\ stack[i] \in Frame
    BY <1>1, <1>2 DEF StackInv
  <1>4. /\ <<stack[i].obj, Target(prog, stack[i])>> \in Uses(prog)
        /\ Target(prog, stack[i]) \notin {0, stack[i].obj}
    <2>1. /\ stack[i].k <= Len(TableOf(prog, stack[i]))
          /\ TableOf(prog, stack[i])[stack[i].k] # NONE
          /\ Target(prog, stack[i]) \notin {0, stack[i].obj}
      BY <1>3 DEF FrameOK
    <2> QED
      BY <1>1, <1>3, <2>1, FrameUses
  <1> QED
    BY <1>2, <1>3, <1>4, LoopIsCycle

\* Without a cycle of uses link_dependencies never links an object inside that
\* object's own linking.
THEOREM NeverReentered == Spec => []NoReentry
  BY DistinctFrames, Inductive, PTL DEF IInv

\* When the stack is exhausted: there is one more object to link.
OverInv ==
  status = "overflow" =>
    /\ stack # <<>> /\ Len(stack) >= StackLimit
    /\ top.k <= Len(Relocs) /\ Relocs[top.k] # NONE
    /\ Found \notin {0, top.obj}

LEMMA OverStep == TypeOK /\ OverInv /\ [Next]_vars => OverInv'
  <1> SUFFICES ASSUME TypeOK, OverInv, [Next]_vars
               PROVE  OverInv'
    OBVIOUS
  <1>1. CASE LinkProvider
    <2>1. CASE Len(stack) < StackLimit
      BY <1>1, <2>1, SMTT(30) DEF LinkProvider, AtSymbol, Running, OverInv
    <2>2. CASE ~(Len(stack) < StackLimit)
      <3>1. UNCHANGED <<prog, stack>>
        BY <1>1, <2>2 DEF LinkProvider
      <3>2. /\ stack # <<>> /\ top.k <= Len(Relocs) /\ Relocs[top.k] # NONE
            /\ Found \notin {0, top.obj}
        BY <1>1 DEF LinkProvider, AtSymbol, Running
      <3>3. Len(stack) >= StackLimit
        BY <2>2, <3>2, TopFacts, LinkerAssumption, SMTT(30)
      <3> QED
        BY <3>1, <3>2, <3>3 DEF OverInv, top, Relocs, Found
    <2> QED
      BY <2>1, <2>2
  <1>2. CASE UNCHANGED vars
    BY <1>2 DEF vars, OverInv, top, Relocs, Found
  <1>3. CASE EndOfTable \/ StopAtNone \/ NotFound \/ BindOwn \/ BindLinked
    <2>1. status' # "overflow"
      BY <1>3 DEF EndOfTable, StopAtNone, NotFound, BindOwn, BindLinked,
                  LeaveTable, Write, AtSymbol, Running
    <2> QED
      BY <2>1 DEF OverInv
  <1> QED
    BY <1>1, <1>2, <1>3 DEF Next, Stopped

\* There are more frames than objects, so one object has two.
LEMMA OverIsCycle ==
  TypeOK /\ StackInv /\ OverInv =>
    (Acyclic(prog) /\ StackLimit > N => StackSuffices)
  <1> SUFFICES ASSUME TypeOK, StackInv, OverInv, StackLimit > N,
                      status = "overflow"
               PROVE  ~Acyclic(prog)
    BY DEF StackSuffices
  <1> DEFINE n == Len(stack)
  <1>1. /\ stack # <<>> /\ n >= StackLimit
        /\ top.k <= Len(Relocs) /\ Relocs[top.k] # NONE
        /\ Found # 0 /\ Found # top.obj
    BY DEF OverInv
  <1>2. /\ stack \in Seq(Frame) /\ n \in Nat \ {0} /\ top \in Frame
        /\ prog \in Program /\ Found \in Object
        /\ Relocs = TableOf(prog, top) /\ Found = Target(prog, top)
    BY <1>1, TopFacts DEF TypeOK
  <1>3. FrameOK(prog, got, error, top) /\ top = stack[n]
    BY <1>1, AtReloc
  <1>4. <<stack[n].obj, Found>> \in Uses(prog)
    BY <1>1, <1>2, <1>3, FrameUses
  <1> HIDE DEF n
  <1>5. ASSUME NEW j \in 1..n, stack[j].obj = Found
        PROVE  ~Acyclic(prog)
    <2>1. n \in j..n
      BY <1>2
    <2> QED
      BY <1>1, <1>3, <1>4, <1>5, <2>1, LoopIsCycle DEF n
  <1>6. ASSUME \A j \in 1..n : stack[j].obj # Found
        PROVE  ~Acyclic(prog)
    <2> DEFINE A == 1..n
               B == Object \ {Found}
               obj == [j \in A |-> stack[j].obj]
    <2>1. IsFiniteSet(A) /\ Cardinality(A) = n
      BY <1>2, FS_Interval
    <2>2. IsFiniteSet(B) /\ Cardinality(B) = N
      <3>1. IsFiniteSet(Object) /\ Cardinality(Object) = N + 1
        BY LinkerAssumption, FS_Interval DEF Object
      <3>2. Found \in Object
        BY <1>2
      <3> HIDE DEF B
      <3>3. IsFiniteSet(B) /\ Cardinality(B) = (N + 1) - 1
        <4>1. ASSUME NEW p \in Object
              PROVE  /\ IsFiniteSet(Object \ {p})
                     /\ Cardinality(Object \ {p}) = Cardinality(Object) - 1
          BY <3>1, FS_RemoveElement
        <4> QED
          BY <3>1, <3>2, <4>1 DEF B
      <3> QED
        BY <3>3, LinkerAssumption
    <2>3. obj \in [A -> B]
      <3>1. \A j \in 1..n : stack[j] \in Frame
        BY <1>2 DEF n
      <3> QED
        BY <1>6, <3>1 DEF Frame
    <2>4. Cardinality(B) < Cardinality(A)
      BY <1>1, <1>2, <2>1, <2>2, LinkerAssumption DEF n
    <2>5. \E x, y \in A : x # y /\ obj[x] = obj[y]
      <3> HIDE DEF A, B, obj
      <3> QED
        BY <2>1, <2>2, <2>3, <2>4, FS_PigeonHole
    <2> QED
      BY <2>5, DistinctFrames DEF NoReentry, n
  <1> QED
    BY <1>5, <1>6

\* Without a cycle of uses a stack with room for one activation per object
\* is never exhausted by link_dependencies.
THEOREM AcyclicFits ==
  Spec => [](Acyclic(prog) /\ StackLimit > N => StackSuffices)
  <1>1. Init => OverInv
    BY DEF Init, OverInv
  <1>2. IInv => TypeOK /\ StackInv
    BY DEF IInv
  <1> QED
    BY <1>1, <1>2, OverIsCycle, OverStep, TypeCorrect, Inductive, PTL DEF Spec

-----------------------------------------------------------------------------
\* What linking dies of, and what it is refused for.
Writes(o) == \E s \in Slot : s[1] = o /\ Reached(prog, s) /\ Names(prog, s) # 0
VerdictInv ==
  /\ status = "crashed" => \E o \in prog.unmapped \ {0} : Writes(o)
  /\ status = "wild" => 0 \in prog.unmapped /\ Writes(0)
  /\ status = "refused" => 0 \in error

LEMMA VerdictStep == IInv /\ VerdictInv /\ [Next]_vars => VerdictInv'
  <1> SUFFICES ASSUME IInv, VerdictInv, [Next]_vars
               PROVE  VerdictInv'
    OBVIOUS
  <1>1. prog' = prog
    BY DEF Next, vars, EndOfTable, StopAtNone, NotFound, BindOwn, LinkProvider,
           BindLinked, Stopped, Write
  <1>2. \A o : Writes(o)' <=> Writes(o)
    BY <1>1 DEF Writes, Slot
  <1>3. CASE BindOwn \/ BindLinked
    <2>1. /\ status = "linking" /\ stack # <<>> /\ Write(Found)
          /\ top.k <= Len(Relocs) /\ Relocs[top.k] # NONE /\ Found # 0
      BY <1>3, AtBind DEF IInv, BindOwn, BindLinked, AtSymbol, Running
    <2>2. Writes(top.obj)
      BY <2>1, AtReloc DEF IInv, Writes
    <2> QED
      BY <1>1, <1>2, <2>1, <2>2 DEF Write, VerdictInv
  <1>4. CASE ~(BindOwn \/ BindLinked)
    BY <1>1, <1>2, <1>4 DEF VerdictInv, Next, vars, EndOfTable, StopAtNone,
       NotFound, LinkProvider, Stopped, LeaveTable, AtSymbol, Running
  <1> QED
    BY <1>3, <1>4

-----------------------------------------------------------------------------
(***************************************************************************)
(* How often an object is linked: each time a relocation that is reached   *)
(* names it, in each activation of the object the relocation is in, and    *)
(* those that activations on the stack have yet to come to are owed.       *)
(***************************************************************************)
\* The slots of object p that name object o.
Sites(q, p, o) ==
  {s \in SlotsOf(q) : s[1] = p /\ Reached(q, s) /\ Names(q, s) = o}

\* Those that frame f has not begun with.
Owed(q, f, o) ==
  {s \in Sites(q, f.obj, o) :
     \/ f.tab < s[2]
     \/ f.tab = s[2] /\ (f.k < s[3] \/ (f.k = s[3] /\ f.at = "resolve"))}

\* An object's own symbols do not make it be linked.
Debt(q, f, o) == IF f.obj = o THEN 0 ELSE Cardinality(Owed(q, f, o))
Debts(q, st, o, n) ==
  SumFunctionOnSet([j \in 1..n |-> Debt(q, st[j], o)], 1..n)

Ways(q, e, o) == [p \in Object |-> e[p] * Cardinality(Sites(q, p, o))]

\* Object o has been linked for each slot that names it in each activation of
\* another object, but for the slots still owed.
Counted(q, e, st, o) ==
  e[o] + Debts(q, st, o, Len(st)) =
    SumFunctionOnSet(Ways(q, e, o), Object \ {o})

CountInv == \A o \in 1..N : Counted(prog, entered, stack, o)

LEMMA SitesFinite ==
  ASSUME NEW q \in Program, NEW p \in Object, NEW o
  PROVE  IsFiniteSet(Sites(q, p, o)) /\ Cardinality(Sites(q, p, o)) \in Nat
  <1> DEFINE L(t) == Len(q.table[p][t])
             A(t) == {<<p, t, k>> : k \in 1..L(t)}
  <1>1. ASSUME NEW t \in Table
        PROVE  IsFiniteSet(A(t))
    <2> DEFINE f == [k \in 1..L(t) |-> <<p, t, k>>]
    <2>1. L(t) \in Nat
      <3>1. q.table[p][t] \in Seq(Reloc)
        BY SlotFacts
      <3> QED
        BY <3>1
    <2>2. IsFiniteSet(1..L(t))
      BY <2>1, FS_Interval
    <2>3. f \in Surjection(1..L(t), A(t))
      BY DEF Surjection
    <2> HIDE DEF f, A, L
    <2> QED
      BY <2>2, <2>3, FS_Surjection
  <1>2. IsFiniteSet(A(1) \cup A(2))
    <2>1. 1 \in Table /\ 2 \in Table
      BY DEF Table
    <2>2. IsFiniteSet(A(1)) /\ IsFiniteSet(A(2))
      BY <1>1, <2>1
    <2> HIDE DEF A
    <2> QED
      BY <2>2, FS_Union
  <1>3. Sites(q, p, o) \subseteq A(1) \cup A(2)
    <2> SUFFICES ASSUME NEW s \in Sites(q, p, o)
                 PROVE  s \in A(1) \cup A(2)
      OBVIOUS
    <2>1. s \in SlotsOf(q) /\ s[1] = p
      BY DEF Sites
    <2>2. /\ s[2] \in {1, 2} /\ s[3] \in 1..Len(q.table[p][s[2]])
          /\ s = <<p, s[2], s[3]>>
      BY <2>1, SlotFacts DEF Table
    <2> QED
      BY <2>2
  <1> HIDE DEF A
  <1> QED
    BY <1>2, <1>3, FS_Subset, FS_CardinalityType

LEMMA OwedFinite ==
  ASSUME NEW q \in Program, NEW f \in Frame, NEW o
  PROVE  /\ IsFiniteSet(Owed(q, f, o)) /\ Cardinality(Owed(q, f, o)) \in Nat
         /\ Debt(q, f, o) \in Nat
  <1>1. IsFiniteSet(Sites(q, f.obj, o))
    BY SitesFinite, FrameFacts
  <1>2. Owed(q, f, o) \in SUBSET Sites(q, f.obj, o)
    BY DEF Owed
  <1>3. IsFiniteSet(Owed(q, f, o))
    BY <1>1, <1>2, FS_Subset
  <1> QED
    BY <1>3, FS_CardinalityType DEF Debt

\* What a site of a frame's object is.
LEMMA SiteFacts ==
  ASSUME NEW q \in Program, NEW p, NEW o, NEW s \in Sites(q, p, o)
  PROVE  /\ s \in SlotsOf(q) /\ s[1] = p /\ Reached(q, s) /\ Names(q, s) = o
         /\ s[2] \in {1, 2} /\ s[3] \in Nat \ {0}
         /\ s = <<p, s[2], s[3]>>
         /\ s[3] <= Len(q.table[p][s[2]])
  BY SlotFacts DEF Sites, Table

\* A new activation owes every site of its object.
LEMMA OwedFresh ==
  ASSUME NEW q \in Program, NEW p \in Object, NEW o
  PROVE  Owed(q, Activation(p), o) = Sites(q, p, o)
  <1>1. ASSUME NEW s \in Sites(q, p, o)
        PROVE  s \in Owed(q, Activation(p), o)
    BY <1>1, SiteFacts DEF Owed, Activation
  <1> QED
    BY <1>1 DEF Owed, Activation

\* Behind the end of a table nothing of it is owed.
LEMMA OwedAtEnd ==
  ASSUME NEW q \in Program, NEW f \in Frame, AtEnd(q, f), NEW o,
         NEW s \in Owed(q, f, o)
  PROVE  f.tab < s[2]
  <1>1. /\ s \in Sites(q, f.obj, o) /\ f.k \in Nat \ {0}
        /\ f.tab < s[2] \/ (f.tab = s[2] /\ f.k <= s[3])
    <2>1. /\ s \in Sites(q, f.obj, o)
          /\ \/ f.tab < s[2]
             \/ f.tab = s[2] /\ (f.k < s[3] \/ (f.k = s[3] /\ f.at = "resolve"))
      BY DEF Owed
    <2>2. f.k \in Nat \ {0} /\ s[3] \in Nat
      BY <2>1, SiteFacts, FrameFacts
    <2> QED
      BY <2>1, <2>2
  <1>2. /\ Reached(q, s) /\ s[1] = f.obj /\ s[3] \in Nat \ {0}
        /\ s[3] <= Len(q.table[f.obj][s[2]])
    BY <1>1, SiteFacts
  <1>3. Len(TableOf(q, f)) \in Nat
    BY FrameFacts
  <1> SUFFICES ASSUME f.tab = s[2], f.k <= s[3]
               PROVE  FALSE
    BY <1>1
  <1>4. f.k \in 1..s[3] /\ f.k <= Len(TableOf(q, f))
    BY <1>1, <1>2, <1>3 DEF TableOf
  <1>5. TableOf(q, f)[f.k] # NONE
    BY <1>2, <1>4 DEF Reached, TableOf
  <1> QED
    BY <1>1, <1>3, <1>4, <1>5 DEF AtEnd

LEMMA OwedTurns ==
  ASSUME NEW q \in Program, NEW f \in Frame, AtEnd(q, f), NEW o, f.tab = 1,
         NEW h \in Frame, h.obj = f.obj, h.tab = 2, h.k = 1, h.at = "resolve"
  PROVE  Owed(q, h, o) = Owed(q, f, o)
  <1>1. ASSUME NEW s \in Owed(q, f, o)
        PROVE  s \in Owed(q, h, o)
    <2>1. f.tab < s[2] /\ s \in Sites(q, f.obj, o)
      BY OwedAtEnd DEF Owed
    <2> QED
      BY <2>1, SiteFacts DEF Owed
  <1>2. ASSUME NEW s \in Owed(q, h, o)
        PROVE  s \in Owed(q, f, o)
    <2>1. s \in Sites(q, f.obj, o) /\ ~(2 < s[2]) /\ s[2] = 2
      <3>1. s \in Sites(q, f.obj, o)
        BY DEF Owed
      <3> QED
        BY <3>1, SiteFacts DEF Owed
    <2> QED
      BY <2>1 DEF Owed
  <1> QED
    BY <1>1, <1>2

LEMMA OwedDone ==
  ASSUME NEW q \in Program, NEW f \in Frame, AtEnd(q, f), NEW o, f.tab # 1
  PROVE  Owed(q, f, o) = {}
  <1> SUFFICES ASSUME NEW s \in Owed(q, f, o)
               PROVE  FALSE
    OBVIOUS
  <1>1. f.tab < s[2] /\ s \in Sites(q, f.obj, o) /\ f.tab = 2
    <2>1. f.tab \in Table
      BY FrameFacts
    <2>2. s \in Sites(q, f.obj, o)
      BY DEF Owed
    <2> QED
      BY <2>1, <2>2, OwedAtEnd DEF Table
  <1> QED
    BY <1>1, SiteFacts

\* A frame goes past a relocation it has begun with, or one that names
\* another object or none.
LEMMA OwedPast ==
  ASSUME NEW q \in Program, NEW f \in Frame, NEW o,
         f.k <= Len(TableOf(q, f)),
         f.at = "bind" \/ Target(q, f) # o,
         NEW h \in Frame, h.obj = f.obj, h.tab = f.tab, h.k = f.k + 1,
         h.at = "resolve"
  PROVE  Owed(q, h, o) = Owed(q, f, o)
  <1>1. f.k \in Nat \ {0} /\ f.tab \in Nat
    <2>1. f.k \in Nat \ {0} /\ f.tab \in Table
      BY FrameFacts
    <2> QED
      BY <2>1 DEF Table
  <1>2. ASSUME NEW s \in Sites(q, f.obj, o)
        PROVE  s \in Owed(q, h, o) <=> s \in Owed(q, f, o)
    <2>1. /\ s[2] \in {1, 2} /\ s[3] \in Nat \ {0} /\ s = <<f.obj, s[2], s[3]>>
          /\ Names(q, s) = o
      BY <1>2, SiteFacts
    <2>2. s[2] = f.tab /\ s[3] = f.k => f.at = "bind"
      <3> SUFFICES ASSUME s[2] = f.tab, s[3] = f.k, f.at # "bind"
                   PROVE  FALSE
        OBVIOUS
      <3>1. s = <<f.obj, f.tab, f.k>>
        BY <2>1
      <3> QED
        BY <2>1, <3>1, FrameFacts
    <2>3. f.k < s[3] <=> f.k + 1 < s[3] \/ f.k + 1 = s[3]
      BY <1>1, <2>1
    <2> QED
      BY <1>1, <2>1, <2>2, <2>3 DEF Owed
  <1> QED
    BY <1>2 DEF Owed

\* A frame begins with a relocation.
LEMMA OwedBegun ==
  ASSUME NEW q \in Program, NEW f \in Frame, NEW o, f.at = "resolve",
         f.k <= Len(TableOf(q, f)), Reached(q, <<f.obj, f.tab, f.k>>),
         NEW h \in Frame, h.obj = f.obj, h.tab = f.tab, h.k = f.k, h.at = "bind"
  PROVE  /\ Owed(q, h, o) = Owed(q, f, o) \ {<<f.obj, f.tab, f.k>>}
         /\ <<f.obj, f.tab, f.k>> \in Owed(q, f, o) <=> Target(q, f) = o
  <1> DEFINE z == <<f.obj, f.tab, f.k>>
  <1>1. /\ f.k \in Nat \ {0} /\ f.tab \in Nat
        /\ z \in SlotsOf(q) /\ Names(q, z) = Target(q, f)
    BY FrameFacts DEF Table
  <1>2. z \in Owed(q, f, o) <=> Target(q, f) = o
    BY <1>1 DEF Owed, Sites
  <1>3. ASSUME NEW s \in Sites(q, f.obj, o)
        PROVE  s \in Owed(q, h, o) <=> s \in Owed(q, f, o) /\ s # z
    <2>1. s[2] \in {1, 2} /\ s[3] \in Nat \ {0} /\ s = <<f.obj, s[2], s[3]>>
      BY <1>3, SiteFacts
    <2>2. s = z <=> s[2] = f.tab /\ s[3] = f.k
      BY <2>1
    <2> HIDE DEF z
    <2> QED
      BY <1>1, <2>1, <2>2 DEF Owed
  <1>4. Owed(q, h, o) \subseteq Sites(q, f.obj, o)
        /\ Owed(q, f, o) \subseteq Sites(q, f.obj, o)
    BY DEF Owed
  <1> HIDE DEF z
  <1>5. Owed(q, h, o) = Owed(q, f, o) \ {z}
    BY <1>3, <1>4
  <1> QED
    BY <1>2, <1>5 DEF z
-----------------------------------------------------------------------------
\* The sum of what the frames owe.
LEMMA DebtsFacts ==
  ASSUME NEW q \in Program, NEW st \in Seq(Frame), NEW o,
         NEW n \in Nat, n <= Len(st)
  PROVE  /\ IsFiniteSet(1..n)
         /\ \A j \in 1..n : Debt(q, st[j], o) \in Nat
         /\ Debts(q, st, o, n) \in Nat
         /\ Debts(q, st, o, 0) = 0
  <1> DEFINE d == [j \in 1..n |-> Debt(q, st[j], o)]
  <1>1. IsFiniteSet(1..n)
    BY FS_Interval
  <1>2. \A j \in 1..n : Debt(q, st[j], o) \in Nat
    <2> TAKE j \in 1..n
    <2>1. st[j] \in Frame
      OBVIOUS
    <2> QED
      BY <2>1, OwedFinite
  <1>3. SumFunctionOnSet(d, 1..n) \in Nat
    <2>1. \A j \in 1..n : d[j] \in Nat
      BY <1>2
    <2> HIDE DEF d
    <2> QED
      BY <1>1, <2>1, SumType
  <1>4. Debts(q, st, o, 0) = 0
    <2>1. 1..0 = {}
      OBVIOUS
    <2> QED
      BY <2>1, SumEmpty DEF Debts
  <1> QED
    BY <1>1, <1>2, <1>3, <1>4 DEF Debts

\* It does not depend on what the stack holds above.
LEMMA DebtsSame ==
  ASSUME NEW q, NEW st, NEW ut, NEW o, NEW n, \A j \in 1..n : ut[j] = st[j]
  PROVE  Debts(q, ut, o, n) = Debts(q, st, o, n)
  <1>1. [j \in 1..n |-> Debt(q, ut[j], o)] = [j \in 1..n |-> Debt(q, st[j], o)]
    OBVIOUS
  <1> QED
    BY <1>1 DEF Debts

\* One frame more.
LEMMA DebtsWith ==
  ASSUME NEW q \in Program, NEW st \in Seq(Frame), NEW o,
         NEW n \in Nat, n + 1 <= Len(st)
  PROVE  Debts(q, st, o, n + 1) = Debts(q, st, o, n) + Debt(q, st[n + 1], o)
  <1> DEFINE S == 1..n
             d == [j \in 1..(n + 1) |-> Debt(q, st[j], o)]
             b == [j \in 1..n |-> Debt(q, st[j], o)]
  <1>1. IsFiniteSet(S) /\ n + 1 \notin S /\ 1..(n + 1) = S \cup {n + 1}
    <2>1. n <= Len(st)
      OBVIOUS
    <2>2. IsFiniteSet(S)
      BY <2>1, DebtsFacts
    <2>3. n + 1 \notin S /\ 1..(n + 1) = S \cup {n + 1}
      OBVIOUS
    <2> QED
      BY <2>2, <2>3
  <1>2. \A j \in S \cup {n + 1} : d[j] \in Nat
    <2>1. \A j \in 1..(n + 1) : Debt(q, st[j], o) \in Nat
      <3>1. n + 1 \in Nat
        OBVIOUS
      <3> QED
        BY <3>1, DebtsFacts
    <2>2. \A j \in 1..(n + 1) : d[j] \in Nat
      BY <2>1
    <2> HIDE DEF d, S
    <2> QED
      BY <1>1, <2>2
  <1>3. /\ d[n + 1] = Debt(q, st[n + 1], o)
        /\ \A j \in S : d[j] = b[j]
    OBVIOUS
  <1>4. /\ Debts(q, st, o, n + 1) = SumFunctionOnSet(d, S \cup {n + 1})
        /\ Debts(q, st, o, n) = SumFunctionOnSet(b, S)
    BY <1>1 DEF Debts
  <1>7. Debts(q, st, o, n) \in Nat /\ d[n + 1] \in Nat
    BY <1>2, DebtsFacts
  <1> HIDE DEF S, d, b
  <1>5. SumFunctionOnSet(d, S \cup {n + 1}) = d[n + 1] + SumFunctionOnSet(d, S)
    BY <1>1, <1>2, SumWith
  <1>6. SumFunctionOnSet(d, S) = SumFunctionOnSet(b, S)
    BY <1>1, <1>3, SumSame
  <1> QED
    BY <1>3, <1>4, <1>5, <1>6, <1>7

-----------------------------------------------------------------------------

LEMMA WaysFacts ==
  ASSUME NEW q \in Program, NEW e \in [Object -> Nat], NEW o
  PROVE  /\ IsFiniteSet(Object \ {o})
         /\ \A p \in Object : /\ Ways(q, e, o)[p] = e[p] * Cardinality(Sites(q, p, o))
                              /\ Ways(q, e, o)[p] \in Nat
         /\ SumFunctionOnSet(Ways(q, e, o), Object \ {o}) \in Nat
  <1>1. IsFiniteSet(Object)
    BY LinkerAssumption, FS_Interval DEF Object
  <1>2. IsFiniteSet(Object \ {o})
    BY <1>1, FS_Subset
  <1>3. ASSUME NEW p \in Object
        PROVE  /\ Ways(q, e, o)[p] = e[p] * Cardinality(Sites(q, p, o))
               /\ Ways(q, e, o)[p] \in Nat
    <2>1. e[p] \in Nat /\ Cardinality(Sites(q, p, o)) \in Nat
      BY SitesFinite
    <2>2. Ways(q, e, o)[p] = e[p] * Cardinality(Sites(q, p, o))
      BY DEF Ways
    <2>3. \A x, y \in Nat : x * y \in Nat
      OBVIOUS
    <2> QED
      BY <2>1, <2>2, <2>3
  <1>4. SumFunctionOnSet(Ways(q, e, o), Object \ {o}) \in Nat
    BY <1>2, <1>3, SumType
  <1> QED
    BY <1>2, <1>3, <1>4

\* The top frame goes on and owes as much as before.
LEMMA CountResumes ==
  ASSUME NEW q \in Program, NEW e, NEW st \in Seq(Frame), st # <<>>,
         NEW o, Counted(q, e, st, o),
         NEW f \in Frame, Debt(q, f, o) = Debt(q, st[Len(st)], o)
  PROVE  Counted(q, e, [st EXCEPT ![Len(st)] = f], o)
  <1> DEFINE n == Len(st)
             ut == [st EXCEPT ![n] = f]
  <1>1. /\ ut \in Seq(Frame) /\ Len(ut) = n /\ n \in Nat \ {0} /\ ut[n] = f
        /\ \A j \in 1..(n - 1) : ut[j] = st[j]
    BY ResumeSeq
  <1> HIDE DEF n, ut
  <1>2. n = Len(st) /\ n - 1 \in Nat /\ (n - 1) + 1 = n /\ (n - 1) + 1 <= Len(st)
        /\ (n - 1) + 1 <= Len(ut)
    BY <1>1 DEF n
  <1>3. Debts(q, ut, o, n - 1) = Debts(q, st, o, n - 1)
    BY <1>1, DebtsSame
  <1>4. /\ Debts(q, ut, o, (n - 1) + 1) = Debts(q, ut, o, n - 1) + Debt(q, ut[(n - 1) + 1], o)
        /\ Debts(q, st, o, (n - 1) + 1) = Debts(q, st, o, n - 1) + Debt(q, st[(n - 1) + 1], o)
    BY <1>1, <1>2, DebtsWith
  <1>5. Debts(q, ut, o, n) = Debts(q, st, o, n)
    BY <1>1, <1>2, <1>3, <1>4
  <1> QED
    BY <1>1, <1>2, <1>5 DEF Counted, n, ut

\* The top frame owes nothing and leaves.
LEMMA CountPops ==
  ASSUME NEW q \in Program, NEW e, NEW st \in Seq(Frame), st # <<>>,
         NEW o, Counted(q, e, st, o), Debt(q, st[Len(st)], o) = 0
  PROVE  Counted(q, e, SubSeq(st, 1, Len(st) - 1), o)
  <1> DEFINE n == Len(st)
             ut == SubSeq(st, 1, n - 1)
  <1>1. /\ ut \in Seq(Frame) /\ Len(ut) = n - 1 /\ n \in Nat \ {0}
        /\ \A j \in 1..(n - 1) : ut[j] = st[j]
    BY PopSeq
  <1> HIDE DEF n, ut
  <1>2. n = Len(st) /\ n - 1 \in Nat /\ (n - 1) + 1 = n /\ (n - 1) + 1 <= Len(st)
    BY <1>1 DEF n
  <1>3. Debts(q, ut, o, n - 1) = Debts(q, st, o, n - 1)
    BY <1>1, DebtsSame
  <1>4. Debts(q, st, o, (n - 1) + 1) = Debts(q, st, o, n - 1) + Debt(q, st[(n - 1) + 1], o)
    BY <1>2, DebtsWith
  <1>5. Debts(q, st, o, n - 1) \in Nat
    <2>1. n - 1 <= Len(st)
      BY <1>2
    <2> QED
      BY <1>2, <2>1, DebtsFacts
  <1>6. Debts(q, ut, o, n - 1) = Debts(q, st, o, n)
    BY <1>2, <1>3, <1>4, <1>5
  <1> QED
    BY <1>1, <1>2, <1>6 DEF Counted, n, ut

\* The top frame begins with a relocation that names object p, and object p
\* is entered.
LEMMA CountPushes ==
  ASSUME NEW q \in Program, NEW e \in [Object -> Nat],
         NEW st \in Seq(Frame), st # <<>>,
         NEW p \in Object, NEW o \in Object, Counted(q, e, st, o),
         NEW f \in Frame,
         p = o => Debt(q, f, o) + 1 = Debt(q, st[Len(st)], o),
         p # o => Debt(q, f, o) = Debt(q, st[Len(st)], o)
  PROVE  Counted(q, [e EXCEPT ![p] = @ + 1],
                 Append([st EXCEPT ![Len(st)] = f], Activation(p)), o)
  <1> DEFINE n == Len(st)
             a == Activation(p)
             d == [e EXCEPT ![p] = @ + 1]
             ut == Append([st EXCEPT ![n] = f], a)
             R == Object \ {o}
             v == Ways(q, e, o)
             w == Ways(q, d, o)
  <1>0. a \in Frame /\ a.obj = p
    BY FreshFrame DEF Activation
  <1>1. /\ ut \in Seq(Frame) /\ Len(ut) = n + 1 /\ ut[n + 1] = a /\ ut[n] = f
        /\ n \in Nat \ {0} /\ \A j \in 1..(n - 1) : ut[j] = st[j]
    BY <1>0, PushSeq
  <1>2. /\ d \in [Object -> Nat] /\ d[p] = e[p] + 1 /\ e[p] \in Nat
        /\ \A x \in Object \ {p} : d[x] = e[x]
    OBVIOUS
  <1>3. /\ IsFiniteSet(R)
        /\ \A x \in Object :
             /\ v[x] = e[x] * Cardinality(Sites(q, x, o)) /\ v[x] \in Nat
             /\ w[x] = d[x] * Cardinality(Sites(q, x, o)) /\ w[x] \in Nat
        /\ SumFunctionOnSet(v, R) \in Nat /\ SumFunctionOnSet(w, R) \in Nat
    <2>1. /\ IsFiniteSet(R) /\ SumFunctionOnSet(v, R) \in Nat
          /\ \A x \in Object :
               v[x] = e[x] * Cardinality(Sites(q, x, o)) /\ v[x] \in Nat
      BY WaysFacts
    <2>2. SumFunctionOnSet(w, R) \in Nat /\ \A x \in Object :
            w[x] = d[x] * Cardinality(Sites(q, x, o)) /\ w[x] \in Nat
      <3> HIDE DEF d
      <3> QED
        BY <1>2, WaysFacts
    <2> HIDE DEF v, w, R
    <2> QED
      BY <2>1, <2>2
  <1>4. Debt(q, a, o) = IF p = o THEN 0 ELSE Cardinality(Sites(q, p, o))
    BY <1>0, OwedFresh DEF Debt
  <1> HIDE DEF n, a, d, ut, R, v, w
  <1>5. Debts(q, ut, o, n + 1) + Debt(q, st[n], o)
          = Debts(q, st, o, n) + Debt(q, f, o) + Debt(q, a, o)
    <2>1. n = Len(st) /\ n - 1 \in Nat /\ (n - 1) + 1 = n /\ (n - 1) + 1 <= Len(st)
          /\ (n - 1) + 1 <= Len(ut) /\ n + 1 <= Len(ut) /\ n \in Nat /\ n - 1 <= Len(st)
          /\ n \in 1..n /\ n <= Len(st)
      BY <1>1 DEF n
    <2>2. Debts(q, ut, o, n - 1) = Debts(q, st, o, n - 1)
      BY <1>1, DebtsSame
    <2>3. /\ Debts(q, ut, o, (n - 1) + 1) = Debts(q, ut, o, n - 1) + Debt(q, ut[(n - 1) + 1], o)
          /\ Debts(q, st, o, (n - 1) + 1) = Debts(q, st, o, n - 1) + Debt(q, st[(n - 1) + 1], o)
          /\ Debts(q, ut, o, n + 1) = Debts(q, ut, o, n) + Debt(q, ut[n + 1], o)
      <3>1. /\ n - 1 \in Nat /\ (n - 1) + 1 <= Len(ut) /\ (n - 1) + 1 <= Len(st)
            /\ n \in Nat /\ n + 1 <= Len(ut)
        BY <2>1
      <3>2. Debts(q, ut, o, (n - 1) + 1)
              = Debts(q, ut, o, n - 1) + Debt(q, ut[(n - 1) + 1], o)
        BY <1>1, <3>1, DebtsWith
      <3>3. Debts(q, st, o, (n - 1) + 1)
              = Debts(q, st, o, n - 1) + Debt(q, st[(n - 1) + 1], o)
        BY <1>1, <3>1, DebtsWith
      <3>4. Debts(q, ut, o, n + 1) = Debts(q, ut, o, n) + Debt(q, ut[n + 1], o)
        BY <1>1, <3>1, DebtsWith
      <3> QED
        BY <3>2, <3>3, <3>4
    <2>4. Debts(q, st, o, n - 1) \in Nat /\ Debt(q, st[n], o) \in Nat
      <3>1. Debts(q, st, o, n - 1) \in Nat
        BY <2>1, DebtsFacts
      <3>2. \A j \in 1..n : Debt(q, st[j], o) \in Nat
        BY <2>1, DebtsFacts
      <3> QED
        BY <2>1, <3>1, <3>2
    <2>5. Debt(q, f, o) \in Nat /\ Debt(q, a, o) \in Nat
      BY <1>0, OwedFinite
    <2> QED
      BY <1>1, <2>1, <2>2, <2>3, <2>4, <2>5
  <1>6. /\ Debts(q, st, o, n) \in Nat /\ Debts(q, ut, o, n + 1) \in Nat
        /\ Debt(q, f, o) \in Nat
    <2>1. n \in Nat /\ n <= Len(st) /\ n + 1 \in Nat /\ n + 1 <= Len(ut)
      BY <1>1 DEF n
    <2> QED
      BY <1>1, <2>1, DebtsFacts, OwedFinite
  <1>7. e[o] + Debts(q, st, o, n) = SumFunctionOnSet(v, R) /\ e[o] \in Nat
    BY DEF Counted, n, v, R
  <1>8. CASE p = o
    <2>1. SumFunctionOnSet(v, R) = SumFunctionOnSet(w, R)
      <3>1. \A x \in R : v[x] = w[x]
        BY <1>2, <1>3, <1>8 DEF R
      <3> QED
        BY <1>3, <3>1, SumSame
    <2>2. d[o] + Debts(q, ut, o, n + 1) = SumFunctionOnSet(w, R)
      <3>1. Debt(q, f, o) + 1 = Debt(q, st[n], o)
        BY <1>8 DEF n
      <3>2. d[o] = e[o] + 1 /\ Debt(q, a, o) = 0
        BY <1>2, <1>4, <1>8
      <3> DEFINE D == Debts(q, st, o, n)
                 E == Debts(q, ut, o, n + 1)
                 x == Debt(q, f, o)
                 y == Debt(q, st[n], o)
      <3>3. E + y = D + x + 0 /\ D \in Nat /\ E \in Nat /\ x \in Nat /\ y = x + 1
        BY <1>5, <1>6, <3>1, <3>2
      <3>4. e[o] + D = SumFunctionOnSet(w, R) /\ e[o] \in Nat
        BY <1>7, <2>1
      <3> HIDE DEF D, E, x, y
      <3>5. e[o] + 1 + E = SumFunctionOnSet(w, R)
        BY <3>3, <3>4
      <3> QED
        BY <3>2, <3>5 DEF E
    <2> QED
      BY <1>1, <2>2 DEF Counted, w, R, d, ut, n, a
  <1>9. CASE p # o
    <2>1. SumFunctionOnSet(w, R) + v[p] = SumFunctionOnSet(v, R) + w[p]
      <3>1. /\ p \in R /\ \A x \in R : v[x] \in Nat /\ w[x] \in Nat
            /\ \A x \in R \ {p} : w[x] = v[x]
        BY <1>2, <1>3, <1>9 DEF R
      <3>2. ASSUME NEW S, IsFiniteSet(S), NEW b \in S,
                   \A s \in S : v[s] \in Nat /\ w[s] \in Nat,
                   \A s \in S \ {b} : w[s] = v[s]
            PROVE  SumFunctionOnSet(w, S) + v[b] = SumFunctionOnSet(v, S) + w[b]
        BY <3>2, SumChange
      <3> QED
        BY <1>3, <3>1, <3>2
    <2>2. w[p] = v[p] + Cardinality(Sites(q, p, o)) /\ v[p] \in Nat
          /\ Cardinality(Sites(q, p, o)) \in Nat
      <3> DEFINE c == Cardinality(Sites(q, p, o))
      <3>1. c \in Nat
        BY SitesFinite
      <3>2. v[p] = e[p] * c /\ w[p] = (e[p] + 1) * c /\ v[p] \in Nat
        BY <1>2, <1>3
      <3> HIDE DEF c
      <3>3. (e[p] + 1) * c = e[p] * c + c
        BY <1>2, <3>1
      <3> QED
        BY <3>1, <3>2, <3>3 DEF c
    <2>3. d[o] = e[o]
      BY <1>2, <1>9
    <2>4. d[o] + Debts(q, ut, o, n + 1) = SumFunctionOnSet(w, R)
      <3>1. Debt(q, f, o) = Debt(q, st[n], o)
        BY <1>9 DEF n
      <3>2. Debt(q, a, o) = Cardinality(Sites(q, p, o))
        BY <1>4, <1>9
      <3>3. \A D, E, x, c, s, y, z, m, k \in Nat :
              /\ E + x = D + x + c /\ m + D = s
              /\ z = y + c /\ k + y = s + z
              => m + E = k
        OBVIOUS
      <3>4. /\ Debts(q, ut, o, n + 1) + Debt(q, f, o)
                 = Debts(q, st, o, n) + Debt(q, f, o) + Cardinality(Sites(q, p, o))
            /\ p \in Object
        BY <1>5, <3>1, <3>2
      <3>5. /\ v[p] \in Nat /\ w[p] \in Nat
            /\ SumFunctionOnSet(v, R) \in Nat /\ SumFunctionOnSet(w, R) \in Nat
        BY <1>3, <3>4
      <3> DEFINE D == Debts(q, st, o, n)
                 E == Debts(q, ut, o, n + 1)
                 x == Debt(q, f, o)
                 c == Cardinality(Sites(q, p, o))
                 s == SumFunctionOnSet(v, R)
                 k == SumFunctionOnSet(w, R)
                 y == v[p]
                 z == w[p]
                 m == e[o]
      <3>6. /\ D \in Nat /\ E \in Nat /\ x \in Nat /\ c \in Nat /\ s \in Nat
            /\ k \in Nat /\ y \in Nat /\ z \in Nat /\ m \in Nat
        BY <1>6, <1>7, <2>2, <3>5
      <3>7. E + x = D + x + c /\ m + D = s /\ z = y + c /\ k + y = s + z
        BY <1>7, <2>1, <2>2, <3>4
      <3>8. d[o] = m
        BY <2>3
      <3> HIDE DEF D, E, x, c, s, k, y, z, m
      <3>9. m + E = k
        BY <3>3, <3>6, <3>7
      <3> QED
        BY <3>8, <3>9 DEF E, k
    <2> QED
      BY <1>1, <2>4 DEF Counted, w, R, d, ut, n, a
  <1> QED
    BY <1>8, <1>9

-----------------------------------------------------------------------------
LEMMA CountInit == Init => CountInv
  <1> SUFFICES ASSUME Init, NEW o \in 1..N
               PROVE  Counted(prog, entered, stack, o)
    BY DEF CountInv
  <1> DEFINE a == Activation(0)
             R == Object \ {o}
             v == Ways(prog, entered, o)
             none == [x \in Object |-> 0]
             w == [none EXCEPT ![0] = v[0]]
  <1>1. /\ prog \in Program /\ 0 \in Object /\ o \in Object /\ o # 0
        /\ stack = <<a>> /\ a \in Frame /\ a.obj = 0
    <2>1. prog \in Program /\ 0 \in Object /\ o \in Object /\ o # 0
      BY LinkerAssumption DEF Init, Object
    <2> QED
      BY <2>1, FreshFrame DEF Init, Activation
  <1>2. /\ entered \in [Object -> Nat] /\ entered[0] = 1 /\ entered[o] = 0
        /\ \A x \in Object : x # 0 => entered[x] = 0
    BY <1>1 DEF Init
  <1> HIDE DEF a
  <1>3. stack \in Seq(Frame) /\ Len(stack) = 0 + 1 /\ stack[0 + 1] = a
    BY <1>1
  <1>4. Debts(prog, stack, o, 0 + 1) = Cardinality(Sites(prog, 0, o))
    <2>1. /\ Debts(prog, stack, o, 0 + 1)
               = Debts(prog, stack, o, 0) + Debt(prog, stack[0 + 1], o)
          /\ Debts(prog, stack, o, 0) = 0
      <3>1. 0 \in Nat /\ 0 + 1 <= Len(stack) /\ 0 <= Len(stack)
        BY <1>3
      <3> QED
        BY <1>1, <1>3, <3>1, DebtsWith, DebtsFacts
    <2>2. Debt(prog, a, o) = Cardinality(Sites(prog, 0, o))
      BY <1>1, OwedFresh DEF Debt, a
    <2>3. Cardinality(Sites(prog, 0, o)) \in Nat
      BY <1>1, SitesFinite
    <2> QED
      BY <1>3, <2>1, <2>2, <2>3
  <1>5. /\ IsFiniteSet(R) /\ \A x \in Object : v[x] \in Nat
        /\ \A x \in Object : v[x] = entered[x] * Cardinality(Sites(prog, x, o))
    BY <1>1, <1>2, WaysFacts
  <1>6. /\ v[0] = Cardinality(Sites(prog, 0, o))
        /\ \A x \in Object : x # 0 => v[x] = 0
    <2>1. \A x \in Object : Cardinality(Sites(prog, x, o)) \in Nat
      BY <1>1, SitesFinite
    <2>2. \A c \in Nat : 1 * c = c /\ 0 * c = 0
      OBVIOUS
    <2> QED
      BY <1>1, <1>2, <1>5, <2>1, <2>2
  <1> HIDE DEF v
  <1>7. SumFunctionOnSet(v, R) = v[0]
    <2>1. IsFiniteSet(R \ {0}) /\ 0 \in R
      BY <1>1, <1>5, FS_Subset
    <2>2. SumFunctionOnSet(v, R) = v[0] + SumFunctionOnSet(v, R \ {0})
      BY <1>5, <2>1, SumWithout
    <2>3. SumFunctionOnSet(v, R \ {0}) = SumFunctionOnSet(none, R \ {0})
      <3>1. \A x \in R \ {0} : v[x] = none[x]
        BY <1>6
      <3> HIDE DEF R, none
      <3> QED
        BY <2>1, <3>1, SumSame
    <2>4. SumFunctionOnSet(none, R \ {0}) = 0
      <3>1. \A x \in R \ {0} : none[x] = 0
        OBVIOUS
      <3> HIDE DEF R, none
      <3> QED
        BY <2>1, <3>1, SumZero
    <2> QED
      BY <1>1, <1>5, <2>2, <2>3, <2>4
  <1> QED
    BY <1>1, <1>2, <1>3, <1>4, <1>5, <1>6, <1>7 DEF Counted, v, R

\* The top frame goes past a relocation that it has begun with, or that does
\* not make object o be linked.
LEMMA CountPast ==
  ASSUME TypeOK, stack # <<>>, top.k <= Len(Relocs),
         NEW o \in 1..N, Counted(prog, entered, stack, o),
         top.at = "bind" \/ Found # o \/ top.obj = o
  PROVE  Counted(prog, entered, Resume([top EXCEPT !.k = @ + 1, !.at = "resolve"]), o)
  <1> DEFINE h == [top EXCEPT !.k = @ + 1, !.at = "resolve"]
  <1>1. /\ top \in Frame /\ stack \in Seq(Frame) /\ prog \in Program
        /\ Relocs = TableOf(prog, top) /\ Found = Target(prog, top)
    BY TopFacts DEF TypeOK
  <1>2. /\ h.obj = top.obj /\ h.tab = top.tab /\ h.k = top.k + 1
        /\ h.at = "resolve" /\ h \in Frame
    <2>1. top.k + 1 \in Nat \ {0} /\ "resolve" \in {"resolve", "bind"}
      BY <1>1 DEF Frame
    <2> QED
      BY <1>1, <2>1, FrameUpdates DEF Frame
  <1> HIDE DEF h
  <1>3. Debt(prog, h, o) = Debt(prog, top, o)
    <2>1. CASE top.obj = o
      BY <1>2, <2>1 DEF Debt
    <2>2. CASE top.obj # o
      <3>1. Owed(prog, h, o) = Owed(prog, top, o)
        BY <1>1, <1>2, <2>2, OwedPast
      <3> QED
        BY <1>2, <3>1 DEF Debt
    <2> QED
      BY <2>1, <2>2
  <1>4. Counted(prog, entered, [stack EXCEPT ![Len(stack)] = h], o)
    BY <1>1, <1>2, <1>3, CountResumes DEF top
  <1> QED
    BY <1>4 DEF Resume, h

LEMMA CountWrite ==
  ASSUME TypeOK, CountInv, stack # <<>>, top.k <= Len(Relocs),
         top.at = "bind" \/ Found = top.obj, NEW p, Write(p)
  PROVE  CountInv'
  <1> SUFFICES ASSUME NEW o \in 1..N
               PROVE  Counted(prog', entered', stack', o)
    BY DEF CountInv
  <1>1. Counted(prog, entered, stack, o)
    BY DEF CountInv
  <1>2. CASE top.obj \in prog.unmapped
    BY <1>1, <1>2 DEF Write
  <1>3. CASE top.obj \notin prog.unmapped
    <2>1. Counted(prog, entered, Resume([top EXCEPT !.k = @ + 1, !.at = "resolve"]), o)
      BY <1>1, CountPast
    <2> QED
      BY <1>3, <2>1 DEF Write
  <1> QED
    BY <1>2, <1>3

LEMMA CountLeaves ==
  ASSUME TypeOK, CountInv, stack # <<>>, top.at = "resolve", AtEnd(prog, top),
         LeaveTable, UNCHANGED <<prog, entered>>
  PROVE  CountInv'
  <1> SUFFICES ASSUME NEW o \in 1..N
               PROVE  Counted(prog, entered, stack', o)
    BY DEF CountInv
  <1>1. Counted(prog, entered, stack, o)
    BY DEF CountInv
  <1>2. top \in Frame /\ stack \in Seq(Frame) /\ prog \in Program
    BY TopFacts DEF TypeOK
  <1>3. CASE top.tab = 1
    <2> DEFINE h == [top EXCEPT !.tab = 2, !.k = 1]
    <2>1. /\ h.obj = top.obj /\ h.tab = 2 /\ h.k = 1 /\ h.at = "resolve"
          /\ h \in Frame
      <3>1. 2 \in Table /\ 1 \in Nat \ {0}
        BY DEF Table
      <3> QED
        BY <1>2, <3>1, FrameUpdates DEF Frame
    <2> HIDE DEF h
    <2>2. Owed(prog, h, o) = Owed(prog, top, o)
      BY <1>2, <1>3, <2>1, OwedTurns
    <2>3. Debt(prog, h, o) = Debt(prog, top, o)
      BY <2>1, <2>2 DEF Debt
    <2>4. Counted(prog, entered, [stack EXCEPT ![Len(stack)] = h], o)
      BY <1>1, <1>2, <2>1, <2>3, CountResumes DEF top
    <2> QED
      BY <1>3, <2>4 DEF LeaveTable, Resume, h
  <1>4. CASE top.tab # 1
    <2>1. Debt(prog, top, o) = 0
      BY <1>2, <1>4, OwedDone, FS_EmptySet DEF Debt
    <2>2. Counted(prog, entered, SubSeq(stack, 1, Len(stack) - 1), o)
      BY <1>1, <1>2, <2>1, CountPops DEF top
    <2> QED
      BY <1>4, <2>2 DEF LeaveTable
  <1> QED
    BY <1>3, <1>4

LEMMA CountLinks ==
  ASSUME TypeOK, StackInv, CountInv, LinkProvider
  PROVE  CountInv'
  <1> SUFFICES ASSUME NEW o \in 1..N
               PROVE  Counted(prog', entered', stack', o)
    BY DEF CountInv
  <1>1. Counted(prog, entered, stack, o)
    BY DEF CountInv
  <1>2. /\ stack # <<>> /\ top.at = "resolve" /\ top.k <= Len(Relocs)
        /\ Relocs[top.k] # NONE /\ Found # top.obj /\ prog' = prog
    BY DEF LinkProvider, AtSymbol, Running
  <1>3. /\ top \in Frame /\ stack \in Seq(Frame) /\ prog \in Program
        /\ entered \in [Object -> Nat] /\ Found \in Object
        /\ Relocs = TableOf(prog, top) /\ Found = Target(prog, top)
    BY <1>2, TopFacts DEF TypeOK
  <1>4. CASE ~(Len(stack) < StackLimit)
    BY <1>1, <1>2, <1>4 DEF LinkProvider
  <1>5. CASE Len(stack) < StackLimit
    <2> DEFINE h == [top EXCEPT !.at = "bind"]
    <2>1. /\ stack' = Append([stack EXCEPT ![Len(stack)] = h], Activation(Found))
          /\ entered' = [entered EXCEPT ![Found] = @ + 1]
      BY <1>5 DEF LinkProvider, Resume
    <2>2. /\ h.obj = top.obj /\ h.tab = top.tab /\ h.k = top.k /\ h.at = "bind"
          /\ h \in Frame
      BY <1>3 DEF Frame
    <2> HIDE DEF h
    <2> DEFINE z == <<top.obj, top.tab, top.k>>
    <2>3. Reached(prog, z)
      BY <1>2, AtReloc DEF Here
    <2>4. /\ Owed(prog, h, o) = Owed(prog, top, o) \ {z}
          /\ z \in Owed(prog, top, o) <=> Found = o
      BY <1>2, <1>3, <2>2, <2>3, OwedBegun
    <2>5. IsFiniteSet(Owed(prog, top, o)) /\ Cardinality(Owed(prog, top, o)) \in Nat
      BY <1>3, OwedFinite
    <2> HIDE DEF z
    <2>6. ASSUME Found = o
          PROVE  Debt(prog, h, o) + 1 = Debt(prog, top, o)
      <3>1. Cardinality(Owed(prog, h, o)) = Cardinality(Owed(prog, top, o)) - 1
        BY <2>4, <2>5, <2>6, FS_RemoveElement
      <3> QED
        BY <1>2, <2>2, <2>5, <2>6, <3>1 DEF Debt
    <2>7. ASSUME Found # o
          PROVE  Debt(prog, h, o) = Debt(prog, top, o)
      <3>1. Owed(prog, h, o) = Owed(prog, top, o)
        BY <2>4, <2>7
      <3> QED
        BY <2>2, <3>1 DEF Debt
    <2>8. o \in Object
      BY LinkerAssumption DEF Object
    <2>9. Counted(prog, [entered EXCEPT ![Found] = @ + 1],
                  Append([stack EXCEPT ![Len(stack)] = h], Activation(Found)), o)
      BY <1>1, <1>2, <1>3, <2>2, <2>6, <2>7, <2>8, CountPushes DEF top
    <2> QED
      BY <1>2, <2>1, <2>9
  <1> QED
    BY <1>4, <1>5

LEMMA CountStep == IInv /\ CountInv /\ [Next]_vars => CountInv'
  <1> SUFFICES ASSUME IInv, CountInv, [Next]_vars
               PROVE  CountInv'
    OBVIOUS
  <1>0. TypeOK /\ StackInv
    BY DEF IInv
  <1>1. CASE EndOfTable
    <2>1. stack # <<>> /\ top.at = "resolve" /\ AtEnd(prog, top)
      BY <1>0, <1>1, TopFacts DEF EndOfTable, Running, AtEnd
    <2> QED
      BY <1>0, <1>1, <2>1, CountLeaves DEF EndOfTable
  <1>2. CASE StopAtNone
    <2>1. stack # <<>> /\ top.at = "resolve" /\ AtEnd(prog, top)
      BY <1>0, <1>2, TopFacts DEF StopAtNone, Running, AtEnd
    <2> QED
      BY <1>0, <1>2, <2>1, CountLeaves DEF StopAtNone
  <1>3. CASE NotFound
    <2>1. /\ stack # <<>> /\ top.k <= Len(Relocs) /\ Found = 0
          /\ top.at = "resolve"
          /\ stack' = Resume([top EXCEPT !.k = @ + 1])
          /\ prog' = prog /\ entered' = entered
      BY <1>3 DEF NotFound, AtSymbol, Running
    <2>2. [top EXCEPT !.k = @ + 1] = [top EXCEPT !.k = @ + 1, !.at = "resolve"]
      <3>1. top \in Frame
        BY <1>0, <2>1, TopFacts
      <3>2. top = [top EXCEPT !.at = "resolve"]
        BY <2>1, <3>1 DEF Frame
      <3> QED
        BY <2>1, <3>1, <3>2 DEF Frame
    <2>3. ASSUME NEW o \in 1..N
          PROVE  Counted(prog, entered, Resume([top EXCEPT !.k = @ + 1, !.at = "resolve"]), o)
      <3>1. Found # o /\ Counted(prog, entered, stack, o)
        BY <2>1 DEF CountInv
      <3> QED
        BY <1>0, <2>1, <3>1, CountPast
    <2> QED
      BY <2>1, <2>2, <2>3 DEF CountInv
  <1>4. CASE BindOwn
    BY <1>0, <1>4, CountWrite DEF BindOwn, AtSymbol, Running
  <1>5. CASE LinkProvider
    BY <1>0, <1>5, CountLinks
  <1>6. CASE BindLinked
    <2>1. stack # <<>> /\ top.at = "bind" /\ Write(Found)
      BY <1>6 DEF BindLinked, Running
    <2>2. top.k <= Len(Relocs)
      <3>1. /\ Relocs = TableOf(prog, top) /\ Len(stack) \in 1..Len(stack)
        BY <1>0, <2>1, TopFacts
      <3>2. FrameOK(prog, got, error, top)
        BY <1>0, <3>1 DEF StackInv, top
      <3> QED
        BY <2>1, <3>1, <3>2 DEF FrameOK
    <2> QED
      BY <1>0, <2>1, <2>2, CountWrite
  <1>7. CASE UNCHANGED vars
    BY <1>7 DEF vars, CountInv
  <1> QED
    BY <1>1, <1>2, <1>3, <1>4, <1>5, <1>6, <1>7 DEF Next, Stopped

\* The price of linking without a memory: when link_dependencies has returned,
\* an object has been linked once for each relocation that is reached and
\* names it, in each activation of another object, so that the activations
\* multiply along the paths of uses, whatever the uses are.
THEOREM LinkedPerPath == Spec => []LinkedOncePerPath
  <1>1. IInv /\ CountInv => LinkedOncePerPath
    <2> SUFFICES ASSUME IInv, CountInv, status \in {"accepted", "refused"},
                        NEW o \in 1..N
                 PROVE  LET Binds(p, x) ==
                              {s \in Slot : /\ s[1] = p /\ Reached(prog, s)
                                            /\ Provider(prog, RelocOf(prog, s)) = x}
                            ways(x) == [p \in Object |->
                                          entered[p] * Cardinality(Binds(p, x))]
                        IN  entered[o] = SumFunctionOnSet(ways(o), Object \ {o})
      BY DEF LinkedOncePerPath
    <2>1. stack = <<>> /\ prog \in Program /\ entered \in [Object -> Nat]
          /\ o \in Object
      BY LinkerAssumption DEF IInv, EndInv, TypeOK, Object
    <2>2. Debts(prog, stack, o, Len(stack)) = 0
      <3>1. /\ stack \in Seq(Frame) /\ Len(stack) = 0 /\ 0 \in Nat
            /\ 0 <= Len(stack)
        BY <2>1
      <3> QED
        BY <2>1, <3>1, DebtsFacts
    <2>3. entered[o] = SumFunctionOnSet(Ways(prog, entered, o), Object \ {o})
      <3>1. entered[o] \in Nat
        BY <2>1
      <3> QED
        BY <2>2, <3>1 DEF CountInv, Counted
    <2>4. Ways(prog, entered, o) =
            [p \in Object |-> entered[p] * Cardinality(
               {s \in Slot : /\ s[1] = p /\ Reached(prog, s)
                             /\ Provider(prog, RelocOf(prog, s)) = o})]
      BY DEF Ways, Sites, Slot, Names
    <2> QED
      BY <2>3, <2>4
  <1> QED
    BY <1>1, Inductive, CountInit, CountStep, PTL DEF Spec

-----------------------------------------------------------------------------
(***************************************************************************)
(* Each step binds a slot, gives the verdict or ends the process as module *)
(* Binding allows, or changes nothing of what it is about.                 *)
(***************************************************************************)
ReachedSlots(q) == {s \in SlotsOf(q) : Reached(q, s)}
WrittenSlots(q, g) == {s \in SlotsOf(q) : g[s] # 0}
Within(q, S) ==
  \A s \in ReachedSlots(q) : s[1] \in S /\ Names(q, s) # 0 => Names(q, s) \in S
InUse(q) == {o \in Object : \A S \in SUBSET Object : 0 \in S /\ Within(q, S) => o \in S}
Verdict(v) == IF v \in {"overflow", "crashed", "wild"} THEN "dead" ELSE v

\* Binding's state, in the terms of the linker's.
LEMMA MappedState ==
  /\ Promise!bindVars = <<[s \in ReachedSlots(prog) |-> Names(prog, s)],
                          [s \in WrittenSlots(prog, got) |-> got[s]],
                          Verdict(status)>>
  /\ Promise!Used = InUse(prog)
  <1>1. Promise!bindVars = <<[s \in ReachedSlots(prog) |-> Names(prog, s)],
                             [s \in WrittenSlots(prog, got) |-> got[s]],
                             Verdict(status)>>
    BY DEF Promise!bindVars, ReachedSlots, WrittenSlots, Names, Slot, Verdict
  <1>2. ASSUME NEW S
        PROVE  Promise!Closed(S) <=> Within(prog, S)
    BY DEF Promise!Closed, Within, ReachedSlots, Names, Slot
  <1>3. Promise!Used = InUse(prog)
    BY <1>2 DEF Promise!Used, InUse
  <1> QED
    BY <1>1, <1>3

\* The objects on the stack are used: each by the one below it.
LEMMA StackInUse ==
  ASSUME TypeOK, StackInv, NEW j \in 1..Len(stack)
  PROVE  stack[j].obj \in InUse(prog)
  <1>1. prog \in Program /\ stack \in Seq(Frame)
    BY DEF TypeOK, Frame
  <1>2. ASSUME NEW i \in 1..Len(stack)
        PROVE  stack[i] \in Frame /\ stack[i].obj \in Object
    <2>1. stack[i] \in Frame
      BY <1>1
    <2> QED
      BY <2>1 DEF Frame
  <1> SUFFICES ASSUME NEW S \in SUBSET Object, 0 \in S, Within(prog, S)
               PROVE  stack[j].obj \in S
    BY <1>2 DEF InUse
  <1> DEFINE Bad == {i \in 1..Len(stack) : stack[i].obj \notin S}
  <1> SUFFICES ASSUME Bad # {}
               PROVE  FALSE
    OBVIOUS
  <1>3. PICK i \in Bad : \A k \in Bad : i <= k
    <2>1. Bad \in SUBSET Nat
      OBVIOUS
    <2> HIDE DEF Bad
    <2> QED
      BY <2>1, LeastNumber
  <1>4. i \in 1..Len(stack) /\ stack[i].obj \notin S /\ Len(stack) \in Nat
    BY <1>1
  <1>5. i # 1
    BY <1>4 DEF StackInv
  <1>6. /\ i - 1 \in 1..Len(stack) /\ i - 1 \in 1..Len(stack) - 1
        /\ ~(i <= i - 1) /\ (i - 1) + 1 = i
    BY <1>4, <1>5
  <1> DEFINE f == stack[i - 1]
  <1>7. f.obj \in S
    BY <1>3, <1>6
  <1>8. /\ f \in Frame /\ f.at = "bind" /\ FrameOK(prog, got, error, f)
        /\ stack[i].obj = Target(prog, f)
    BY <1>2, <1>6 DEF StackInv
  <1> HIDE DEF f
  <1>9. PICK s \in SlotsOf(prog) :
          s[1] = f.obj /\ Reached(prog, s) /\ Names(prog, s) = Target(prog, f)
    <2>1. f.k <= Len(TableOf(prog, f)) /\ TableOf(prog, f)[f.k] # NONE
      BY <1>8 DEF FrameOK
    <2> QED
      BY <1>1, <1>8, <2>1, FrameSlot
  <1>10. Names(prog, s) # 0
    BY <1>8, <1>9 DEF FrameOK
  <1> QED
    BY <1>4, <1>7, <1>8, <1>9, <1>10 DEF Within, ReachedSlots

\* error_ of the first object is set for a symbol of its own.
ErrorInv ==
  0 \in error =>
    \E s \in Slot : s[1] = 0 /\ Reached(prog, s) /\ Names(prog, s) = 0

LEMMA ErrorInit == Init => ErrorInv
  <1> SUFFICES ASSUME Init
               PROVE  0 \notin error
    BY DEF ErrorInv
  <1>1. prog \in Program /\ error = prog.unmapped \ {0}
    BY LinkerAssumption DEF Init
  <1> QED
    BY <1>1 DEF Program

LEMMA ErrorStep == IInv /\ ErrorInv /\ [Next]_vars => ErrorInv'
  <1> SUFFICES ASSUME IInv, ErrorInv, [Next]_vars
               PROVE  ErrorInv'
    OBVIOUS
  <1>1. prog' = prog /\ (error' = error \/ NotFound)
    BY DEF Next, vars, EndOfTable, StopAtNone, NotFound, BindOwn, LinkProvider,
           BindLinked, Stopped, LeaveTable, Write
  <1>2. Slot' = Slot
    BY <1>1 DEF Slot
  <1>3. CASE error' = error
    BY <1>1, <1>2, <1>3 DEF ErrorInv
  <1>4. CASE NotFound
    <2>1. /\ stack # <<>> /\ top.k <= Len(Relocs) /\ Relocs[top.k] # NONE
          /\ Found = 0 /\ error' = error \cup {top.obj}
      BY <1>4 DEF NotFound, AtSymbol, Running
    <2>2. /\ Here \in Slot /\ Reached(prog, Here) /\ Names(prog, Here) = 0
          /\ Here[1] = top.obj
      BY <2>1, AtReloc DEF IInv
    <2> QED
      BY <1>1, <1>2, <2>1, <2>2 DEF ErrorInv
  <1> QED
    BY <1>1, <1>3, <1>4

\* A slot that held nothing is written.
LEMMA BindMaps ==
  ASSUME TypeOK, NEW s, s \in ReachedSlots(prog), s \notin WrittenSlots(prog, got),
         s[1] \in InUse(prog), Names(prog, s) # 0,
         Names(prog, s) # s[1] => LinkedIn(prog, got, Names(prog, s)),
         status = "linking", status' = status, prog' = prog,
         got' = [got EXCEPT ![s] = Names(prog, s)]
  PROVE  Promise!BindNext
  <1> DEFINE nm == [z \in ReachedSlots(prog) |-> Names(prog, z)]
             bd == [z \in WrittenSlots(prog, got) |-> got[z]]
  <1>1. s \in SlotsOf(prog)
    BY DEF ReachedSlots
  <1>2. Promise!bindVars = <<nm, bd, Verdict(status)>>
    BY MappedState
  <1>3. Promise!Done(Names(prog, s)) <=>
          \A z \in DOMAIN nm : z[1] = Names(prog, s) /\ nm[z] # 0 => z \in DOMAIN bd
    BY DEF Promise!Done, ReachedSlots, WrittenSlots, Names, Slot
  <1>4. nm[s] # s[1] => Promise!Done(nm[s])
    BY <1>3 DEF LinkedIn, ReachedSlots, WrittenSlots
  <1>5. got' \in [SlotsOf(prog) -> Object] /\ got'[s] = Names(prog, s)
        /\ \A z \in SlotsOf(prog) : z # s => got'[z] = got[z]
    BY <1>1, NamesIsObject DEF TypeOK, Slot
  <1>6. WrittenSlots(prog, got') = WrittenSlots(prog, got) \cup {s}
    BY <1>1, <1>5 DEF WrittenSlots
  <1>7. [z \in WrittenSlots(prog, got') |-> got'[z]]
          = [z \in DOMAIN bd \cup {s} |-> IF z = s THEN nm[s] ELSE bd[z]]
    <2>1. \A z \in WrittenSlots(prog, got) : z # s /\ got'[z] = got[z]
      BY <1>5 DEF WrittenSlots
    <2> QED
      BY <1>5, <1>6, <2>1
  <1>8. Promise!Bind(s)
    BY <1>2, <1>4, <1>7, MappedState
       DEF Promise!Bind, Promise!bindVars, ReachedSlots, WrittenSlots, Names,
           Slot, Verdict
  <1> QED
    BY <1>8 DEF Promise!BindNext, ReachedSlots, WrittenSlots, Slot

\* The outermost activation returns.
LEMMA JudgeMaps ==
  ASSUME IInv, ErrorInv, EndInv', prog' = prog, got' = got, error' = error,
         status = "linking",
         status' = IF 0 \in error THEN "refused" ELSE "accepted"
  PROVE  Promise!Judge
  <1> DEFINE nm == [z \in ReachedSlots(prog) |-> Names(prog, z)]
             bd == [z \in WrittenSlots(prog, got) |-> got[z]]
             S == {o \in Object : LinkedIn(prog, got, o)}
  <1>1. prog \in Program /\ 0 \in Object
    BY LinkerAssumption DEF IInv, TypeOK, Object
  <1>2. LinkedIn(prog, got, 0)
    BY DEF EndInv
  <1>3. Within(prog, S)
    <2> SUFFICES ASSUME NEW s \in SlotsOf(prog), Reached(prog, s), s[1] \in S,
                        Names(prog, s) # 0
                 PROVE  Names(prog, s) \in S
      BY DEF Within, ReachedSlots
    <2>1. got[s] = Names(prog, s)
      BY DEF LinkedIn
    <2>2. got[s] = s[1] \/ LinkedIn(prog, got, got[s])
      BY <2>1 DEF IInv, SlotInv, Slot
    <2>3. Names(prog, s) \in Object
      BY <1>1, NamesIsObject
    <2> QED
      BY <2>1, <2>2, <2>3
  <1>4. InUse(prog) \subseteq S
    BY <1>1, <1>2, <1>3 DEF InUse
  <1>5. ASSUME NEW o \in Promise!Used
        PROVE  Promise!Done(o)
    <2>1. LinkedIn(prog, got, o)
      BY <1>4, MappedState
    <2>2. Promise!Done(o) <=>
            \A z \in DOMAIN nm : z[1] = o /\ nm[z] # 0 => z \in DOMAIN bd
      BY DEF Promise!Done, ReachedSlots, WrittenSlots, Names, Slot
    <2> QED
      BY <2>1, <2>2 DEF LinkedIn, ReachedSlots, WrittenSlots
  <1>6. 0 \in error <=> \E s \in DOMAIN nm : s[1] = 0 /\ nm[s] = 0
    <2>1. ASSUME 0 \in error
          PROVE  \E s \in DOMAIN nm : s[1] = 0 /\ nm[s] = 0
      BY <2>1 DEF ErrorInv, ReachedSlots, Slot
    <2>2. ASSUME 0 \notin error, NEW s \in DOMAIN nm, s[1] = 0, nm[s] = 0
          PROVE  FALSE
      <3>1. s \in Slot' /\ s \in SlotsOf(prog) /\ Reached(prog, s)
        BY DEF ReachedSlots, Slot
      <3>2. got[s] # 0
        BY <2>2, <3>1 DEF EndInv
      <3>3. got[s] = Names(prog, s)
        BY <1>2, <2>2, <3>1 DEF LinkedIn
      <3> QED
        BY <2>2, <3>2, <3>3
    <2> QED
      BY <2>1, <2>2
  <1>7. /\ Verdict(status) = "linking" /\ Verdict(status') = status'
    BY DEF Verdict
  <1>8. (\E s \in DOMAIN nm : s[1] = 0 /\ nm[s] = 0) <=>
          \E s \in {z \in Slot : Reached(prog, z)} :
            s[1] = 0 /\ Provider(prog, RelocOf(prog, s)) = 0
    BY DEF ReachedSlots, Names, Slot
  <1> QED
    BY <1>5, <1>6, <1>7, <1>8 DEF Promise!Judge, Verdict, Slot

LEMMA DieMaps ==
  ASSUME status = "linking", status' \in {"overflow", "crashed", "wild"},
         prog' = prog, got' = got
  PROVE  Promise!Die
  BY DEF Promise!Die, Slot

LEMMA StillMaps ==
  ASSUME prog' = prog, got' = got, status' = status
  PROVE  UNCHANGED Promise!bindVars
  BY DEF Promise!bindVars, Slot

LEMMA WriteMaps ==
  ASSUME IInv, status = "linking", stack # <<>>,
         top.k <= Len(Relocs), Relocs[top.k] # NONE,
         Found # 0, Found = top.obj \/ LinkedIn(prog, got, Found),
         Write(Found)
  PROVE  [Promise!BindNext]_(Promise!bindVars)
  <1>1. /\ Here \in Slot /\ Reached(prog, Here) /\ Names(prog, Here) = Found
        /\ Here[1] = top.obj
        /\ top = stack[Len(stack)] /\ Len(stack) \in 1..Len(stack)
    BY AtReloc DEF IInv
  <1>2. Here[1] \in InUse(prog)
    BY <1>1, StackInUse DEF IInv
  <1>3. CASE status' \in {"crashed", "wild"}
    BY <1>3, DieMaps DEF Write, Promise!BindNext
  <1>4. CASE status' \notin {"crashed", "wild"}
    <2>1. /\ status' = status /\ prog' = prog
          /\ got' = [got EXCEPT ![Here] = Found]
      BY <1>4 DEF Write
    <2>2. CASE got[Here] = 0
      <3>1. Here \in ReachedSlots(prog) /\ Here \notin WrittenSlots(prog, got)
        BY <1>1, <2>2 DEF ReachedSlots, WrittenSlots, Slot
      <3> HIDE DEF Here
      <3> QED
        BY <1>1, <1>2, <2>1, <3>1, BindMaps DEF IInv
    <2>3. CASE got[Here] # 0
      <3>1. got[Here] = Found /\ got \in [Slot -> Object]
        BY <1>1, <2>3 DEF IInv, SlotInv, TypeOK
      <3>2. got' = got
        BY <1>1, <2>1, <3>1
      <3> QED
        BY <2>1, <3>2, StillMaps
    <2> QED
      BY <2>2, <2>3
  <1> QED
    BY <1>3, <1>4

LEMMA LeaveMaps ==
  ASSUME IInv, ErrorInv, IInv', status = "linking", LeaveTable,
         UNCHANGED <<prog, entered, got, error>>
  PROVE  [Promise!BindNext]_(Promise!bindVars)
  <1>1. CASE status' = "linking"
    BY <1>1, StillMaps
  <1>2. CASE status' # "linking"
    <2>1. status' = IF 0 \in error THEN "refused" ELSE "accepted"
      BY <1>2 DEF LeaveTable
    <2>2. Promise!Judge
      BY <2>1, JudgeMaps DEF IInv
    <2> QED
      BY <2>2 DEF Promise!BindNext
  <1> QED
    BY <1>1, <1>2

LEMMA BindStep ==
  IInv /\ ErrorInv /\ [Next]_vars /\ IInv' => [Promise!BindNext]_(Promise!bindVars)
  <1> SUFFICES ASSUME IInv, ErrorInv, [Next]_vars, IInv'
               PROVE  [Promise!BindNext]_(Promise!bindVars)
    OBVIOUS
  <1>1. CASE EndOfTable
    BY <1>1, LeaveMaps DEF EndOfTable, Running
  <1>2. CASE StopAtNone
    BY <1>2, LeaveMaps DEF StopAtNone, Running
  <1>3. CASE NotFound
    BY <1>3, StillMaps DEF NotFound
  <1>4. CASE BindOwn
    BY <1>4, WriteMaps DEF BindOwn, AtSymbol, Running
  <1>5. CASE LinkProvider
    <2>1. /\ status = "linking" /\ prog' = prog /\ got' = got
          /\ status' \in {status, "overflow"}
      BY <1>5 DEF LinkProvider, AtSymbol, Running
    <2> QED
      BY <2>1, DieMaps, StillMaps DEF Promise!BindNext
  <1>6. CASE BindLinked
    <2>1. /\ status = "linking" /\ stack # <<>> /\ top.at = "bind" /\ Write(Found)
      BY <1>6 DEF BindLinked, Running
    <2>2. /\ top.k <= Len(Relocs) /\ Relocs[top.k] # NONE /\ Found # 0
          /\ LinkedIn(prog, got, Found)
      BY <2>1, AtBind DEF IInv
    <2> QED
      BY <2>1, <2>2, WriteMaps
  <1>7. CASE UNCHANGED vars
    BY <1>7, StillMaps DEF vars
  <1> QED
    BY <1>1, <1>2, <1>3, <1>4, <1>5, <1>6, <1>7 DEF Next, Stopped

LEMMA BindStart == Init => Promise!BindInit
  <1> SUFFICES ASSUME Init
               PROVE  Promise!BindInit
    OBVIOUS
  <1>1. prog \in Program /\ status = "linking" /\ got = [s \in Slot |-> 0]
    BY LinkerAssumption DEF Init
  <1>2. \A s \in Slot : Provider(prog, RelocOf(prog, s)) \in Object
    BY <1>1, NamesIsObject DEF Names, Slot
  <1>3. {z \in Slot : got[z] # 0} = {}
    BY <1>1
  <1> QED
    BY <1>1, <1>2, <1>3 DEF Promise!BindInit

\* link_dependencies binds what the first object uses, and nothing else: each
\* slot once, to the first definer of its symbol, and after the definer's own
\* slots; when it returns, every object used is bound as far as its symbols
\* have definers, and error_ of the first object tells whether all of that
\* object's own have.  The recursion, the order of the relocations and how
\* often an object is linked again make no difference to that.
THEOREM LinkerRefinesBinding == Spec => BindsProvidersFirst
  <1>1. IInv /\ ErrorInv /\ [Next]_vars => (IInv /\ ErrorInv)'
    BY IInvStep, ErrorStep
  <1>2. Init => IInv /\ ErrorInv
    BY IInvInit, ErrorInit
  <1>3. IInv /\ ErrorInv /\ [Next]_vars => [Promise!BindNext]_(Promise!bindVars)
    BY IInvStep, BindStep
  <1> QED
    BY <1>1, <1>2, <1>3, BindStart, PTL
       DEF Spec, BindsProvidersFirst, Promise!BindSpec
=============================================================================

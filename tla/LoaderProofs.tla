---------------------------- MODULE LoaderProofs ----------------------------
(***************************************************************************)
(* What holds of module Loader for every set of libraries, every graph of  *)
(* dependencies and every mixture of files.                                *)
(***************************************************************************)
EXTENDS Loader, ArraySizesProofs, TLAPS

-----------------------------------------------------------------------------
\* Appending to a sequence, and what becomes of its entries.
LEMMA AppendSeq ==
  ASSUME NEW S, NEW s \in Seq(S), NEW e \in S
  PROVE  /\ Append(s, e) \in Seq(S)
         /\ Len(s) \in Nat
         /\ Len(Append(s, e)) = Len(s) + 1
         /\ Append(s, e)[Len(s) + 1] = e
         /\ \A k \in 1..Len(s) : Append(s, e)[k] = s[k]
         /\ Entries(Append(s, e)) = Entries(s) \cup {e}
  BY DEF Entries

\* The frame at hand is a frame, and it is the stack's last.
LEMMA TopIsFrame ==
  ASSUME TypeOK, stack # <<>>
  PROVE  /\ Len(stack) \in Nat \ {0}
         /\ top = stack[Len(stack)]
         /\ top \in Frame
         /\ top.mgr \in Manager
         /\ Entries(top.to_append) \subseteq Manager
  <1>1. Len(stack) \in Nat \ {0}
    BY EmptySeq DEF TypeOK
  <1> QED
    BY <1>1 DEF TypeOK, top

\* A manager's name is a library, or it is manager 0 and its name is Root.
LEMMA NameIsObject ==
  ASSUME TypeOK, NEW m \in Manager
  PROVE  /\ Name(m) \in Object
         /\ m # 0 => Name(m) = loaded[m] /\ m \in 1..Len(loaded)
         /\ Len(loaded) \in Nat
  BY DEF TypeOK, Manager, Name, Object

\* What an object needs is a list of libraries.
LEMMA NeedsAreLibs ==
  ASSUME TypeOK, NEW o \in Object
  PROVE  needed[o] \in Seq(Lib)
  BY LoaderAssumption DEF TypeOK

\* The name a new manager is created for is a library.
LEMMA NewNameIsLib ==
  ASSUME TypeOK, NewManager
  PROVE  Needs[top.dyn] \in Lib
  BY TopIsFrame, NameIsObject, NeedsAreLibs
     DEF NewManager, Running, Needs, Frame

-----------------------------------------------------------------------------
\* The frames of a stack whose top goes on keep the type invariant.
LEMMA ResumeTypes ==
  ASSUME TypeOK, stack # <<>>, NEW f \in Frame,
         f.mgr \in Manager', Entries(f.to_append) \subseteq Manager',
         Manager \subseteq Manager',
         stack' = Resume(f)
  PROVE  /\ stack' \in Seq(Frame)
         /\ \A j \in 1..Len(stack') :
              /\ stack'[j].mgr \in Manager'
              /\ Entries(stack'[j].to_append) \subseteq Manager'
  BY ResumeSeq DEF TypeOK, Resume

LEMMA ReturnTypes ==
  ASSUME TypeOK, stack # <<>>, Return, Manager' = Manager
  PROVE  /\ stack' \in Seq(Frame)
         /\ \A j \in 1..Len(stack') :
              /\ stack'[j].mgr \in Manager'
              /\ Entries(stack'[j].to_append) \subseteq Manager'
         /\ status' \in {"running", "done", "crashed", "wild"}
  BY PopSeq DEF TypeOK, Return

\* The first frame is a frame, and it names manager 0.
LEMMA ActivationType ==
  ASSUME NEW m \in Nat
  PROVE  /\ Activation(m) \in Frame
         /\ Activation(m).mgr = m
         /\ Activation(m).at = "entry"
         /\ Activation(m).to_append = <<>>
         /\ Activation(m).i = 0
         /\ Activation(m).dyn = 1
  BY DEF Activation, Frame

\* A frame that goes on is a frame: one lemma per way to go on.
LEMMA FrameTurns ==
  ASSUME NEW g \in Frame, NEW phase \in {"entry", "scan", "loop"}
  PROVE  LET f == [g EXCEPT !.at = phase]
         IN  /\ f \in Frame
             /\ f.mgr = g.mgr /\ f.at = phase /\ f.dyn = g.dyn
             /\ f.to_append = g.to_append /\ f.i = g.i
  BY DEF Frame

LEMMA FrameAppends ==
  ASSUME NEW g \in Frame, NEW m \in Nat
  PROVE  LET f == [g EXCEPT !.dyn = @ + 1, !.to_append = Append(@, m)]
         IN  /\ f \in Frame
             /\ f.mgr = g.mgr /\ f.at = g.at /\ f.dyn = g.dyn + 1
             /\ f.to_append = Append(g.to_append, m) /\ f.i = g.i
             /\ g.to_append \in Seq(Nat)
  <1> DEFINE d == g.dyn + 1
             t == Append(g.to_append, m)
  <1>1. g.to_append \in Seq(Nat) /\ g.dyn \in Nat
    BY DEF Frame
  <1>2. d \in Nat \ {0} /\ t \in Seq(Nat)
    BY <1>1, AppendSeq
  <1> HIDE DEF d, t
  <1>3. LET f == [g EXCEPT !.dyn = d, !.to_append = t]
        IN  /\ f \in Frame
            /\ f.mgr = g.mgr /\ f.at = g.at /\ f.dyn = d
            /\ f.to_append = t /\ f.i = g.i
    BY <1>2 DEF Frame
  <1> QED
    BY <1>1, <1>3 DEF d, t

LEMMA FrameAdvances ==
  ASSUME NEW g \in Frame
  PROVE  LET f == [g EXCEPT !.i = @ + 1]
         IN  /\ f \in Frame
             /\ f.mgr = g.mgr /\ f.at = g.at /\ f.dyn = g.dyn
             /\ f.to_append = g.to_append /\ f.i = g.i + 1
             /\ g.i \in Nat
             /\ g.to_append \in Seq(Nat)
  BY DEF Frame

LEMMA TypeInit == Init => TypeOK
  <1> SUFFICES ASSUME Init
               PROVE  TypeOK
    OBVIOUS
  <1> USE DEF Init
  <1>1. /\ needed \in Graphs
        /\ role \in Roles
        /\ status \in {"running", "done", "crashed", "wild"}
    OBVIOUS
  <1>2. file \in [Object -> AnyFileKind]
    BY LoaderAssumption DEF AnyFileKind
  <1>3. /\ loaded \in Seq(Lib)
        /\ viewed \in Seq(Lib)
        /\ dependencies \in Seq(Lib)
        /\ error \subseteq Manager
    OBVIOUS
  <1>4. scan \in [Object -> {"no", "failed", "whole", "cut"}]
    OBVIOUS
  <1>5. /\ stack \in Seq(Frame)
        /\ Len(stack) = 1
        /\ stack[1] = Activation(0)
    BY ActivationType
  <1>6. ASSUME NEW j \in 1..Len(stack)
        PROVE  /\ stack[j].mgr \in Manager
               /\ Entries(stack[j].to_append) \subseteq Manager
    <2>1. stack[j] = Activation(0)
      BY <1>5
    <2>2. Entries(<<>>) = {}
      BY DEF Entries
    <2> QED
      BY <2>1, <2>2, ActivationType DEF Manager
  <1> QED
    BY <1>1, <1>2, <1>3, <1>4, <1>5, <1>6 DEF TypeOK

\* A step keeps the type invariant.
LEMMA TypeStep == TypeOK /\ [Next]_vars => TypeOK'
  <1> SUFFICES ASSUME TypeOK, [Next]_vars
               PROVE  TypeOK'
    OBVIOUS
  <1>1. CASE ReadDynamic
    <2> USE <1>1 DEF ReadDynamic, Running, input
    <2> DEFINE f == [top EXCEPT !.at = "scan"]
    <2>1. stack # <<>> /\ Manager' = Manager
      BY DEF Manager
    <2>2. f \in Frame /\ f.mgr \in Manager /\ Entries(f.to_append) \subseteq Manager
      BY <2>1, TopIsFrame DEF Frame
    <2> QED
      BY <2>1, <2>2, ResumeTypes DEF TypeOK
  <1>2. CASE NoDynamic
    <2> USE <1>2 DEF NoDynamic, Running, input
    <2>1. stack # <<>> /\ Manager' = Manager
      BY DEF Manager
    <2>2. /\ error' \subseteq Manager
          /\ scan' \in [Object -> {"no", "failed", "whole", "cut"}]
      BY <2>1, TopIsFrame DEF TypeOK
    <2> QED
      BY <2>1, <2>2, ReturnTypes DEF TypeOK
  <1>3. CASE NullHeader
    BY <1>3 DEF NullHeader, TypeOK, Manager, input
  <1>4. CASE NewManager
    <2> USE <1>4 DEF NewManager, Running, input
    <2> DEFINE m == Len(loaded) + 1
               name == Needs[top.dyn]
               f == [top EXCEPT !.dyn = @ + 1, !.to_append = Append(@, m)]
    <2>1. stack # <<>>
      OBVIOUS
    <2>2. name \in Lib
      BY NewNameIsLib
    <2>3. /\ loaded' \in Seq(Lib)
          /\ viewed' \in Seq(Lib)
          /\ Len(loaded) \in Nat
          /\ Len(loaded') = m
      BY <2>2, AppendSeq DEF TypeOK
    <2>4. Manager \subseteq Manager' /\ m \in Manager'
      BY <2>3 DEF Manager
    <2>5. error' \subseteq Manager'
      BY <2>4 DEF TypeOK
    <2>6. /\ top \in Frame
          /\ top.mgr \in Manager
          /\ Entries(top.to_append) \subseteq Manager
      BY <2>1, TopIsFrame
    <2>7. m \in Nat /\ top.to_append \in Seq(Nat)
      BY ONLY <2>3, <2>6 DEF Frame
    <2>8. /\ f \in Frame
          /\ f.mgr = top.mgr
          /\ f.to_append = Append(top.to_append, m)
          /\ Entries(f.to_append) = Entries(top.to_append) \cup {m}
      <3>1. /\ f \in Frame
            /\ f.mgr = top.mgr
            /\ f.to_append = Append(top.to_append, m)
        BY ONLY <2>6, <2>7, FrameAppends
      <3>2. Entries(Append(top.to_append, m)) = Entries(top.to_append) \cup {m}
        BY ONLY <2>7, AppendSeq
      <3> QED
        BY ONLY <3>1, <3>2
    <2>9. f.mgr \in Manager' /\ Entries(f.to_append) \subseteq Manager'
      BY <2>4, <2>6, <2>8
    <2>10. stack' = Resume(f)
      OBVIOUS
    <2> HIDE <1>4 DEF f, NewManager, Running
    <2>11. /\ stack' \in Seq(Frame)
           /\ \A j \in 1..Len(stack') :
                /\ stack'[j].mgr \in Manager'
                /\ Entries(stack'[j].to_append) \subseteq Manager'
      BY <2>1, <2>4, <2>8, <2>9, <2>10, ResumeTypes
    <2> QED
      BY <1>4, <2>3, <2>5, <2>11 DEF TypeOK, NewManager
  <1>5. CASE AlreadyViewed \/ EndOfTable
    <2> USE <1>5 DEF AlreadyViewed, EndOfTable, Running, input
    <2> DEFINE f == [top EXCEPT !.at = "loop"]
    <2>1. stack # <<>> /\ Manager' = Manager
      BY DEF Manager
    <2>2. f \in Frame /\ f.mgr \in Manager /\ Entries(f.to_append) \subseteq Manager
      BY <2>1, TopIsFrame DEF Frame
    <2>3. scan' \in [Object -> {"no", "failed", "whole", "cut"}]
      BY DEF TypeOK
    <2> QED
      BY <2>1, <2>2, <2>3, ResumeTypes DEF TypeOK
  <1>6. CASE Descend
    <2> USE <1>6 DEF Descend, Turn, Running, input
    <2> DEFINE f == [top EXCEPT !.i = @ + 1]
               m == top.to_append[top.i + 1]
    <2>1. stack # <<>> /\ Manager' = Manager
      BY DEF Manager
    <2>2. /\ f \in Frame
          /\ f.mgr \in Manager
          /\ Entries(f.to_append) \subseteq Manager
          /\ m \in Entries(top.to_append)
      <3>1. /\ top \in Frame
            /\ top.mgr \in Manager
            /\ Entries(top.to_append) \subseteq Manager
        BY <2>1, TopIsFrame
      <3>2. /\ f \in Frame
            /\ f.mgr = top.mgr
            /\ f.to_append = top.to_append
            /\ top.i \in Nat
            /\ top.to_append \in Seq(Nat)
        BY <3>1, FrameAdvances
      <3>3. top.i + 1 \in 1..Len(top.to_append)
        BY <3>2
      <3> QED
        BY <3>1, <3>2, <3>3 DEF Entries
    <2>3. m \in Manager /\ m \in Nat
      BY <2>1, <2>2, TopIsFrame DEF TypeOK, Manager
    <2>4. /\ Activation(m) \in Frame
          /\ Activation(m).mgr = m
          /\ Entries(Activation(m).to_append) = {}
      BY <2>3, ActivationType DEF Entries
    <2>5. stack' = Append([stack EXCEPT ![Len(stack)] = f], Activation(m))
      BY DEF Resume
    <2>6a. stack \in Seq(Frame)
      BY DEF TypeOK
    <2> HIDE <1>6 DEF f, m, Descend, Turn, Running
    <2>6. /\ stack' \in Seq(Frame)
          /\ Len(stack') = Len(stack) + 1
          /\ Len(stack) \in Nat \ {0}
          /\ stack'[Len(stack) + 1] = Activation(m)
          /\ stack'[Len(stack)] = f
          /\ \A j \in 1..(Len(stack) - 1) : stack'[j] = stack[j]
      BY <2>1, <2>2, <2>4, <2>5, <2>6a, PushSeq
    <2>7. ASSUME NEW j \in 1..Len(stack')
          PROVE  /\ stack'[j].mgr \in Manager
                 /\ Entries(stack'[j].to_append) \subseteq Manager
      <3>1. CASE j = Len(stack) + 1
        BY <2>3, <2>4, <2>6, <3>1
      <3>2. CASE j = Len(stack)
        BY <2>2, <2>6, <3>2
      <3>3. CASE j \in 1..(Len(stack) - 1)
        BY <2>6, <3>3, SMTT(30) DEF TypeOK
      <3>4. j = Len(stack) + 1 \/ j = Len(stack) \/ j \in 1..(Len(stack) - 1)
        BY <2>6
      <3> QED
        BY <3>1, <3>2, <3>3, <3>4
    <2> QED
      BY <1>6, <2>1, <2>6, <2>7 DEF TypeOK, Descend, input
  <1>7. CASE EmptySlot
    <2> USE <1>7 DEF EmptySlot, Turn, Running, input
    <2> DEFINE f == [top EXCEPT !.i = @ + 1]
    <2>1. stack # <<>> /\ Manager' = Manager
      BY DEF Manager
    <2>2. f \in Frame /\ f.mgr \in Manager /\ Entries(f.to_append) \subseteq Manager
      BY <2>1, TopIsFrame, SMTT(30) DEF Frame
    <2> QED
      BY <2>1, <2>2, ResumeTypes DEF TypeOK
  <1>8. CASE WildSlot
    BY <1>8 DEF WildSlot, TypeOK, Manager, input
  <1>9. CASE LeaveLoop
    <2> USE <1>9 DEF LeaveLoop, Running, input
    <2>1. stack # <<>> /\ Manager' = Manager
      BY DEF Manager
    <2>2. dependencies' \in Seq(Lib)
      BY DEF TypeOK
    <2> QED
      BY <2>1, <2>2, ReturnTypes DEF TypeOK
  <1>10. CASE UNCHANGED vars
    BY <1>10 DEF vars, TypeOK, Manager
  <1> QED
    BY <1>1, <1>2, <1>3, <1>4, <1>5, <1>6, <1>7, <1>8, <1>9, <1>10
       DEF Next, Stopped

\* Every state of the recursion is well formed.
THEOREM TypeCorrect == Spec => []TypeOK
  BY TypeInit, TypeStep, PTL DEF Spec

-----------------------------------------------------------------------------
(***************************************************************************)
(* No name is loaded twice, and recursion goes from older managers to      *)
(* younger ones only.  What makes this inductive: `viewed` and `loaded`    *)
(* hold the same names, and what an activation is still to descend into is *)
(* younger than its own manager.                                           *)
(***************************************************************************)
YoungerPending ==
  \A j \in 1..Len(stack) :
    \A k \in 1..Len(stack[j].to_append) :
      stack[j].mgr < stack[j].to_append[k]

OlderBelow ==
  \A j, k \in 1..Len(stack) : j < k => stack[j].mgr < stack[k].mgr

Ordered == YoungerPending /\ OlderBelow

OrderInv == viewed = loaded /\ NoDuplicateLoads /\ Ordered

\* Two managers never have the same name.
LEMMA NamesDiffer ==
  ASSUME TypeOK, NoDuplicateLoads, NEW m \in Manager, NEW n \in Manager,
         Name(m) = Name(n)
  PROVE  m = n
  BY NameIsObject, LoaderAssumption
     DEF NoDuplicateLoads, Name, Manager, TypeOK

LEMMA ResumeOrder ==
  ASSUME TypeOK, Ordered, stack # <<>>, NEW f \in Frame,
         f.mgr = top.mgr,
         \A k \in 1..Len(f.to_append) : f.mgr < f.to_append[k],
         stack' = Resume(f)
  PROVE  Ordered'
  <1>1. /\ Len(stack') = Len(stack)
        /\ Len(stack) \in Nat \ {0}
        /\ stack'[Len(stack)] = f
        /\ \A j \in 1..(Len(stack) - 1) : stack'[j] = stack[j]
    BY ResumeSeq DEF Resume, TypeOK
  <1>2. \A j \in 1..Len(stack) : stack'[j].mgr = stack[j].mgr
    BY <1>1, TopIsFrame
  <1>3. OlderBelow'
    BY <1>1, <1>2 DEF Ordered, OlderBelow
  <1>4. YoungerPending'
    BY <1>1 DEF Ordered, YoungerPending
  <1> QED
    BY <1>3, <1>4 DEF Ordered

LEMMA ReturnOrder ==
  ASSUME TypeOK, Ordered, stack # <<>>, Return
  PROVE  Ordered'
  <1>1. /\ Len(stack') = Len(stack) - 1
        /\ Len(stack) \in Nat \ {0}
        /\ \A j \in 1..(Len(stack) - 1) : stack'[j] = stack[j]
    BY PopSeq DEF Return, TypeOK
  <1> QED
    BY <1>1 DEF Ordered, OlderBelow, YoungerPending

LEMMA OrderInit == Init => OrderInv
  <1> SUFFICES ASSUME Init
               PROVE  OrderInv
    OBVIOUS
  <1>1. viewed = loaded /\ Len(loaded) = 0 /\ Len(stack) = 1
    BY DEF Init
  <1>2. Len(stack[1].to_append) = 0
    BY ActivationType DEF Init
  <1> QED
    BY <1>1, <1>2
       DEF OrderInv, NoDuplicateLoads, Ordered, OlderBelow, YoungerPending

LEMMA OrderStep == TypeOK /\ OrderInv /\ [Next]_vars => OrderInv'
  <1> SUFFICES ASSUME TypeOK, OrderInv, [Next]_vars
               PROVE  OrderInv'
    OBVIOUS
  <1>0. viewed = loaded /\ NoDuplicateLoads /\ Ordered
    BY DEF OrderInv
  <1>1. ASSUME UNCHANGED <<viewed, loaded>>, Ordered'
        PROVE  OrderInv'
    BY <1>0, <1>1 DEF OrderInv, NoDuplicateLoads
  <1>2. ASSUME stack # <<>>
        PROVE  /\ top \in Frame
               /\ \A k \in 1..Len(top.to_append) : top.mgr < top.to_append[k]
    BY <1>0, <1>2, TopIsFrame DEF Ordered, YoungerPending
  <1>3. ASSUME NEW phase \in {"scan", "loop"}, stack # <<>>,
               stack' = Resume([top EXCEPT !.at = phase]),
               UNCHANGED <<viewed, loaded>>
        PROVE  OrderInv'
    <2> DEFINE f == [top EXCEPT !.at = phase]
    <2>1. /\ f \in Frame
          /\ f.mgr = top.mgr
          /\ f.to_append = top.to_append
      <3>1. top \in Frame /\ phase \in {"entry", "scan", "loop"}
        BY <1>2, <1>3
      <3> QED
        BY ONLY <3>1, FrameTurns
    <2>2. stack' = Resume(f)
      BY <1>3
    <2> HIDE DEF f
    <2>3. Ordered'
      BY <1>0, <1>2, <1>3, <2>1, <2>2, ResumeOrder
    <2> QED
      BY <1>1, <1>3, <2>3
  <1>7. CASE ReadDynamic
    BY <1>3, <1>7 DEF ReadDynamic, Running
  <1>8. CASE AlreadyViewed
    BY <1>3, <1>8 DEF AlreadyViewed, Running
  <1>9. CASE EndOfTable
    BY <1>3, <1>9 DEF EndOfTable, Running
  <1>4. CASE NoDynamic \/ LeaveLoop
    <2>1. stack # <<>> /\ Return /\ UNCHANGED <<viewed, loaded>>
      BY <1>4 DEF NoDynamic, LeaveLoop, Running
    <2> QED
      BY <1>0, <1>1, <2>1, ReturnOrder
  <1>5. CASE NullHeader \/ WildSlot \/ UNCHANGED vars
    <2>1. UNCHANGED <<viewed, loaded, stack>>
      BY <1>5 DEF NullHeader, WildSlot, vars
    <2>2. Ordered'
      BY <1>0, <2>1 DEF Ordered, OlderBelow, YoungerPending
    <2> QED
      BY <1>1, <2>1, <2>2
  <1>6. CASE EmptySlot
    <2> DEFINE f == [top EXCEPT !.i = @ + 1]
    <2>1. stack # <<>> /\ stack' = Resume(f) /\ UNCHANGED <<viewed, loaded>>
      BY <1>6 DEF EmptySlot, Turn, Running
    <2>2. /\ f \in Frame
          /\ f.mgr = top.mgr
          /\ f.to_append = top.to_append
      BY <1>2, <2>1, FrameAdvances
    <2> HIDE DEF f
    <2>3. Ordered'
      BY <1>0, <1>2, <2>1, <2>2, ResumeOrder
    <2> QED
      BY <1>1, <2>1, <2>3
  <1>10. CASE NewManager
    <2> DEFINE m == Len(loaded) + 1
               name == Needs[top.dyn]
               f == [top EXCEPT !.dyn = @ + 1, !.to_append = Append(@, m)]
    <2>1. /\ stack # <<>>
          /\ name \notin Entries(loaded)
          /\ viewed' = Append(viewed, name)
          /\ loaded' = Append(loaded, name)
          /\ stack' = Resume(f)
      BY <1>0, <1>10 DEF NewManager, Running
    <2>2. name \in Lib
      BY <1>10, <2>1, NewNameIsLib
    <2>3. /\ Len(loaded) \in Nat
          /\ Len(loaded') = m
          /\ loaded'[m] = name
          /\ \A k \in 1..Len(loaded) : loaded'[k] = loaded[k]
      BY <2>1, <2>2, AppendSeq DEF TypeOK
    <2>4. NoDuplicateLoads'
      BY <1>0, <2>1, <2>3 DEF NoDuplicateLoads, Entries
    <2>5. /\ top.mgr \in 0..Len(loaded)
          /\ top.to_append \in Seq(Nat)
          /\ m \in Nat
      <3>1. top \in Frame /\ top.mgr \in 0..Len(loaded)
        BY <2>1, TopIsFrame DEF Manager
      <3>2. top.to_append \in Seq(Nat)
        BY ONLY <3>1 DEF Frame
      <3> QED
        BY <2>3, <3>1, <3>2
    <2>6. /\ f \in Frame
          /\ f.mgr = top.mgr
          /\ f.to_append = Append(top.to_append, m)
      BY <1>2, <2>1, <2>5, FrameAppends
    <2> HIDE DEF f, name
    <2>7. \A k \in 1..Len(f.to_append) : f.mgr < f.to_append[k]
      BY <1>2, <2>1, <2>5, <2>6, AppendSeq
    <2>8. Ordered'
      BY <1>0, <2>1, <2>6, <2>7, ResumeOrder
    <2> QED
      BY <1>0, <2>1, <2>4, <2>8 DEF OrderInv
  <1>11. CASE Descend
    <2> DEFINE f == [top EXCEPT !.i = @ + 1]
               m == top.to_append[top.i + 1]
               n == Len(stack)
    <2>1. /\ stack # <<>>
          /\ top.i < Len(top.to_append)
          /\ stack' = Append([stack EXCEPT ![n] = f], Activation(m))
          /\ UNCHANGED <<viewed, loaded>>
      BY <1>11 DEF Descend, Turn, Running, Resume
    <2>2. /\ f \in Frame
          /\ f.mgr = top.mgr
          /\ f.to_append = top.to_append
          /\ top.i + 1 \in 1..Len(top.to_append)
      BY <1>2, <2>1, FrameAdvances
    <2>3. m \in Nat /\ top.mgr < m
      BY <1>2, <2>1, <2>2, FrameAdvances
    <2>4. /\ Activation(m) \in Frame
          /\ Activation(m).mgr = m
          /\ Len(Activation(m).to_append) = 0
      BY <2>3, ActivationType
    <2>5. stack \in Seq(Frame)
      BY DEF TypeOK
    <2> HIDE DEF f, m
    <2>6. /\ Len(stack') = n + 1
          /\ n \in Nat \ {0}
          /\ stack'[n + 1] = Activation(m)
          /\ stack'[n] = f
          /\ \A j \in 1..(n - 1) : stack'[j] = stack[j]
      BY <2>1, <2>2, <2>4, <2>5, PushSeq
    <2>7. /\ stack'[n + 1].mgr = m
          /\ \A j \in 1..n : /\ stack'[j].mgr = stack[j].mgr
                            /\ stack'[j].to_append = stack[j].to_append
      BY <2>1, <2>2, <2>4, <2>6, TopIsFrame
    <2>8. \A j \in 1..n : stack[j].mgr \in Nat /\ stack[j].mgr <= top.mgr
      <3>1. \A j \in 1..n : stack[j].mgr \in Nat
        BY DEF TypeOK, Manager
      <3>2. stack[n] = top
        BY DEF top
      <3>3. \A j \in 1..n : j # n => stack[j].mgr < stack[n].mgr
        BY <1>0, <2>6 DEF Ordered, OlderBelow
      <3> QED
        BY <2>6, <3>1, <3>2, <3>3
    <2>9. OlderBelow'
      <3>1. top.mgr \in Nat
        BY <2>1, TopIsFrame DEF Manager
      <3>2. \A j, k \in 1..n : j < k => stack'[j].mgr < stack'[k].mgr
        BY <1>0, <2>6, <2>7 DEF Ordered, OlderBelow
      <3>3. \A j \in 1..n : stack'[j].mgr < stack'[n + 1].mgr
        BY <2>3, <2>7, <2>8, <3>1
      <3>4. \A j \in 1..(n + 1) : j \in 1..n \/ j = n + 1
        BY <2>6
      <3>5. n + 1 \in Nat /\ \A j \in 1..n : ~(n + 1 < j)
        BY <2>6
      <3> HIDE DEF n
      <3> QED
        BY <2>6, <3>2, <3>3, <3>4, <3>5 DEF OlderBelow
    <2>10. YoungerPending'
      BY <1>0, <2>4, <2>6, <2>7 DEF Ordered, YoungerPending
    <2> QED
      BY <1>1, <2>1, <2>9, <2>10 DEF Ordered
  <1> QED
    BY <1>4, <1>5, <1>6, <1>7, <1>8, <1>9, <1>10, <1>11 DEF Next, Stopped

\* A symbol has one address per name: no object is mapped twice.
THEOREM NoObjectLoadedTwice == Spec => []NoDuplicateLoads
  <1>1. Init => TypeOK /\ OrderInv
    BY TypeInit, OrderInit
  <1>2. (TypeOK /\ OrderInv) /\ [Next]_vars => (TypeOK /\ OrderInv)'
    BY TypeStep, OrderStep
  <1>3. TypeOK /\ OrderInv => NoDuplicateLoads
    BY DEF OrderInv
  <1> QED
    BY <1>1, <1>2, <1>3, PTL DEF Spec

\* Cyclic dependencies do not make the recursion endless: the activations on
\* the stack are all about different objects.
THEOREM NoObjectEnteredTwice == Spec => []NoObjectReentered
  <1>1. Init => TypeOK /\ OrderInv
    BY TypeInit, OrderInit
  <1>2. (TypeOK /\ OrderInv) /\ [Next]_vars => (TypeOK /\ OrderInv)'
    BY TypeStep, OrderStep
  <1>3. TypeOK /\ OrderInv => NoObjectReentered
    <2> SUFFICES ASSUME TypeOK, OrderInv,
                        NEW j \in 1..Len(stack), NEW k \in 1..Len(stack),
                        Name(stack[j].mgr) = Name(stack[k].mgr)
                 PROVE  j = k
      BY DEF NoObjectReentered
    <2>1. /\ stack[j].mgr \in Manager
          /\ stack[k].mgr \in Manager
          /\ Len(stack) \in Nat
      BY DEF TypeOK
    <2>2. stack[j].mgr = stack[k].mgr
      BY <2>1, NamesDiffer DEF OrderInv
    <2>3. ~(j < k) /\ ~(k < j)
      BY <2>1, <2>2 DEF OrderInv, Ordered, OlderBelow, Manager
    <2> QED
      BY <2>3
  <1> QED
    BY <1>1, <1>2, <1>3, PTL DEF Spec

-----------------------------------------------------------------------------
(***************************************************************************)
(* Nobody is forgotten.  Inductive strengthening: a manager whose DT_NEEDED*)
(* has not been examined is owed by a frame of the stack, either its own   *)
(* or one that is still to descend into it; and a frame knows what its own *)
(* walk has done so far.                                                   *)
(***************************************************************************)
WalkOK(f) ==
  /\ Len(f.to_append) <= Len(loaded)
  /\ f.at = "entry" => Len(f.to_append) = 0 /\ f.dyn = 1
  /\ f.at # "loop" => f.i = 0
  /\ f.at = "scan" =>
       \A k \in 1..Len(needed[Name(f.mgr)]) :
         k < f.dyn => needed[Name(f.mgr)][k] \in Entries(loaded)
  /\ f.at = "loop" => scan[Name(f.mgr)] # "no"

Owes(f, m) ==
  \/ f.mgr = m
  \/ \E k \in 1..Len(f.to_append) : f.i < k /\ f.to_append[k] = m

Owed(m) == \E j \in 1..Len(stack) : Owes(stack[j], m)

CoverInv ==
  /\ \A j \in 1..Len(stack) : WalkOK(stack[j])
  /\ \A m \in Manager : scan[Name(m)] # "no" \/ Owed(m)
  /\ \A m \in Manager :
       scan[Name(m)] = "whole" =>
         Entries(needed[Name(m)]) \subseteq Entries(loaded)
  /\ \A l \in Lib : scan[l] # "no" => l \in Entries(loaded)
  /\ status = "done" => stack = <<>>

\* What every step does to the rest of the state: managers keep their names,
\* walks that were done stay done, and only the running one is noted.
Grows ==
  /\ needed' = needed
  /\ Len(loaded) <= Len(loaded')
  /\ Entries(loaded) \subseteq Entries(loaded')
  /\ Manager \subseteq Manager'
  /\ \A k \in 1..Len(loaded) : loaded'[k] = loaded[k]
  /\ \A o \in Object : scan[o] # "no" => scan'[o] # "no"

LEMMA SameGrows ==
  ASSUME TypeOK, needed' = needed, loaded' = loaded,
         \A o \in Object : scan[o] # "no" => scan'[o] # "no"
  PROVE  Grows
  BY NameIsObject DEF Grows, Manager, TypeOK

\* A frame that is left alone stays in order.
LEMMA WalkStays ==
  ASSUME TypeOK, TypeOK', Grows, NEW j \in 1..Len(stack), WalkOK(stack[j]),
         stack'[j] = stack[j]
  PROVE  WalkOK(stack[j])'
  <1> DEFINE m == stack[j].mgr
  <1>1. m \in Manager /\ stack[j] \in Frame
    BY DEF TypeOK
  <1>2. Name(m) \in Object
    BY <1>1, NameIsObject
  <1>3. Name(m)' = Name(m)
    BY <1>1 DEF Grows, Name, Manager
  <1>4. Len(stack[j].to_append) \in Nat
    BY <1>1 DEF Frame
  <1>5. Len(loaded) \in Nat /\ Len(loaded') \in Nat
    BY DEF TypeOK
  <1> QED
    BY <1>2, <1>3, <1>4, <1>5 DEF WalkOK, Grows

\* The three ways the stack changes, and what is owed afterwards.
LEMMA ResumeOwes ==
  ASSUME TypeOK, stack # <<>>, NEW f \in Frame, stack' = Resume(f),
         NEW m, Owed(m), Owes(top, m) => Owes(f, m)
  PROVE  Owed(m)'
  <1>1. /\ Len(stack') = Len(stack)
        /\ Len(stack) \in Nat \ {0}
        /\ stack'[Len(stack)] = f
        /\ \A j \in 1..(Len(stack) - 1) : stack'[j] = stack[j]
    BY ResumeSeq DEF Resume, TypeOK
  <1>2. PICK j \in 1..Len(stack) : Owes(stack[j], m)
    BY DEF Owed
  <1>3. Owes(stack'[j], m)
    BY <1>1, <1>2 DEF top
  <1> QED
    BY <1>1, <1>3 DEF Owed, Owes

LEMMA ReturnOwes ==
  ASSUME TypeOK, stack # <<>>, Return, NEW m, Owed(m), ~Owes(top, m)
  PROVE  Owed(m)'
  <1>1. /\ Len(stack') = Len(stack) - 1
        /\ Len(stack) \in Nat \ {0}
        /\ \A j \in 1..(Len(stack) - 1) : stack'[j] = stack[j]
    BY PopSeq DEF Return, TypeOK
  <1>2. PICK j \in 1..Len(stack) : Owes(stack[j], m)
    BY DEF Owed
  <1>3. j \in 1..Len(stack') /\ stack'[j] = stack[j]
    BY <1>1, <1>2 DEF top
  <1> QED
    BY <1>2, <1>3 DEF Owed, Owes

LEMMA PushOwes ==
  ASSUME TypeOK, stack # <<>>, NEW f \in Frame, NEW g \in Frame,
         stack' = Append([stack EXCEPT ![Len(stack)] = f], g),
         NEW m, Owed(m), Owes(top, m) => Owes(f, m) \/ Owes(g, m)
  PROVE  Owed(m)'
  <1>1. /\ Len(stack') = Len(stack) + 1
        /\ Len(stack) \in Nat \ {0}
        /\ stack'[Len(stack) + 1] = g
        /\ stack'[Len(stack)] = f
        /\ \A j \in 1..(Len(stack) - 1) : stack'[j] = stack[j]
    BY PushSeq DEF TypeOK
  <1>2. PICK j \in 1..Len(stack) : Owes(stack[j], m)
    BY DEF Owed
  <1>3. Owes(stack'[j], m) \/ Owes(stack'[Len(stack) + 1], m)
    BY <1>1, <1>2 DEF top
  <1>4. j \in 1..Len(stack') /\ Len(stack) + 1 \in 1..Len(stack')
    BY <1>1
  <1> QED
    BY <1>3, <1>4 DEF Owed, Owes

\* Replacing the top frame keeps the frames in order if the new one is.
LEMMA ResumeWalks ==
  ASSUME TypeOK, TypeOK', Grows, stack # <<>>, NEW f \in Frame,
         stack' = Resume(f),
         \A j \in 1..Len(stack) : WalkOK(stack[j]),
         WalkOK(stack[Len(stack)])'
  PROVE  \A j \in 1..Len(stack') : WalkOK(stack[j])'
  <1>1. /\ Len(stack') = Len(stack)
        /\ Len(stack) \in Nat \ {0}
        /\ \A j \in 1..(Len(stack) - 1) : stack'[j] = stack[j]
    BY ResumeSeq DEF Resume, TypeOK
  <1> SUFFICES ASSUME NEW j \in 1..Len(stack')
               PROVE  WalkOK(stack[j])'
    OBVIOUS
  <1>2. CASE j = Len(stack)
    BY <1>1, <1>2 DEF WalkOK
  <1>3. CASE j # Len(stack)
    <2>1. j \in 1..Len(stack) /\ stack'[j] = stack[j]
      BY <1>1, <1>3
    <2> QED
      BY <2>1, WalkStays
  <1> QED
    BY <1>2, <1>3

LEMMA ReturnWalks ==
  ASSUME TypeOK, TypeOK', Grows, stack # <<>>, Return,
         \A j \in 1..Len(stack) : WalkOK(stack[j])
  PROVE  /\ \A j \in 1..Len(stack') : WalkOK(stack[j])'
         /\ status' = "done" => stack' = <<>>
  <1>1. /\ Len(stack') = Len(stack) - 1
        /\ Len(stack) \in Nat \ {0}
        /\ \A j \in 1..(Len(stack) - 1) : stack'[j] = stack[j]
        /\ stack' \in Seq(Frame)
    BY PopSeq DEF Return, TypeOK
  <1>2. ASSUME NEW j \in 1..Len(stack')
        PROVE  WalkOK(stack[j])'
    <2>1. j \in 1..Len(stack) /\ stack'[j] = stack[j]
      BY <1>1
    <2> QED
      BY <2>1, WalkStays
  <1>3. status' = "done" => stack' = <<>>
    BY <1>1, EmptySeq DEF Return
  <1> QED
    BY <1>2, <1>3

\* Names of managers that exist, after a step.
LEMMA NameStays ==
  ASSUME TypeOK, Grows, NEW m \in Manager
  PROVE  Name(m)' = Name(m) /\ m \in Manager' /\ Name(m) \in Object
  BY NameIsObject DEF Grows, Name, Manager

LEMMA CoverInit == Init => CoverInv
  <1> SUFFICES ASSUME Init
               PROVE  CoverInv
    OBVIOUS
  <1>1. /\ Len(stack) = 1 /\ stack[1] = Activation(0)
        /\ loaded = <<>> /\ Len(loaded) = 0 /\ status = "running"
        /\ scan = [o \in Object |-> "no"]
    BY DEF Init
  <1>2. WalkOK(Activation(0)) /\ Owes(Activation(0), 0)
    BY <1>1, ActivationType DEF WalkOK, Owes
  <1>3. ASSUME NEW m \in Manager
        PROVE  /\ scan[Name(m)] = "no"
               /\ Owed(m)
    BY <1>1, <1>2, <1>3 DEF Manager, Owed, Name, Object
  <1>4. \A l \in Lib : scan[l] = "no"
    BY <1>1 DEF Object
  <1> QED
    BY <1>1, <1>2, <1>3, <1>4 DEF CoverInv

\* A step that lets the top frame go on, within one manager.
LEMMA ResumeCovers ==
  ASSUME TypeOK, TypeOK', CoverInv, Grows, stack # <<>>,
         loaded' = loaded, status' = status, status # "done",
         NEW f \in Frame, stack' = Resume(f),
         WalkOK(stack[Len(stack)])',
         \A m \in Manager : Owes(top, m) => Owes(f, m),
         \A o \in Object : scan'[o] = "whole" =>
            scan[o] = "whole" \/ Entries(needed[o]) \subseteq Entries(loaded),
         \A l \in Lib : scan'[l] # "no" =>
            scan[l] # "no" \/ l \in Entries(loaded)
  PROVE  CoverInv'
  <1>1. \A j \in 1..Len(stack') : WalkOK(stack[j])'
    BY ResumeWalks DEF CoverInv
  <1>2. Manager' = Manager /\ \A m : Name(m)' = Name(m)
    BY DEF Manager, Name
  <1>3. ASSUME NEW m \in Manager
        PROVE  scan'[Name(m)] # "no" \/ Owed(m)'
    <2>1. scan[Name(m)] # "no" \/ Owed(m)
      BY DEF CoverInv
    <2>2. Owed(m) => Owed(m)'
      BY ResumeOwes
    <2> QED
      BY <2>1, <2>2, NameStays DEF Grows
  <1>4. ASSUME NEW m \in Manager, scan'[Name(m)] = "whole"
        PROVE  Entries(needed'[Name(m)]) \subseteq Entries(loaded')
    BY <1>4, NameIsObject DEF CoverInv, Grows
  <1>5. \A l \in Lib : scan'[l] # "no" => l \in Entries(loaded')
    BY DEF CoverInv
  <1> QED
    BY <1>1, <1>2, <1>3, <1>4, <1>5 DEF CoverInv

\* A step that pops the top frame, whose own walk is over.
LEMMA ReturnCovers ==
  ASSUME TypeOK, TypeOK', CoverInv, Grows, stack # <<>>,
         loaded' = loaded, Return,
         \A m \in Manager : Owes(top, m) => scan'[Name(m)] # "no",
         \A o \in Object : scan'[o] = "whole" => scan[o] = "whole",
         \A l \in Lib : scan'[l] # "no" =>
            scan[l] # "no" \/ l \in Entries(loaded)
  PROVE  CoverInv'
  <1>1. /\ \A j \in 1..Len(stack') : WalkOK(stack[j])'
        /\ status' = "done" => stack' = <<>>
    BY ReturnWalks DEF CoverInv
  <1>2. Manager' = Manager /\ \A m : Name(m)' = Name(m)
    BY DEF Manager, Name
  <1>3. ASSUME NEW m \in Manager
        PROVE  scan'[Name(m)] # "no" \/ Owed(m)'
    <2>1. scan[Name(m)] # "no" \/ Owed(m)
      BY DEF CoverInv
    <2>2. Owed(m) /\ ~Owes(top, m) => Owed(m)'
      BY ReturnOwes
    <2> QED
      BY <2>1, <2>2, NameStays DEF Grows
  <1>4. ASSUME NEW m \in Manager, scan'[Name(m)] = "whole"
        PROVE  Entries(needed'[Name(m)]) \subseteq Entries(loaded')
    BY <1>4, NameIsObject DEF CoverInv, Grows
  <1>5. \A l \in Lib : scan'[l] # "no" => l \in Entries(loaded')
    BY DEF CoverInv
  <1> QED
    BY <1>1, <1>2, <1>3, <1>4, <1>5 DEF CoverInv

\* The frame that replaces the top one is in order, term by term.
LEMMA NewTopWalks ==
  ASSUME TypeOK, Grows, stack # <<>>, NEW f \in Frame, stack' = Resume(f),
         f.mgr \in Manager, f.at # "entry",
         Len(f.to_append) <= Len(loaded'),
         f.at = "scan" =>
           /\ f.i = 0
           /\ \A k \in 1..Len(needed[Name(f.mgr)]) :
                k < f.dyn => needed[Name(f.mgr)][k] \in Entries(loaded'),
         f.at = "loop" => scan'[Name(f.mgr)] # "no"
  PROVE  WalkOK(stack[Len(stack)])'
  <1>1. /\ Len(stack') = Len(stack)
        /\ stack'[Len(stack)] = f
    BY ResumeSeq DEF Resume, TypeOK
  <1>2. Name(f.mgr)' = Name(f.mgr) /\ needed' = needed
    BY NameStays DEF Grows
  <1>3. f.at \in {"entry", "scan", "loop"}
    BY DEF Frame
  <1> QED
    BY <1>1, <1>2, <1>3 DEF WalkOK

LEMMA CoverStep ==
  TypeOK /\ TypeOK' /\ OrderInv /\ CoverInv /\ [Next]_vars => CoverInv'
  <1> SUFFICES ASSUME TypeOK, TypeOK', OrderInv, CoverInv, [Next]_vars
               PROVE  CoverInv'
    OBVIOUS
  <1>1. ASSUME stack # <<>>
        PROVE  /\ WalkOK(top) /\ top \in Frame
               /\ top.mgr \in Manager /\ Name(top.mgr) \in Object
               /\ top.to_append \in Seq(Nat) /\ Len(top.to_append) \in Nat
               /\ Len(loaded) \in Nat /\ top.i \in Nat
               /\ top.dyn \in Nat \ {0}
               /\ Len(stack) \in Nat \ {0}
               /\ Name(top.mgr) \in Lib => Name(top.mgr) \in Entries(loaded)
    <2>1. /\ top \in Frame /\ top = stack[Len(stack)]
          /\ top.mgr \in Manager /\ Len(stack) \in Nat \ {0}
      BY <1>1, TopIsFrame
    <2>2. /\ top.to_append \in Seq(Nat) /\ top.i \in Nat
          /\ top.dyn \in Nat \ {0}
      BY ONLY <2>1 DEF Frame
    <2>3. WalkOK(top)
      BY <2>1 DEF CoverInv
    <2>4. Len(loaded) \in Nat /\ Name(top.mgr) \in Object
      BY <2>1, NameIsObject
    <2>5. Name(top.mgr) \in Lib => Name(top.mgr) \in Entries(loaded)
      BY <2>1, <2>4, NameIsObject, LoaderAssumption DEF Entries, Name
    <2> QED
      BY <2>1, <2>2, <2>3, <2>4, <2>5
  <1>2. CASE ReadDynamic
    <2> DEFINE f == [top EXCEPT !.at = "scan"]
    <2>1. /\ stack # <<>> /\ status = "running" /\ top.at = "entry"
          /\ stack' = Resume(f)
          /\ UNCHANGED <<needed, loaded, status, scan>>
      BY <1>2 DEF ReadDynamic, Running, input
    <2>2. /\ f \in Frame /\ f.mgr = top.mgr /\ f.at = "scan"
          /\ f.to_append = top.to_append /\ f.i = top.i /\ f.dyn = top.dyn
      BY <1>1, <2>1, FrameTurns
    <2> HIDE DEF f
    <2>3. Grows
      BY <2>1, SameGrows
    <2>4. f.mgr \in Manager /\ f.at # "entry" /\ f.i = 0 /\ f.dyn = 1
          /\ Len(f.to_append) <= Len(loaded')
      BY <1>1, <2>1, <2>2 DEF WalkOK
    <2>5. WalkOK(stack[Len(stack)])'
      BY <2>1, <2>2, <2>3, <2>4, NewTopWalks
    <2>6. \A m \in Manager : Owes(top, m) => Owes(f, m)
      BY <2>2 DEF Owes
    <2> QED
      BY <2>1, <2>2, <2>3, <2>5, <2>6, ResumeCovers
  <1>3. CASE NoDynamic
    <2>1. /\ stack # <<>> /\ top.at = "entry" /\ Return
          /\ scan' = [scan EXCEPT ![Name(top.mgr)] = "failed"]
          /\ UNCHANGED <<needed, loaded>>
      BY <1>3 DEF NoDynamic, Running, input
    <2>2. /\ scan'[Name(top.mgr)] = "failed"
          /\ \A o \in Object : o # Name(top.mgr) => scan'[o] = scan[o]
      BY <1>1, <2>1 DEF TypeOK
    <2>3. Grows
      BY <2>1, <2>2, SameGrows
    <2>4. \A m \in Manager : Owes(top, m) => scan'[Name(m)] # "no"
      BY <1>1, <2>1, <2>2 DEF Owes, WalkOK
    <2>5. \A o \in Object : scan'[o] = "whole" => scan[o] = "whole"
      BY <2>2
    <2>6. \A l \in Lib : scan'[l] # "no" =>
             scan[l] # "no" \/ l \in Entries(loaded)
      BY <1>1, <2>1, <2>2 DEF Object
    <2> QED
      BY <2>1, <2>3, <2>4, <2>5, <2>6, ReturnCovers
  <1>4. CASE NullHeader \/ WildSlot \/ UNCHANGED vars
    <2>1. /\ UNCHANGED <<needed, loaded, stack, scan>>
          /\ status' = status \/ status' # "done"
      BY <1>4 DEF NullHeader, WildSlot, vars, input
    <2> QED
      BY <2>1 DEF CoverInv, WalkOK, Owed, Owes, Manager, Name
  <1>5. ASSUME NEW outcome \in {"whole", "cut"},
               stack # <<>>, top.at = "scan", status = "running",
               stack' = Resume([top EXCEPT !.at = "loop"]),
               scan' = [scan EXCEPT ![Name(top.mgr)] = outcome],
               UNCHANGED <<needed, loaded, status>>,
               outcome = "whole" =>
                 Entries(needed[Name(top.mgr)]) \subseteq Entries(loaded)
        PROVE  CoverInv'
    <2> DEFINE f == [top EXCEPT !.at = "loop"]
    <2>1. stack' = Resume(f)
      BY <1>5
    <2>2. /\ f \in Frame /\ f.mgr = top.mgr /\ f.at = "loop"
          /\ f.to_append = top.to_append /\ f.i = top.i
      BY <1>1, <1>5, FrameTurns
    <2> HIDE DEF f
    <2>3. /\ scan'[Name(top.mgr)] = outcome
          /\ \A o \in Object : o # Name(top.mgr) => scan'[o] = scan[o]
      BY <1>1, <1>5 DEF TypeOK
    <2>4. Grows
      BY <1>5, <2>3, SameGrows
    <2>5. Len(f.to_append) <= Len(loaded')
      BY <1>1, <1>5, <2>2 DEF WalkOK
    <2>6. scan'[Name(f.mgr)] # "no"
      BY <2>2, <2>3
    <2>7. WalkOK(stack[Len(stack)])'
      BY <1>1, <1>5, <2>1, <2>2, <2>4, <2>5, <2>6, NewTopWalks
    <2>8. \A m \in Manager : Owes(top, m) => Owes(f, m)
      BY <2>2 DEF Owes
    <2>9. \A o \in Object : scan'[o] = "whole" =>
             scan[o] = "whole" \/ Entries(needed[o]) \subseteq Entries(loaded)
      BY <1>5, <2>3
    <2>10. status' = status /\ status # "done" /\ loaded' = loaded
      BY <1>5
    <2>11. \A l \in Lib : scan'[l] # "no" =>
              scan[l] # "no" \/ l \in Entries(loaded)
      BY <1>1, <1>5, <2>3 DEF Object
    <2> QED
      BY <1>5, <2>1, <2>2, <2>4, <2>7, <2>8, <2>9, <2>10, <2>11, ResumeCovers
  <1>6. CASE AlreadyViewed
    BY <1>5, <1>6 DEF AlreadyViewed, Running, input
  <1>7. CASE EndOfTable
    <2>1. /\ stack # <<>> /\ top.at = "scan" /\ top.dyn > Len(Needs)
      BY <1>7 DEF EndOfTable, Running
    <2>2. Len(needed[Name(top.mgr)]) \in Nat
      BY <1>1, <2>1, NeedsAreLibs
    <2>3. Entries(needed[Name(top.mgr)]) \subseteq Entries(loaded)
      <3>1. \A k \in 1..Len(needed[Name(top.mgr)]) :
              needed[Name(top.mgr)][k] \in Entries(loaded)
        BY <1>1, <2>1, <2>2 DEF WalkOK, Needs
      <3> QED
        BY <3>1 DEF Entries
    <2> QED
      BY <1>5, <1>7, <2>3 DEF EndOfTable, Running, input
  <1>8. CASE EmptySlot
    <2> DEFINE f == [top EXCEPT !.i = @ + 1]
    <2>1. /\ stack # <<>> /\ status = "running" /\ top.at = "loop"
          /\ top.i >= Len(top.to_append)
          /\ stack' = Resume(f)
          /\ UNCHANGED <<needed, loaded, status, scan>>
      BY <1>8 DEF EmptySlot, Turn, Running, input
    <2>2. /\ f \in Frame /\ f.mgr = top.mgr /\ f.at = "loop"
          /\ f.to_append = top.to_append
      BY <1>1, <2>1, FrameAdvances
    <2> HIDE DEF f
    <2>3. Grows
      BY <2>1, SameGrows
    <2>4. /\ Len(f.to_append) <= Len(loaded')
          /\ scan'[Name(f.mgr)] # "no"
      BY <1>1, <2>1, <2>2 DEF WalkOK
    <2>5. WalkOK(stack[Len(stack)])'
      BY <1>1, <2>1, <2>2, <2>3, <2>4, NewTopWalks
    <2>6. \A m \in Manager : Owes(top, m) => Owes(f, m)
      BY <1>1, <2>1, <2>2 DEF Owes
    <2> QED
      BY <1>1, <2>1, <2>2, <2>3, <2>5, <2>6, ResumeCovers
  <1>9. CASE LeaveLoop
    <2>1. /\ stack # <<>> /\ top.at = "loop" /\ Return
          /\ top.i >= Len(loaded)
          /\ UNCHANGED <<needed, loaded, scan>>
      BY <1>9 DEF LeaveLoop, Running, input
    <2>2. Grows
      BY <2>1, SameGrows
    <2>3. \A m \in Manager : Owes(top, m) => scan'[Name(m)] # "no"
      BY <1>1, <2>1 DEF Owes, WalkOK
    <2> QED
      BY <2>1, <2>2, <2>3, ReturnCovers
  <1>10. CASE NewManager
    <2> DEFINE m == Len(loaded) + 1
               name == Needs[top.dyn]
               f == [top EXCEPT !.dyn = @ + 1, !.to_append = Append(@, m)]
    <2>1. /\ stack # <<>> /\ top.at = "scan" /\ status = "running"
          /\ loaded' = Append(loaded, name)
          /\ stack' = Resume(f)
          /\ UNCHANGED <<needed, status, scan>>
      BY <1>10 DEF NewManager, Running, input
    <2>2. name \in Lib
      BY <1>10, NewNameIsLib
    <2>3. /\ Len(loaded') = m
          /\ m \in Nat
          /\ Entries(loaded') = Entries(loaded) \cup {name}
          /\ \A k \in 1..Len(loaded) : loaded'[k] = loaded[k]
      BY <1>1, <2>1, <2>2, AppendSeq DEF TypeOK
    <2>4. /\ f \in Frame /\ f.mgr = top.mgr /\ f.at = "scan"
          /\ f.to_append = Append(top.to_append, m)
          /\ f.i = top.i /\ f.dyn = top.dyn + 1
      BY <1>1, <2>1, <2>3, FrameAppends
    <2>5. /\ Len(f.to_append) = Len(top.to_append) + 1
          /\ f.to_append[Len(top.to_append) + 1] = m
          /\ \A k \in 1..Len(top.to_append) : f.to_append[k] = top.to_append[k]
      BY <1>1, <2>1, <2>3, <2>4, AppendSeq
    <2>6. Grows
      BY <1>1, <2>1, <2>3 DEF Grows, Manager
    <2>7. ASSUME NEW k \in 1..Len(needed[Name(top.mgr)]), k < top.dyn + 1
          PROVE  needed[Name(top.mgr)][k] \in Entries(loaded')
      <3>1. Len(needed[Name(top.mgr)]) \in Nat
        BY <1>1, <2>1, NeedsAreLibs
      <3>2. CASE k < top.dyn
        BY <1>1, <2>1, <2>3, <3>2 DEF WalkOK
      <3>3. CASE k = top.dyn
        BY <2>3, <3>3 DEF Needs
      <3> QED
        BY <1>1, <2>1, <2>7, <3>1, <3>2, <3>3
    <2> HIDE DEF f, name
    <2>8. Len(f.to_append) <= Len(loaded') /\ f.i = 0
      BY <1>1, <2>1, <2>3, <2>4, <2>5 DEF WalkOK
    <2>9. WalkOK(stack[Len(stack)])'
      BY <1>1, <2>1, <2>4, <2>6, <2>7, <2>8, NewTopWalks
    <2>10. \A j \in 1..Len(stack') : WalkOK(stack[j])'
      BY <1>1, <2>1, <2>4, <2>6, <2>9, ResumeWalks DEF CoverInv
    <2>11. ASSUME NEW n, Owes(top, n)
           PROVE  Owes(f, n)
      BY <1>1, <2>1, <2>4, <2>5, <2>11 DEF Owes
    <2>12. Owes(f, m)
      <3> DEFINE k == Len(top.to_append) + 1
      <3>1. Len(top.to_append) \in Nat
        BY <1>1, <2>1 DEF Frame
      <3>2. k \in 1..Len(f.to_append) /\ f.i < k
        BY <2>5, <2>8, <3>1
      <3>3. f.to_append[k] = m
        BY <2>5
      <3> HIDE DEF k
      <3> QED
        BY <3>2, <3>3 DEF Owes
    <2>13. ASSUME NEW n \in Manager
           PROVE  /\ scan'[Name(n)'] # "no" \/ Owed(n)'
                  /\ scan'[Name(n)'] = "whole" =>
                       Entries(needed'[Name(n)']) \subseteq Entries(loaded')
      <3>1. Name(n)' = Name(n)
        BY <2>6, NameStays
      <3>2. scan[Name(n)] # "no" \/ Owed(n)
        BY DEF CoverInv
      <3>3. Owed(n) => Owed(n)'
        BY <2>1, <2>4, <2>11, ResumeOwes
      <3>4. scan[Name(n)] = "whole" =>
              Entries(needed[Name(n)]) \subseteq Entries(loaded)
        BY DEF CoverInv
      <3> QED
        BY <2>1, <2>3, <3>1, <3>2, <3>3, <3>4
    <2>14. ASSUME NEW n, n = m
           PROVE  /\ Owed(n)'
                  /\ scan'[Name(n)'] = "no"
      <3>1. Len(stack') = Len(stack) /\ stack'[Len(stack)] = f
        BY <2>1, <2>4, ResumeSeq DEF Resume, TypeOK
      <3>2. Owes(stack'[Len(stack)], n) /\ Len(stack) \in 1..Len(stack')
        BY <1>1, <2>1, <2>12, <2>14, <3>1
      <3>3. Owed(n)'
        BY <3>2 DEF Owed, Owes
      <3>4. Name(n)' = name
        BY <1>1, <2>1, <2>2, <2>14, AppendSeq DEF Name, TypeOK
      <3>5. name \notin Entries(loaded)
        BY <1>10 DEF NewManager, OrderInv, name
      <3>6. scan'[name] = "no"
        BY <2>1, <2>2, <3>5 DEF CoverInv
      <3> QED
        BY <3>3, <3>4, <3>6
    <2>15. \A n \in Manager' : n \in Manager \/ n = m
      BY <1>1, <2>1, <2>3 DEF Manager
    <2>16. \A n \in Manager' :
             /\ scan'[Name(n)'] # "no" \/ Owed(n)'
             /\ scan'[Name(n)'] = "whole" =>
                  Entries(needed'[Name(n)']) \subseteq Entries(loaded')
      BY <2>13, <2>14, <2>15
    <2>17. \A l \in Lib : scan'[l] # "no" => l \in Entries(loaded')
      BY <2>1, <2>3 DEF CoverInv
    <2> QED
      BY <2>1, <2>10, <2>16, <2>17 DEF CoverInv
  <1>11. CASE Descend
    <2> DEFINE f == [top EXCEPT !.i = @ + 1]
               m == top.to_append[top.i + 1]
               n == Len(stack)
    <2>1. /\ stack # <<>> /\ status = "running" /\ top.at = "loop"
          /\ top.i < Len(top.to_append)
          /\ stack' = Append([stack EXCEPT ![n] = f], Activation(m))
          /\ UNCHANGED <<needed, loaded, status, scan>>
      BY <1>11 DEF Descend, Turn, Running, Resume, input
    <2>2. /\ f \in Frame /\ f.mgr = top.mgr /\ f.at = "loop"
          /\ f.to_append = top.to_append /\ f.i = top.i + 1
      BY <1>1, <2>1, FrameAdvances
    <2>3. m \in Nat
      BY <1>1, <2>1, SMTT(30)
    <2>4. /\ Activation(m) \in Frame
          /\ Activation(m).mgr = m
          /\ Activation(m).at = "entry"
          /\ Len(Activation(m).to_append) = 0
          /\ Activation(m).i = 0
          /\ Activation(m).dyn = 1
      BY <2>3, ActivationType
    <2>5. stack \in Seq(Frame)
      BY DEF TypeOK
    <2>6. \A q : Owes(top, q) => Owes(f, q) \/ Owes(Activation(m), q)
      BY <1>1, <2>1, <2>2, <2>4 DEF Owes
    <2> HIDE DEF f, m
    <2>7. /\ Len(stack') = n + 1
          /\ n \in Nat \ {0}
          /\ stack'[n + 1] = Activation(m)
          /\ stack'[n] = f
          /\ \A j \in 1..(n - 1) : stack'[j] = stack[j]
      BY <2>1, <2>2, <2>4, <2>5, PushSeq
    <2>8. Grows
      BY <2>1, SameGrows
    <2>9. ASSUME NEW j \in 1..Len(stack')
          PROVE  WalkOK(stack[j])'
      <3>1. CASE j = n + 1
        <4>1. stack'[j] = Activation(m)
          BY <2>7, <3>1
        <4> QED
          BY <1>1, <2>1, <2>4, <4>1 DEF WalkOK
      <3>2. CASE j = n
        <4>1. stack'[j] = f /\ \A q : Name(q)' = Name(q)
          BY <2>1, <2>7, <3>2 DEF Name
        <4>2. /\ Len(f.to_append) <= Len(loaded') /\ f.at = "loop"
              /\ scan'[Name(f.mgr)] # "no"
          BY <1>1, <2>1, <2>2 DEF WalkOK
        <4> QED
          BY <2>2, <4>1, <4>2 DEF WalkOK
      <3>3. CASE j \in 1..(n - 1)
        <4>1. j \in 1..Len(stack) /\ stack'[j] = stack[j]
          BY <2>7, <3>3
        <4> QED
          BY <2>8, <4>1, WalkStays DEF CoverInv
      <3>4. j = n + 1 \/ j = n \/ j \in 1..(n - 1)
        BY <2>7
      <3> QED
        BY <3>1, <3>2, <3>3, <3>4
    <2>10. ASSUME NEW q \in Manager
           PROVE  /\ Name(q)' = Name(q)
                  /\ scan[Name(q)] # "no" \/ Owed(q)'
      <3>1. scan[Name(q)] # "no" \/ Owed(q)
        BY DEF CoverInv
      <3>2. Owed(q) => Owed(q)'
        BY <2>1, <2>2, <2>4, <2>6, PushOwes
      <3> QED
        BY <2>8, <3>1, <3>2, NameStays
    <2>11. Manager' = Manager
      BY <2>1 DEF Manager
    <2>12. \A q \in Manager' :
             /\ scan'[Name(q)'] # "no" \/ Owed(q)'
             /\ scan'[Name(q)'] = "whole" =>
                  Entries(needed'[Name(q)']) \subseteq Entries(loaded')
      BY <2>1, <2>10, <2>11 DEF CoverInv
    <2>13. \A l \in Lib : scan'[l] # "no" => l \in Entries(loaded')
      BY <2>1 DEF CoverInv
    <2> QED
      BY <2>1, <2>9, <2>12, <2>13 DEF CoverInv
  <1> QED
    BY <1>2, <1>3, <1>4, <1>6, <1>7, <1>8, <1>9, <1>10, <1>11
       DEF Next, Stopped

LEMMA AllInit == Init => TypeOK /\ OrderInv /\ CoverInv
  BY TypeInit, OrderInit, CoverInit

LEMMA AllStep ==
  TypeOK /\ OrderInv /\ CoverInv /\ [Next]_vars =>
    (TypeOK /\ OrderInv /\ CoverInv)'
  BY TypeStep, OrderStep, CoverStep

\* When load_dependencies returns to its caller, every object that was loaded
\* has had its own DT_NEEDED examined, and what a whole walk saw is loaded.
THEOREM NobodyIsForgotten == Spec => []NobodyForgotten
  <1>1. TypeOK /\ CoverInv => NobodyForgotten
    <2> SUFFICES ASSUME CoverInv, status = "done", NEW m \in Manager
                 PROVE  /\ scan[Name(m)] # "no"
                        /\ scan[Name(m)] = "whole" =>
                             Entries(needed[Name(m)]) \subseteq Entries(loaded)
      BY DEF NobodyForgotten
    <2>1. ~Owed(m)
      BY DEF CoverInv, Owed
    <2> QED
      BY <2>1 DEF CoverInv
  <1> QED
    BY <1>1, AllInit, AllStep, PTL DEF Spec

-----------------------------------------------------------------------------
(***************************************************************************)
(* What becomes of files that are no good.  Inductive strengthening: which *)
(* walks can have been noted, given the file, and whose error_ is set.     *)
(***************************************************************************)
FileInv ==
  /\ file[Root] \in {"good", "nodynamic"}
  /\ \A o \in Object : scan[o] # "no" => file[o] \notin {"missing", "short"}
  /\ \A m \in Manager :
       /\ file[Name(m)] \in RefusedKind => m \in error
       /\ file[Name(m)] = "nodynamic" /\ scan[Name(m)] # "no" => m \in error
  /\ \A j \in 1..Len(stack) :
       stack[j].at # "entry" => file[Name(stack[j].mgr)] \in {"good", "oneload"}

LEMMA FileInit == Init => FileInv
  <1> SUFFICES ASSUME Init
               PROVE  FileInv
    OBVIOUS
  <1>1. /\ Len(stack) = 1 /\ stack[1].at = "entry"
    BY ActivationType DEF Init
  <1>2. Manager = {0} /\ Name(0) = Root /\ Root \in Object
    BY DEF Init, Manager, Name, Object
  <1>3. /\ file[Root] \in {"good", "nodynamic"}
        /\ \A o \in Object : scan[o] = "no"
    BY LoaderAssumption DEF Init
  <1> QED
    BY <1>1, <1>2, <1>3 DEF RefusedKind, FileInv

\* The frames after a step, given each is new or about a file that is good.
LEMMA FileFrames ==
  ASSUME TypeOK, Grows, file' = file,
         \A j \in 1..Len(stack') :
           \/ stack'[j].at = "entry"
           \/ /\ stack'[j].mgr \in Manager
              /\ file[Name(stack'[j].mgr)] \in {"good", "oneload"}
  PROVE  (\A j \in 1..Len(stack) :
            stack[j].at # "entry" =>
              file[Name(stack[j].mgr)] \in {"good", "oneload"})'
  <1>1. \A q \in Manager : Name(q)' = Name(q)
    BY NameStays
  <1> QED
    BY <1>1

\* The frames below the top one, and the top one if it is past its entry.
LEMMA FileBelow ==
  ASSUME TypeOK, FileInv, NEW j \in 1..Len(stack)
  PROVE  /\ stack[j].mgr \in Manager
         /\ stack[j].at = "entry" \/ file[Name(stack[j].mgr)] \in {"good", "oneload"}
  BY DEF FileInv, TypeOK

\* A step that notes nothing new and loads nothing.
LEMMA FileKeeps ==
  ASSUME TypeOK, FileInv, UNCHANGED <<file, loaded, error>>, needed' = needed,
         \A o \in Object :
           scan'[o] = scan[o] \/ (file[o] \in {"good", "oneload"} /\ scan'[o] # "no"),
         \A j \in 1..Len(stack') :
           \/ stack'[j].at = "entry"
           \/ /\ stack'[j].mgr \in Manager
              /\ file[Name(stack'[j].mgr)] \in {"good", "oneload"}
  PROVE  FileInv'
  <1>1. /\ Manager' = Manager /\ \A q : Name(q)' = Name(q)
        /\ \A q \in Manager : Name(q) \in Object
    BY NameIsObject DEF Manager, Name
  <1>2. Grows
    BY SameGrows
  <1>3. (\A j \in 1..Len(stack) :
           stack[j].at # "entry" =>
             file[Name(stack[j].mgr)] \in {"good", "oneload"})'
    BY <1>2, FileFrames
  <1>4. \A o \in Object : scan'[o] # "no" => file'[o] \notin {"missing", "short"}
    BY DEF FileInv
  <1>5. \A m \in Manager :
          /\ file[Name(m)] \in RefusedKind => m \in error
          /\ file[Name(m)] = "nodynamic" /\ scan'[Name(m)] # "no" => m \in error
    BY <1>1 DEF FileInv
  <1> QED
    BY <1>1, <1>3, <1>4, <1>5 DEF FileInv

LEMMA FileStep ==
  TypeOK /\ OrderInv /\ CoverInv /\ FileInv /\ [Next]_vars => FileInv'
  <1> SUFFICES ASSUME TypeOK, OrderInv, CoverInv, FileInv, [Next]_vars
               PROVE  FileInv'
    OBVIOUS
  <1>1. ASSUME stack # <<>>
        PROVE  /\ top \in Frame /\ top.mgr \in Manager
               /\ Name(top.mgr) \in Object
               /\ Len(stack) \in Nat \ {0}
               /\ top = stack[Len(stack)]
               /\ top.at # "entry" =>
                    file[Name(top.mgr)] \in {"good", "oneload"}
    BY <1>1, TopIsFrame, NameIsObject DEF FileInv
  <1>2. ASSUME stack # <<>>, NEW f \in Frame, stack' = Resume(f),
               f.mgr = top.mgr,
               file[Name(top.mgr)] \in {"good", "oneload"}
        PROVE  \A j \in 1..Len(stack') :
                 \/ stack'[j].at = "entry"
                 \/ /\ stack'[j].mgr \in Manager
                    /\ file[Name(stack'[j].mgr)] \in {"good", "oneload"}
    <2>1. /\ Len(stack') = Len(stack)
          /\ stack'[Len(stack)] = f
          /\ \A j \in 1..(Len(stack) - 1) : stack'[j] = stack[j]
      BY <1>2, ResumeSeq DEF Resume, TypeOK
    <2> QED
      BY <1>1, <1>2, <2>1, FileBelow
  <1>3. ASSUME stack # <<>>, Return
        PROVE  \A j \in 1..Len(stack') :
                 \/ stack'[j].at = "entry"
                 \/ /\ stack'[j].mgr \in Manager
                    /\ file[Name(stack'[j].mgr)] \in {"good", "oneload"}
    <2>1. /\ Len(stack') = Len(stack) - 1
          /\ \A j \in 1..(Len(stack) - 1) : stack'[j] = stack[j]
      BY <1>3, PopSeq DEF Return, TypeOK
    <2> QED
      BY <1>1, <1>3, <2>1, FileBelow
  <1>4. CASE ReadDynamic
    <2> DEFINE f == [top EXCEPT !.at = "scan"]
    <2>1. /\ stack # <<>> /\ stack' = Resume(f)
          /\ file[Name(top.mgr)] \in {"good", "oneload"}
          /\ UNCHANGED <<needed, file, loaded, error, scan>>
      BY <1>4 DEF ReadDynamic, Running, input
    <2>2. f \in Frame /\ f.mgr = top.mgr
      BY <1>1, <2>1, FrameTurns
    <2> HIDE DEF f
    <2> QED
      BY <1>2, <2>1, <2>2, FileKeeps
  <1>5. ASSUME NEW outcome \in {"whole", "cut"}, stack # <<>>, top.at = "scan",
               stack' = Resume([top EXCEPT !.at = "loop"]),
               scan' = [scan EXCEPT ![Name(top.mgr)] = outcome],
               UNCHANGED <<needed, file, loaded, error>>
        PROVE  FileInv'
    <2> DEFINE f == [top EXCEPT !.at = "loop"]
    <2>1. stack' = Resume(f)
      BY <1>5
    <2>2. f \in Frame /\ f.mgr = top.mgr
      BY <1>1, <1>5, FrameTurns
    <2> HIDE DEF f
    <2>3. file[Name(top.mgr)] \in {"good", "oneload"}
      BY <1>1, <1>5
    <2>4. /\ scan'[Name(top.mgr)] = outcome
          /\ \A o \in Object : o # Name(top.mgr) => scan'[o] = scan[o]
      BY <1>1, <1>5 DEF TypeOK
    <2>5. \A j \in 1..Len(stack') :
            \/ stack'[j].at = "entry"
            \/ /\ stack'[j].mgr \in Manager
               /\ file[Name(stack'[j].mgr)] \in {"good", "oneload"}
      BY <1>2, <1>5, <2>1, <2>2, <2>3
    <2> QED
      BY <1>5, <2>3, <2>4, <2>5, FileKeeps
  <1>6. CASE AlreadyViewed
    BY <1>5, <1>6 DEF AlreadyViewed, Running, input
  <1>7. CASE EndOfTable
    BY <1>5, <1>7 DEF EndOfTable, Running, input
  <1>8. CASE EmptySlot
    <2> DEFINE f == [top EXCEPT !.i = @ + 1]
    <2>1. /\ stack # <<>> /\ stack' = Resume(f) /\ top.at = "loop"
          /\ UNCHANGED <<needed, file, loaded, error, scan>>
      BY <1>8 DEF EmptySlot, Turn, Running, input
    <2>2. f \in Frame /\ f.mgr = top.mgr
      BY <1>1, <2>1, FrameAdvances
    <2> HIDE DEF f
    <2> QED
      BY <1>1, <1>2, <2>1, <2>2, FileKeeps
  <1>9. CASE LeaveLoop
    <2>1. /\ stack # <<>> /\ Return
          /\ UNCHANGED <<needed, file, loaded, error, scan>>
      BY <1>9 DEF LeaveLoop, Running, input
    <2> QED
      BY <1>3, <2>1, FileKeeps
  <1>10. CASE NullHeader \/ WildSlot \/ UNCHANGED vars
    <2>1. UNCHANGED <<needed, file, loaded, error, scan, stack>>
      BY <1>10 DEF NullHeader, WildSlot, vars, input
    <2> QED
      BY <2>1, FileBelow, FileKeeps
  <1>11. CASE Descend
    <2> DEFINE f == [top EXCEPT !.i = @ + 1]
               m == top.to_append[top.i + 1]
    <2>1. /\ stack # <<>> /\ top.at = "loop" /\ top.i < Len(top.to_append)
          /\ stack' = Append([stack EXCEPT ![Len(stack)] = f], Activation(m))
          /\ UNCHANGED <<needed, file, loaded, error, scan>>
      BY <1>11 DEF Descend, Turn, Running, Resume, input
    <2>2. /\ f \in Frame /\ f.mgr = top.mgr
          /\ top.i + 1 \in 1..Len(top.to_append)
          /\ top.to_append \in Seq(Nat)
      BY <1>1, <2>1, FrameAdvances
    <2>3. Activation(m) \in Frame /\ Activation(m).at = "entry"
      BY <2>2, ActivationType
    <2> HIDE DEF f, m
    <2>4. /\ Len(stack') = Len(stack) + 1
          /\ stack'[Len(stack) + 1] = Activation(m)
          /\ stack'[Len(stack)] = f
          /\ \A j \in 1..(Len(stack) - 1) : stack'[j] = stack[j]
      BY <2>1, <2>2, <2>3, PushSeq DEF TypeOK
    <2>5. \A j \in 1..Len(stack') :
            \/ stack'[j].at = "entry"
            \/ /\ stack'[j].mgr \in Manager
               /\ file[Name(stack'[j].mgr)] \in {"good", "oneload"}
      BY <1>1, <2>1, <2>2, <2>3, <2>4, FileBelow
    <2> QED
      BY <2>1, <2>5, FileKeeps
  <1>12. CASE NoDynamic
    <2>1. /\ stack # <<>> /\ Return
          /\ file[Name(top.mgr)] \in {"nodynamic", "badmagic"}
          /\ error' = error \cup {top.mgr}
          /\ scan' = [scan EXCEPT ![Name(top.mgr)] = "failed"]
          /\ UNCHANGED <<needed, file, loaded>>
      BY <1>12 DEF NoDynamic, Running, input
    <2>2. /\ scan'[Name(top.mgr)] = "failed"
          /\ \A o \in Object : o # Name(top.mgr) => scan'[o] = scan[o]
      BY <1>1, <2>1 DEF TypeOK
    <2>3. Grows
      BY <2>1, <2>2, SameGrows
    <2>4. (\A j \in 1..Len(stack) :
             stack[j].at # "entry" =>
               file[Name(stack[j].mgr)] \in {"good", "oneload"})'
      BY <1>3, <2>1, <2>3, FileFrames
    <2>5. Manager' = Manager /\ \A q : Name(q)' = Name(q)
      BY <2>1 DEF Manager, Name
    <2>6. ASSUME NEW m \in Manager
          PROVE  /\ file[Name(m)] \in RefusedKind =>
                      m \in error'
                 /\ file[Name(m)] = "nodynamic" /\ scan'[Name(m)] # "no" =>
                      m \in error'
      <3>1. CASE Name(m) = Name(top.mgr)
        <4>1. m = top.mgr
          BY <1>1, <2>1, <3>1, NamesDiffer DEF OrderInv
        <4> QED
          BY <2>1, <4>1
      <3>2. CASE Name(m) # Name(top.mgr)
        <4>1. Name(m) \in Object
          BY NameIsObject
        <4> QED
          BY <2>1, <2>2, <3>2, <4>1 DEF FileInv
      <3> QED
        BY <3>1, <3>2
    <2>7. \A o \in Object :
            scan'[o] # "no" => file'[o] \notin {"missing", "short"}
      BY <2>1, <2>2 DEF FileInv
    <2> QED
      BY <2>1, <2>4, <2>5, <2>6, <2>7 DEF FileInv
  <1>13. CASE NewManager
    <2> DEFINE m == Len(loaded) + 1
               name == Needs[top.dyn]
               f == [top EXCEPT !.dyn = @ + 1, !.to_append = Append(@, m)]
    <2>1. /\ stack # <<>> /\ top.at = "scan"
          /\ loaded' = Append(loaded, name)
          /\ error' = IF file[name] \in RefusedKind
                        THEN error \cup {m} ELSE error
          /\ stack' = Resume(f)
          /\ UNCHANGED <<needed, file, scan>>
      BY <1>13 DEF NewManager, Running, input
    <2>2. name \in Lib /\ name \notin Entries(loaded)
      BY <1>13, NewNameIsLib DEF NewManager, OrderInv
    <2>3. /\ Len(loaded) \in Nat /\ Len(loaded') = m /\ m \in Nat
          /\ loaded'[m] = name
          /\ Entries(loaded') = Entries(loaded) \cup {name}
          /\ \A k \in 1..Len(loaded) : loaded'[k] = loaded[k]
      BY <2>1, <2>2, AppendSeq DEF TypeOK
    <2>4. f \in Frame /\ f.mgr = top.mgr
      BY <1>1, <2>1, <2>3, FrameAppends
    <2>5. Grows
      BY <2>1, <2>3 DEF Grows, Manager
    <2> HIDE DEF f, name
    <2>6. (\A j \in 1..Len(stack) :
             stack[j].at # "entry" =>
               file[Name(stack[j].mgr)] \in {"good", "oneload"})'
      <3>1. file[Name(top.mgr)] \in {"good", "oneload"}
        BY <1>1, <2>1
      <3>2. \A j \in 1..Len(stack') :
              \/ stack'[j].at = "entry"
              \/ /\ stack'[j].mgr \in Manager
                 /\ file[Name(stack'[j].mgr)] \in {"good", "oneload"}
        BY <1>2, <2>1, <2>4, <3>1
      <3> QED
        BY <2>1, <2>5, <3>2, FileFrames
    <2>7. ASSUME NEW n \in Manager'
          PROVE  /\ file[Name(n)'] \in RefusedKind =>
                      n \in error'
                 /\ file[Name(n)'] = "nodynamic" /\ scan[Name(n)'] # "no" =>
                      n \in error'
      <3>1. CASE n \in Manager
        <4>1. Name(n)' = Name(n)
          BY <2>5, <3>1, NameStays
        <4> QED
          BY <2>1, <3>1, <4>1 DEF FileInv
      <3>2. CASE n = m
        <4>1. Name(n)' = name
          BY <2>3, <3>2 DEF Name
        <4>2. scan[name] = "no"
          BY <2>2 DEF CoverInv
        <4> QED
          BY <2>1, <3>2, <4>1, <4>2
      <3>3. n \in Manager \/ n = m
        BY <2>3 DEF Manager
      <3> QED
        BY <3>1, <3>2, <3>3
    <2> QED
      BY <2>1, <2>6, <2>7 DEF FileInv
  <1> QED
    BY <1>4, <1>6, <1>7, <1>8, <1>9, <1>10, <1>11, <1>12, <1>13
       DEF Next, Stopped

LEMMA FilesStep ==
  TypeOK /\ OrderInv /\ CoverInv /\ FileInv /\ [Next]_vars =>
    (TypeOK /\ OrderInv /\ CoverInv /\ FileInv)'
  BY AllStep, FileStep

\* When load_dependencies returns, no manager stands for a file that could
\* not be opened, or held no header: the process has died of it before.
THEOREM LinkerSeesNoUnopenedFile == Spec => []LinkerSeesOpenedFiles
  <1>1. TypeOK /\ CoverInv /\ FileInv => LinkerSeesOpenedFiles
    <2> SUFFICES ASSUME TypeOK, CoverInv, FileInv, status = "done",
                        NEW k \in 1..Len(loaded)
                 PROVE  file[loaded[k]] \notin {"missing", "short"}
      BY DEF LinkerSeesOpenedFiles
    <2>1. k \in Manager /\ Name(k) = loaded[k] /\ Name(k) \in Object
      BY NameIsObject DEF TypeOK, Manager, Name
    <2>2. scan[Name(k)] # "no"
      BY <2>1 DEF CoverInv, Owed
    <2> QED
      BY <2>1, <2>2 DEF FileInv
  <1> QED
    BY <1>1, AllInit, FileInit, FilesStep, PTL DEF Spec

\* When load_dependencies returns, error_ is set in every manager whose file
\* is no good, whatever was wrong with it.
THEOREM NoFailureUnrecorded == Spec => []FailuresAreRecorded
  <1>1. TypeOK /\ CoverInv /\ FileInv => FailuresAreRecorded
    <2> SUFFICES ASSUME TypeOK, CoverInv, FileInv, status = "done",
                        NEW m \in Manager, file[Name(m)] # "good"
                 PROVE  m \in error
      BY DEF FailuresAreRecorded
    <2>1. Name(m) \in Object
      BY NameIsObject
    <2>2. scan[Name(m)] # "no"
      BY DEF CoverInv, Owed
    <2>3. file[Name(m)] \in AnyFileKind
      BY <2>1 DEF TypeOK
    <2>4. file[Name(m)] \notin {"missing", "short"}
      BY <2>1, <2>2 DEF FileInv
    <2> QED
      BY <2>2, <2>3, <2>4 DEF FileInv, AnyFileKind, RefusedKind
  <1> QED
    BY <1>1, AllInit, FileInit, FilesStep, PTL DEF Spec

-----------------------------------------------------------------------------
(***************************************************************************)
(* Module Loader implements module Dependencies.                           *)
(***************************************************************************)
LEMMA LearnsInit == Init => Abstract!DepInit
  <1> SUFFICES ASSUME Init
               PROVE  Abstract!DepInit
    OBVIOUS
  <1>1. TypeOK
    BY TypeInit
  <1>2. \A o \in Object : Entries(needed[o]) \subseteq Lib
    BY <1>1, NeedsAreLibs DEF Entries
  <1>3. Entries(loaded) = {} /\ status = "running"
    BY DEF Init, Entries
  <1> QED
    BY <1>2, <1>3 DEF Abstract!DepInit, Abstract!Object, Object

LEMMA LearnsStep ==
  TypeOK /\ OrderInv /\ [Next]_vars => [Abstract!DepNext]_(Abstract!depVars)
  <1> SUFFICES ASSUME TypeOK, OrderInv, [Next]_vars
               PROVE  [Abstract!DepNext]_(Abstract!depVars)
    OBVIOUS
  <1> USE DEF Abstract!DepNext, Abstract!depVars, Abstract!Finish
  <1>1. ASSUME status = "running", UNCHANGED <<needed, loaded>>
        PROVE  [Abstract!DepNext]_(Abstract!depVars)
    BY <1>1
  <1>2. CASE NewManager
    <2> DEFINE name == Needs[top.dyn]
    <2>1. /\ stack # <<>> /\ status = "running" /\ top.dyn <= Len(Needs)
          /\ loaded' = Append(loaded, name)
          /\ UNCHANGED <<needed, status>>
      BY <1>2 DEF NewManager, Running, input
    <2>2. name \in Lib /\ name \notin Entries(loaded) /\ name # Root
      BY <1>2, NewNameIsLib, LoaderAssumption DEF NewManager, OrderInv
    <2>3. Entries(loaded') = Entries(loaded) \cup {name}
      BY <2>1, <2>2, AppendSeq DEF TypeOK
    <2>4. /\ Name(top.mgr) \in {Root} \cup Entries(loaded)
          /\ Name(top.mgr) \in Object
      BY <2>1, TopIsFrame, NameIsObject DEF Name, Entries
    <2>5. name \in Entries(needed[Name(top.mgr)])
      <3>1. top.dyn \in Nat \ {0}
        BY <2>1, TopIsFrame DEF Frame
      <3> QED
        BY <2>1, <2>4, <3>1, NeedsAreLibs DEF Needs, Entries
    <2> HIDE DEF name
    <2>6. Abstract!Learn
      BY <2>1, <2>2, <2>3, <2>4, <2>5 DEF Abstract!Learn
    <2> QED
      BY <2>6
  <1>3. CASE ReadDynamic \/ NoDynamic \/ NullHeader \/ AlreadyViewed
             \/ EndOfTable
    BY <1>1, <1>3 DEF ReadDynamic, NoDynamic, NullHeader, AlreadyViewed,
                      EndOfTable, Running, input
  <1>4. CASE Descend \/ EmptySlot \/ WildSlot \/ LeaveLoop
    BY <1>1, <1>4 DEF Descend, EmptySlot, WildSlot, LeaveLoop, Turn, Running,
                      input
  <1>5. CASE UNCHANGED vars
    BY <1>5 DEF vars
  <1> QED
    BY <1>2, <1>3, <1>4, <1>5 DEF Next, Stopped

\* load_dependencies gets to know objects one at a time, each because one
\* known before needs it, and none once it is over.
THEOREM LoaderRefinesDependencies == Spec => LearnsOnDemand
  <1>1. Init => TypeOK /\ OrderInv
    BY TypeInit, OrderInit
  <1>2. (TypeOK /\ OrderInv) /\ [Next]_vars => (TypeOK /\ OrderInv)'
    BY TypeStep, OrderStep
  <1> QED
    BY <1>1, <1>2, LearnsInit, LearnsStep, PTL
       DEF Spec, LearnsOnDemand, Abstract!DepSpec

\* Nothing is loaded that the first object does not need, directly or through
\* others: what is loaded lies in every closed set of objects it is in.
THEOREM NothingLoadedInVain == Spec => []OnlyWhatIsNeeded
  <1> USE DEF OnlyWhatIsNeeded, Abstract!OnlyWhatIsNeeded, Abstract!Closed
  <1>1. Abstract!DepInit => OnlyWhatIsNeeded
    BY DEF Abstract!DepInit
  <1>2. OnlyWhatIsNeeded /\ [Abstract!DepNext]_(Abstract!depVars)
          => OnlyWhatIsNeeded'
    <2> DEFINE known == {Root} \cup Entries(loaded)
               needs == [o \in Object |-> Entries(needed[o])]
    <2> SUFFICES ASSUME OnlyWhatIsNeeded,
                        [Abstract!DepNext]_(Abstract!depVars),
                        NEW S \in SUBSET Object, Root \in S,
                        \A o \in S : needs'[o] \subseteq S
                 PROVE  known' \subseteq S
      BY DEF Abstract!Object, Object
    <2>1. needs' = needs
      BY DEF Abstract!DepNext, Abstract!depVars, Abstract!Learn,
             Abstract!Finish
    <2>2. known \subseteq S
      BY <2>1 DEF Abstract!Object, Object
    <2>3. CASE known' = known
      BY <2>2, <2>3
    <2>4. CASE Abstract!Learn
      <3>1. PICK o \in known :
              \E n \in needs[o] \ known : known' = known \cup {n}
        BY <2>4 DEF Abstract!Learn
      <3>2. PICK n \in needs[o] \ known : known' = known \cup {n}
        BY <3>1
      <3>3. n \in S
        BY <2>1, <2>2, <3>1, <3>2
      <3> QED
        BY <2>2, <3>2, <3>3
    <2> QED
      BY <2>3, <2>4 DEF Abstract!DepNext, Abstract!depVars, Abstract!Finish
  <1> QED
    BY <1>1, <1>2, LoaderRefinesDependencies, PTL
       DEF LearnsOnDemand, Abstract!DepSpec


-----------------------------------------------------------------------------
\* No array of a Vector lies in a block of less than eight words.
LEMMA BlockHasMinSlots ==
  ASSUME NEW n \in Nat
  PROVE  BlockSlots(n) \in Nat /\ BlockSlots(n) >= MinSlots
  BY CapacityFacts DEF BlockSlots, MinSlots

LEMMA BlockStep ==
  TypeOK /\ SmallLoadsStayInBlock /\ [Next]_vars => SmallLoadsStayInBlock'
  <1> SUFFICES ASSUME TypeOK, SmallLoadsStayInBlock, [Next]_vars
               PROVE  SmallLoadsStayInBlock'
    OBVIOUS
  <1>1. CASE WildSlot
    <2>1. stack # <<>> /\ top.i < Len(loaded) /\ loaded' = loaded
          /\ top.i >= BlockSlots(Len(top.to_append))
      BY <1>1 DEF WildSlot, Turn, Running
    <2>2. top.to_append \in Seq(Nat) /\ top.i \in Nat
      BY <2>1, TopIsFrame DEF Frame
    <2>3. BlockSlots(Len(top.to_append)) \in Nat
          /\ BlockSlots(Len(top.to_append)) >= MinSlots
      BY <2>2, BlockHasMinSlots, SMTT(30)
    <2>4. Len(loaded) \in Nat
      BY DEF TypeOK
    <2>5. ~(Len(loaded) <= MinSlots)
      BY <2>1, <2>2, <2>3, <2>4 DEF MinSlots
    <2> QED
      BY <2>1, <2>5 DEF SmallLoadsStayInBlock
  <1>2. CASE Next /\ ~WildSlot /\ status = "running"
    <2>1. status' # "wild"
      BY <1>2 DEF Next, ReadDynamic, NoDynamic, NullHeader, NewManager,
                  AlreadyViewed, EndOfTable, Descend, EmptySlot, LeaveLoop,
                  Stopped, Running, Turn, Return
    <2> QED
      BY <2>1 DEF SmallLoadsStayInBlock
  <1>3. CASE Next /\ ~WildSlot /\ status # "running"
    <2>1. UNCHANGED vars
      BY <1>3 DEF Next, ReadDynamic, NoDynamic, NullHeader, NewManager,
                  AlreadyViewed, EndOfTable, Descend, EmptySlot, LeaveLoop,
                  Stopped, Running, Turn
    <2> QED
      BY <2>1 DEF SmallLoadsStayInBlock, vars
  <1>4. CASE UNCHANGED vars
    BY <1>4 DEF SmallLoadsStayInBlock, vars
  <1> QED
    BY <1>1, <1>2, <1>3, <1>4

\* The loop of load_dependencies, which runs past the end of to_append, does
\* not leave its block while no more than eight libraries are loaded, for
\* every graph and every way the vectors grow.
THEOREM FewLibrariesStayInBlock == Spec => []SmallLoadsStayInBlock
  <1>1. Init => SmallLoadsStayInBlock
    BY DEF Init, SmallLoadsStayInBlock
  <1> QED
    BY <1>1, BlockStep, TypeCorrect, PTL DEF Spec

-----------------------------------------------------------------------------
(***************************************************************************)
(* What the first object needs itself comes first in the search order: its *)
(* walk is over before anything else is read.                              *)
(***************************************************************************)
AllDiffer(s, k) == \A i, j \in 1..k : s[i] = s[j] => i = j

\* l begins with s, up to the first element s repeats.
StartsWith(l, s) ==
  \A k \in 1..Len(s) : AllDiffer(s, k) => k <= Len(l) /\ l[k] = s[k]

RootWalk(s, l, n) ==
  /\ s # <<>> => s[1].mgr = 0
  /\ s # <<>> /\ s[1].at = "entry" => Len(s) = 1 /\ l = <<>>
  /\ s # <<>> /\ s[1].at = "scan" =>
       /\ Len(s) = 1 /\ Len(l) = s[1].dyn - 1 /\ Len(l) <= Len(n)
       /\ \A k \in 1..Len(l) : l[k] = n[k]
  /\ s # <<>> /\ s[1].at = "loop" => StartsWith(l, n)

RootInv ==
  /\ RootWalk(stack, loaded, needed[Root])
  /\ stack = <<>> => file[Root] # "good" \/ StartsWith(loaded, needed[Root])

LEMMA RootInit == Init => RootInv
  BY ActivationType DEF Init, RootInv, RootWalk, Activation

\* What happens above the first frame leaves that frame alone.
LEMMA FirstFrameStays ==
  ASSUME stack \in Seq(Frame), Len(stack) > 1,
         \/ \E f \in Frame : stack' = Resume(f)
         \/ \E f, g \in Frame : stack' = Append(Resume(f), g)
         \/ stack' = SubSeq(stack, 1, Len(stack) - 1)
  PROVE  /\ stack' # <<>> /\ stack'[1] = stack[1]
         /\ stack # <<>> /\ stack[1] \in Frame
  <1>1. /\ stack # <<>> /\ Len(stack) \in Nat /\ 1 \in 1..(Len(stack) - 1)
        /\ stack[1] \in Frame
    OBVIOUS
  <1>2. ASSUME NEW f \in Frame, stack' = Resume(f)
        PROVE  Len(stack') = Len(stack) /\ stack'[1] = stack[1]
    BY <1>1, <1>2, ResumeSeq DEF Resume
  <1>3. ASSUME NEW f \in Frame, NEW g \in Frame, stack' = Append(Resume(f), g)
        PROVE  Len(stack') = Len(stack) + 1 /\ stack'[1] = stack[1]
    BY <1>1, <1>3, PushSeq DEF Resume
  <1>4. ASSUME stack' = SubSeq(stack, 1, Len(stack) - 1)
        PROVE  Len(stack') = Len(stack) - 1 /\ stack'[1] = stack[1]
    BY <1>1, <1>4, PopSeq
  <1>5. /\ stack'[1] = stack[1]
        /\ \/ Len(stack') = Len(stack) \/ Len(stack') = Len(stack) + 1
           \/ Len(stack') = Len(stack) - 1
    BY <1>2, <1>3, <1>4
  <1>6. Len(stack') > 0
    BY <1>1, <1>5
  <1>7. Len(<<>>) = 0
    OBVIOUS
  <1> QED
    BY <1>1, <1>5, <1>6, <1>7

LEMMA RootStep ==
  TypeOK /\ OrderInv /\ CoverInv /\ RootInv /\ [Next]_vars => RootInv'
  <1> SUFFICES ASSUME TypeOK, OrderInv, CoverInv, RootInv, [Next]_vars
               PROVE  /\ RootWalk(stack', loaded', needed'[Root])
                      /\ stack' = <<>> => file'[Root] # "good" \/
                                          StartsWith(loaded', needed'[Root])
    BY DEF RootInv
  <1> DEFINE n == needed[Root]
  <1>1. UNCHANGED <<needed, file>>
    BY DEF Next, vars, input, ReadDynamic, NoDynamic, NullHeader, NewManager,
           AlreadyViewed, EndOfTable, Descend, EmptySlot, WildSlot, LeaveLoop,
           Stopped
  <1>2. /\ RootWalk(stack, loaded, n)
        /\ stack = <<>> => file[Root] # "good" \/ StartsWith(loaded, n)
    BY DEF RootInv
  <1>3. /\ loaded \in Seq(Lib) /\ stack \in Seq(Frame) /\ n \in Seq(Lib)
        /\ Root \in Object
    BY LoaderAssumption DEF TypeOK, Object
  <1>4. CASE UNCHANGED vars \/ NullHeader \/ WildSlot \/ Stopped
    BY <1>1, <1>2, <1>4 DEF vars, NullHeader, WildSlot, Stopped, input
  <1>5. /\ Len(stack) \in Nat /\ Len(loaded) \in Nat /\ Len(n) \in Nat
        /\ stack # <<>> => Len(stack) # 0
        /\ Len(stack) > 1 => Len(stack) # 0
    BY <1>3, EmptySeq
  <1>6. Len(stack) # 0 => (Len(stack) = 1 <=> ~(Len(stack) > 1))
    <2>1. PICK k \in Nat : k = Len(stack)
      BY <1>5
    <2>2. k # 0 => (k = 1 <=> ~(k > 1))
      OBVIOUS
    <2> QED
      BY <2>1, <2>2
  <1>7. ASSUME Len(stack) > 1,
               \/ loaded' = loaded
               \/ \E name \in Lib : loaded' = Append(loaded, name),
               \/ \E f \in Frame : stack' = Resume(f)
               \/ \E f, g \in Frame : stack' = Append(Resume(f), g)
               \/ stack' = SubSeq(stack, 1, Len(stack) - 1)
        PROVE  /\ RootWalk(stack', loaded', n)
               /\ stack' # <<>>
    <2>1. /\ stack' # <<>> /\ stack'[1] = stack[1]
          /\ stack # <<>> /\ stack[1] \in Frame
      BY <1>3, <1>7, FirstFrameStays
    <2>2. stack[1].at = "loop" /\ stack[1].mgr = 0 /\ StartsWith(loaded, n)
      <3>1. /\ stack[1].mgr = 0
            /\ stack[1].at = "entry" => Len(stack) = 1
            /\ stack[1].at = "scan" => Len(stack) = 1
            /\ stack[1].at = "loop" => StartsWith(loaded, n)
        BY <1>2, <2>1 DEF RootWalk
      <3>2. stack[1].at \in {"entry", "scan", "loop"}
        BY <2>1 DEF Frame
      <3>3. Len(stack) # 1
        BY <1>7, <1>6
      <3> QED
        BY <3>1, <3>2, <3>3
    <2>3. StartsWith(loaded', n)
      <3>1. CASE loaded' = loaded
        BY <2>2, <3>1
      <3>2. ASSUME NEW name \in Lib, loaded' = Append(loaded, name)
            PROVE  StartsWith(loaded', n)
        <4>1. /\ Len(loaded') = Len(loaded) + 1 /\ Len(loaded) \in Nat
              /\ \A k \in 1..Len(loaded) : loaded'[k] = loaded[k]
          BY <1>3, <3>2, AppendSeq
        <4>2. ASSUME NEW k \in 1..Len(n), AllDiffer(n, k)
              PROVE  k <= Len(loaded') /\ loaded'[k] = n[k]
          <5>1. k <= Len(loaded) /\ loaded[k] = n[k] /\ k \in Nat \ {0}
            BY <1>3, <2>2, <4>2 DEF StartsWith
          <5> QED
            BY <4>1, <5>1
        <4> QED
          BY <4>2 DEF StartsWith
      <3> QED
        BY <1>7, <3>1, <3>2
    <2> QED
      BY <2>1, <2>2, <2>3 DEF RootWalk
  <1>8. ASSUME stack # <<>>, Len(stack) = 1
        PROVE  /\ top = stack[1] /\ top \in Frame /\ top.mgr = 0
               /\ Name(top.mgr) = Root /\ Needs = n
    <2>1. top = stack[1] /\ top \in Frame
      BY <1>8, TopIsFrame
    <2>2. stack[1].mgr = 0
      BY <1>2, <1>8 DEF RootWalk
    <2> QED
      BY <2>1, <2>2 DEF Name, Needs
  <1>9. ASSUME stack # <<>>, Len(stack) = 1, NEW f \in Frame,
               stack' = Resume(f)
        PROVE  stack' # <<>> /\ Len(stack') = 1 /\ stack'[1] = f
    BY <1>3, <1>9, ResumeSeq DEF Resume
  <1>10. ASSUME stack # <<>>
        PROVE  Len(stack) = 1 \/ Len(stack) > 1
    BY <1>5, <1>6, <1>10
  <1>11. CASE ReadDynamic
    <2> DEFINE f == [top EXCEPT !.at = "scan"]
    <2>1. /\ stack # <<>> /\ top.at = "entry" /\ stack' = Resume(f)
          /\ loaded' = loaded
      BY <1>11 DEF ReadDynamic, Running
    <2>2. /\ f \in Frame /\ f.mgr = top.mgr /\ f.at = "scan"
          /\ f.dyn = top.dyn
      BY <2>1, TopIsFrame, FrameTurns
    <2> HIDE DEF f
    <2>3. CASE Len(stack) > 1
      BY <1>1, <1>7, <2>1, <2>2, <2>3
    <2>4. CASE Len(stack) = 1
      <3>1. stack' # <<>> /\ Len(stack') = 1 /\ stack'[1] = f
        BY <1>9, <2>1, <2>2, <2>4
      <3>2. loaded' = <<>> /\ f.mgr = 0
        BY <1>2, <1>8, <2>1, <2>2, <2>4 DEF RootWalk
      <3>3. f.dyn = 1
        BY <1>8, <2>1, <2>2, <2>4 DEF CoverInv, WalkOK
      <3>4. RootWalk(stack', loaded', n)
        BY <1>5, <2>2, <3>1, <3>2, <3>3 DEF RootWalk
      <3> QED
        BY <1>1, <3>1, <3>4
    <2> QED
      BY <1>10, <2>1, <2>3, <2>4
  <1>12. ASSUME NEW f \in Frame, stack # <<>>, stack' = Resume(f),
                loaded' = loaded, f.mgr = top.mgr,
                top.at = "loop" /\ f.at = "loop"
         PROVE  /\ RootWalk(stack', loaded', n)
                /\ stack' # <<>>
    <2>1. CASE Len(stack) > 1
      BY <1>1, <1>7, <1>12, <2>1
    <2>2. CASE Len(stack) = 1
      <3>1. stack' # <<>> /\ Len(stack') = 1 /\ stack'[1] = f
        BY <1>9, <1>12, <2>2
      <3>2. f.mgr = 0 /\ StartsWith(loaded, n)
        BY <1>2, <1>8, <1>12, <2>2 DEF RootWalk
      <3> QED
        BY <1>12, <3>1, <3>2 DEF RootWalk
    <2> QED
      BY <1>10, <1>12, <2>1, <2>2
  <1>13. CASE NewManager
    <2> DEFINE name == Needs[top.dyn]
               f == [top EXCEPT !.dyn = @ + 1,
                                !.to_append = Append(@, Len(loaded) + 1)]
    <2>1. /\ stack # <<>> /\ top.at = "scan" /\ stack' = Resume(f)
          /\ top.dyn <= Len(Needs) /\ loaded' = Append(loaded, name)
      BY <1>13 DEF NewManager, Running
    <2>2. /\ f \in Frame /\ f.mgr = top.mgr /\ f.at = "scan"
          /\ f.dyn = top.dyn + 1 /\ top.dyn \in Nat \ {0}
      <3>1. top \in Frame /\ Len(loaded) + 1 \in Nat
        BY <1>5, <2>1, TopIsFrame
      <3> QED
        BY <2>1, <3>1, FrameAppends DEF Frame
    <2>3. name \in Lib
      BY <1>13, NewNameIsLib
    <2> HIDE DEF f, name
    <2>4. CASE Len(stack) > 1
      BY <1>1, <1>7, <2>1, <2>2, <2>3, <2>4
    <2>5. CASE Len(stack) = 1
      <3>1. stack' # <<>> /\ Len(stack') = 1 /\ stack'[1] = f
        BY <1>9, <2>1, <2>2, <2>5
      <3>2. /\ Len(loaded) = top.dyn - 1 /\ f.mgr = 0
            /\ \A k \in 1..Len(loaded) : loaded[k] = n[k]
        BY <1>2, <1>8, <2>1, <2>2, <2>5 DEF RootWalk
      <3>3. top.dyn <= Len(n) /\ name = n[top.dyn]
        BY <1>8, <2>1, <2>5 DEF name
      <3>4. /\ Len(loaded') = top.dyn /\ loaded'[top.dyn] = name
            /\ \A k \in 1..Len(loaded) : loaded'[k] = loaded[k]
        BY <1>3, <2>1, <2>2, <2>3, <3>2, AppendSeq
      <3>5. \A k \in 1..Len(loaded') : loaded'[k] = n[k]
        BY <2>2, <3>2, <3>3, <3>4
      <3>6. Len(loaded') = f.dyn - 1 /\ Len(loaded') <= Len(n)
        BY <2>2, <3>3, <3>4
      <3>7. RootWalk(stack', loaded', n)
        BY <2>2, <3>1, <3>2, <3>5, <3>6 DEF RootWalk
      <3> QED
        BY <1>1, <3>1, <3>7
    <2> QED
      BY <1>10, <2>1, <2>4, <2>5
  <1>14. CASE AlreadyViewed \/ EndOfTable
    <2> DEFINE f == [top EXCEPT !.at = "loop"]
    <2>1. /\ stack # <<>> /\ top.at = "scan" /\ stack' = Resume(f)
          /\ loaded' = loaded
          /\ \/ top.dyn > Len(Needs)
             \/ top.dyn <= Len(Needs) /\ Needs[top.dyn] \in Entries(viewed)
      BY <1>14 DEF AlreadyViewed, EndOfTable, Running
    <2>2. /\ f \in Frame /\ f.mgr = top.mgr /\ f.at = "loop"
          /\ top.dyn \in Nat \ {0}
      BY <2>1, TopIsFrame, FrameTurns DEF Frame
    <2> HIDE DEF f
    <2>3. CASE Len(stack) > 1
      BY <1>1, <1>7, <2>1, <2>2, <2>3
    <2>4. CASE Len(stack) = 1
      <3>1. stack' # <<>> /\ Len(stack') = 1 /\ stack'[1] = f
        BY <1>9, <2>1, <2>2, <2>4
      <3>2. /\ Len(loaded) = top.dyn - 1 /\ f.mgr = 0 /\ Len(loaded) <= Len(n)
            /\ \A k \in 1..Len(loaded) : loaded[k] = n[k]
        BY <1>2, <1>8, <2>1, <2>2, <2>4 DEF RootWalk
      <3>3. ASSUME NEW k \in 1..Len(n), AllDiffer(n, k), k >= top.dyn
            PROVE  FALSE
        <4>1. n[top.dyn] \in Entries(viewed)
          BY <1>5, <1>8, <2>1, <2>2, <2>4, <3>3
        <4>2. PICK i \in 1..Len(loaded) : n[top.dyn] = loaded[i]
          BY <4>1 DEF OrderInv, Entries
        <4>3. /\ n[top.dyn] = n[i] /\ i # top.dyn
              /\ i \in 1..k /\ top.dyn \in 1..k
          BY <1>5, <2>2, <3>2, <3>3, <4>2
        <4> QED
          BY <3>3, <4>3 DEF AllDiffer
      <3>4. ASSUME NEW k \in 1..Len(n), AllDiffer(n, k)
            PROVE  k <= Len(loaded) /\ loaded[k] = n[k]
        <4>1. k < top.dyn
          BY <1>5, <2>2, <3>3, <3>4
        <4> QED
          BY <1>5, <2>2, <3>2, <4>1
      <3>5. StartsWith(loaded, n)
        BY <3>4 DEF StartsWith
      <3> QED
        BY <1>1, <2>1, <2>2, <3>1, <3>2, <3>5 DEF RootWalk
    <2> QED
      BY <1>10, <2>1, <2>3, <2>4
  <1>15. CASE EmptySlot
    <2> DEFINE f == [top EXCEPT !.i = @ + 1]
    <2>1. /\ stack # <<>> /\ top.at = "loop" /\ stack' = Resume(f)
          /\ loaded' = loaded
      BY <1>15 DEF EmptySlot, Turn, Running
    <2>2. f \in Frame /\ f.mgr = top.mgr /\ f.at = top.at
      BY <2>1, TopIsFrame, FrameAdvances
    <2> HIDE DEF f
    <2> QED
      BY <1>1, <1>12, <2>1, <2>2
  <1>16. CASE Descend
    <2> DEFINE f == [top EXCEPT !.i = @ + 1]
               g == Activation(top.to_append[top.i + 1])
    <2>1. /\ stack # <<>> /\ top.at = "loop" /\ stack' = Append(Resume(f), g)
          /\ loaded' = loaded /\ top.i < Len(top.to_append)
      BY <1>16 DEF Descend, Turn, Running
    <2>2. f \in Frame /\ f.mgr = top.mgr /\ f.at = top.at
      BY <2>1, TopIsFrame, FrameAdvances
    <2>3. g \in Frame
      <3>1. top.to_append \in Seq(Nat) /\ top.i \in Nat
        BY <2>1, TopIsFrame DEF Frame
      <3>2. top.to_append[top.i + 1] \in Nat
        BY <2>1, <3>1
      <3> QED
        BY <3>2, ActivationType
    <2> HIDE DEF f, g
    <2>4. CASE Len(stack) > 1
      BY <1>1, <1>7, <2>1, <2>2, <2>3, <2>4
    <2>5. CASE Len(stack) = 1
      <3>1. /\ Len(stack') = Len(stack) + 1 /\ stack'[Len(stack)] = f
            /\ stack' \in Seq(Frame)
        BY <1>3, <2>1, <2>2, <2>3, PushSeq DEF Resume
      <3>2. stack' # <<>>
        <4>1. Len(stack') = 2 /\ Len(<<>>) = 0
          BY <2>5, <3>1
        <4> QED
          BY <4>1
      <3>3. stack' # <<>> /\ stack'[1] = f /\ Len(stack') = 2
        <4>1. Len(stack') = 2 /\ stack'[1] = f
          BY <2>5, <3>1
        <4> QED
          BY <3>2, <4>1
      <3>4. f.mgr = 0 /\ StartsWith(loaded, n)
        BY <1>2, <1>8, <2>1, <2>2, <2>5 DEF RootWalk
      <3> QED
        BY <1>1, <2>1, <2>2, <3>3, <3>4 DEF RootWalk
    <2> QED
      BY <1>10, <2>1, <2>4, <2>5
  <1>17. CASE NoDynamic \/ LeaveLoop
    <2>1. /\ stack # <<>> /\ loaded' = loaded
          /\ stack' = SubSeq(stack, 1, Len(stack) - 1)
          /\ \/ file[Name(top.mgr)] # "good"
             \/ top.at = "loop"
      BY <1>17 DEF NoDynamic, LeaveLoop, Running, Return
    <2>2. CASE Len(stack) > 1
      BY <1>1, <1>7, <2>1, <2>2
    <2>3. CASE Len(stack) = 1
      <3>1. stack' = <<>>
        <4>1. Len(stack') = 0 /\ stack' \in Seq(Frame)
          BY <1>3, <2>1, <2>3, PopSeq
        <4> QED
          BY <4>1, EmptySeq
      <3>2. file[Root] # "good" \/ StartsWith(loaded, n)
        BY <1>2, <1>8, <2>1, <2>3 DEF RootWalk
      <3>3. RootWalk(stack', loaded', n)
        BY <3>1 DEF RootWalk
      <3> QED
        BY <1>1, <2>1, <3>2, <3>3
    <2> QED
      BY <1>10, <2>1, <2>2, <2>3
  <1> QED
    BY <1>4, <1>11, <1>13, <1>14, <1>15, <1>16, <1>17 DEF Next

\* What the first object needs itself, up to the first name it repeats, is at
\* the head of the search list in the order it lists it, once loading is done:
\* load_dependencies pushes a manager per entry before it descends into one.
DirectNeedsFirst ==
  status = "done" /\ file[Root] = "good" =>
    StartsWith(loaded, needed[Root])

THEOREM DirectNeedsComeFirst == Spec => []DirectNeedsFirst
  <1> DEFINE I == TypeOK /\ OrderInv /\ CoverInv /\ RootInv
  <1>1. Init => I
    BY AllInit, RootInit
  <1>2. I /\ [Next]_vars => I'
    BY AllStep, RootStep
  <1>3. I => DirectNeedsFirst
    BY DEF CoverInv, RootInv, DirectNeedsFirst
  <1> QED
    BY <1>1, <1>2, <1>3, PTL DEF Spec

-----------------------------------------------------------------------------
(***************************************************************************)
(* What a caller in the role of ld_main or debug_main is left with.        *)
(***************************************************************************)
\* dependencies_ is empty until the outermost activation returns; then it is
\* the whole of `loaded`, unless my_dlopen is the caller.
DepInv ==
  dependencies = IF stack = <<>> /\ role # "dlopen" THEN loaded ELSE <<>>

\* Only a header that was not read, or not an ELF header, ends the process.
CrashInv ==
  status = "crashed" =>
    \E m \in Manager : file[Name(m)] \in {"missing", "short", "badmagic"}

LEMMA LeftInit == Init => DepInv /\ CrashInv
  BY DEF Init, DepInv, CrashInv

LEMMA DepStep ==
  TypeOK /\ OrderInv /\ RootInv /\ DepInv /\ [Next]_vars => DepInv'
  <1> SUFFICES ASSUME TypeOK, OrderInv, RootInv, DepInv, [Next]_vars
               PROVE  DepInv'
    OBVIOUS
  <1>1. role' = role /\ role \in {"main", "debug", "dlopen"}
    BY LoaderAssumption
       DEF Next, vars, input, ReadDynamic, NoDynamic, NullHeader, NewManager,
           AlreadyViewed, EndOfTable, Descend, EmptySlot, WildSlot, LeaveLoop,
           Stopped, TypeOK
  <1>2. stack \in Seq(Frame) /\ (stack # <<>> => Len(stack) \in Nat \ {0})
    BY EmptySeq DEF TypeOK
  <1>3. CASE UNCHANGED <<dependencies, stack, loaded>>
    BY <1>1, <1>3 DEF DepInv
  <1>4. ASSUME stack # <<>>, stack' # <<>>, dependencies' = dependencies
        PROVE  DepInv'
    BY <1>4 DEF DepInv
  <1>5. ASSUME NEW f \in Frame, stack # <<>>, stack' = Resume(f),
               dependencies' = dependencies
        PROVE  DepInv'
    <2>1. Len(stack') = Len(stack)
      BY <1>2, <1>5, ResumeSeq DEF Resume
    <2>2. stack' # <<>>
      BY <1>2, <1>5, <2>1
    <2> QED
      BY <1>4, <1>5, <2>2
  <1>6. CASE ReadDynamic \/ AlreadyViewed \/ EndOfTable
    <2>1. /\ stack # <<>> /\ dependencies' = dependencies
          /\ \/ stack' = Resume([top EXCEPT !.at = "scan"])
             \/ stack' = Resume([top EXCEPT !.at = "loop"])
      BY <1>6 DEF ReadDynamic, AlreadyViewed, EndOfTable, Running
    <2>2. /\ [top EXCEPT !.at = "scan"] \in Frame
          /\ [top EXCEPT !.at = "loop"] \in Frame
      BY <2>1, TopIsFrame, FrameTurns
    <2> QED
      BY <1>5, <2>1, <2>2
  <1>7. CASE NewManager
    <2> DEFINE f == [top EXCEPT !.dyn = @ + 1,
                                !.to_append = Append(@, Len(loaded) + 1)]
    <2>1. /\ stack # <<>> /\ stack' = Resume(f) /\ dependencies' = dependencies
      BY <1>7 DEF NewManager, Running
    <2>2. f \in Frame
      <3>1. top \in Frame /\ Len(loaded) + 1 \in Nat
        BY <2>1, TopIsFrame DEF TypeOK
      <3> QED
        BY <3>1, FrameAppends
    <2> HIDE DEF f
    <2> QED
      BY <1>5, <2>1, <2>2
  <1>8. CASE EmptySlot
    <2>1. /\ stack # <<>> /\ stack' = Resume([top EXCEPT !.i = @ + 1])
          /\ dependencies' = dependencies
      BY <1>8 DEF EmptySlot, Turn, Running
    <2>2. [top EXCEPT !.i = @ + 1] \in Frame
      BY <2>1, TopIsFrame, FrameAdvances
    <2> QED
      BY <1>5, <2>1, <2>2
  <1>9. CASE Descend
    <2> DEFINE s == Resume([top EXCEPT !.i = @ + 1])
               g == Activation(top.to_append[top.i + 1])
    <2>1. stack # <<>> /\ stack' = Append(s, g) /\ dependencies' = dependencies
      BY <1>9 DEF Descend, Turn, Running
    <2>2. [top EXCEPT !.i = @ + 1] \in Frame
      BY <2>1, TopIsFrame, FrameAdvances
    <2>3. s \in Seq(Frame)
      BY <1>2, <2>1, <2>2, ResumeSeq DEF Resume
    <2> HIDE DEF s, g
    <2>4. stack' # <<>>
      BY <2>1, <2>3
    <2> QED
      BY <1>4, <2>1, <2>4
  <1>10. CASE NoDynamic \/ LeaveLoop
    <2>1. stack # <<>> /\ stack' = SubSeq(stack, 1, Len(stack) - 1)
          /\ loaded' = loaded /\ dependencies = <<>>
      BY <1>10 DEF NoDynamic, LeaveLoop, Running, Return, DepInv
    <2>2. PICK n \in Nat \ {0} : n = Len(stack)
      BY <1>2, <2>1
    <2>3. Len(stack') = n - 1 /\ stack' \in Seq(Frame)
      BY <1>2, <2>1, <2>2, PopSeq
    <2>4. /\ stack[1].mgr = 0 /\ top = stack[n] /\ top \in Frame
          /\ stack[1].at = "entry" => loaded = <<>>
      BY <2>1, <2>2, TopIsFrame DEF RootInv, RootWalk, top
    <2>5. CASE n = 1
      <3>1. stack' = <<>>
        BY <2>3, <2>5, EmptySeq
      <3>2. CASE NoDynamic
        BY <1>1, <2>1, <2>4, <2>5, <3>1, <3>2 DEF NoDynamic, Running, DepInv
      <3>3. CASE LeaveLoop
        BY <1>1, <2>1, <2>4, <2>5, <3>1, <3>3 DEF LeaveLoop, DepInv
      <3> QED
        BY <1>10, <3>2, <3>3
    <2>6. CASE n > 1
      <3>1. stack' # <<>>
        <4>1. Len(stack') # 0 /\ Len(<<>>) = 0
          BY <2>3, <2>6
        <4> QED
          BY <4>1
      <3>2. top.mgr # 0
        <4>1. 1 \in 1..Len(stack) /\ n \in 1..Len(stack) /\ 1 < n
          BY <2>2, <2>6
        <4>2. stack[1].mgr < stack[n].mgr
          BY <4>1 DEF OrderInv, Ordered, OlderBelow
        <4> QED
          BY <2>4, <4>2
      <3>3. dependencies' = dependencies
        BY <1>10, <3>2 DEF NoDynamic, LeaveLoop
      <3> QED
        BY <1>4, <2>1, <3>1, <3>3
    <2> QED
      BY <2>2, <2>5, <2>6
  <1> QED
    BY <1>3, <1>6, <1>7, <1>8, <1>9, <1>10
       DEF Next, vars, NullHeader, WildSlot, Stopped

LEMMA CrashStep == TypeOK /\ CrashInv /\ [Next]_vars => CrashInv'
  <1> SUFFICES ASSUME TypeOK, CrashInv, [Next]_vars, status' = "crashed"
               PROVE  (\E m \in Manager :
                         file[Name(m)] \in {"missing", "short", "badmagic"})'
    BY DEF CrashInv
  <1>1. CASE NullHeader
    <2>1. /\ stack # <<>> /\ file[Name(top.mgr)] \in {"missing", "short", "badmagic"}
          /\ UNCHANGED <<file, loaded>>
      BY <1>1 DEF NullHeader, Running, input
    <2>2. top.mgr \in Manager
      <3>1. Len(stack) \in 1..Len(stack)
        BY <2>1, EmptySeq DEF TypeOK
      <3> QED
        BY <3>1 DEF TypeOK, top
    <2> QED
      BY <2>1, <2>2 DEF Manager, Name
  <1>2. CASE ~NullHeader
    <2>1. status = "crashed" /\ UNCHANGED <<file, loaded>>
      BY <1>2 DEF Next, vars, input, ReadDynamic, NoDynamic, Return, Running,
         NewManager, AlreadyViewed, EndOfTable, Descend, EmptySlot, WildSlot,
         LeaveLoop, Stopped, Turn
    <2> QED
      BY <2>1 DEF CrashInv, Manager, Name
  <1> QED
    BY <1>1, <1>2
=============================================================================

----------------------------- MODULE MCProcess -----------------------------
(***************************************************************************)
(* Instances of Process: a program and two libraries, two symbols, strings *)
(* of a few letters, pages and addresses small enough to be enumerated.    *)
(***************************************************************************)
EXTENDS Process

CONSTANTS a, b, Prog, x, y

Libs == {a, b}
Syms == {x, y}

L == 76
T == 84
One == 49
OneText == <<One>>
LT == <<L, T>>
Entry(name, value) == name \o <<Equals>> \o value

Objects(p, q, r) == [o \in {a, b, Prog} |-> CASE o = Prog -> p [] o = a -> q [] o = b -> r]

Graphs ==
  {Objects(p, q, r) : p \in {<<>>, <<a>>, <<a, b>>, <<b, a>>,
                           <<a, a, b>>},
                      q \in {<<>>, <<b>>}, r \in {<<>>, <<a>>}}
AllGood == Objects("good", "good", "good")
Kinds == {"good", "missing", "short", "badmagic", "oneload", "nodynamic"}
FileKinds ==
  {Objects("good", q, r) : q \in Kinds, r \in {"good", "oneload"}}
  \cup {Objects("nodynamic", "good", "good")}

Plt(syms) == <<<<>>, syms>>
Tables ==
  {Objects(p, q, r) :
     p \in {Plt(<<x>>), <<<<y>>, <<x>>>>},
     q \in {Plt(<<>>), Plt(<<y>>)},
     r \in {Plt(<<>>), Plt(<<x>>)}}
Defs == {Objects({}, q, r) : q \in SUBSET Syms, r \in SUBSET Syms}

\* AT_PHNUM is 5; that there are nine headers is a value and no type.
Aux(entry_) == <<5, 9, AT_PHDR, 64, AT_ENTRY, entry_, AT_NULL, 0>>

Case(args, envp, entry_, debug, garbage, g, f, d, t, api) ==
  [args |-> args, env |-> envp, aux |-> Aux(entry_), debug |-> debug,
   garbage |-> garbage, pie |-> FALSE, needed |-> g, file |-> f, defs |-> d,
   table |-> t, api |-> api]

Args == {<<LT>>, <<LT, <<L>>>>, <<LT, <<L>>, <<T>>>>}
\* The variable first, last, twice, off, unset, misspelt, without '='; and a
\* variable whose name is a part of it.
Envs ==
  {<<>>, <<Entry(LT, <<One>>)>>, <<Entry(<<T>>, <<L>>), Entry(LT, <<One>>)>>,
   <<Entry(LT, <<48>>), Entry(LT, <<One>>)>>, <<Entry(LT, <<One, One>>)>>,
   <<Entry(LT \o <<T>>, <<One>>)>>, <<LT>>, <<Entry(<<>>, LT)>>,
   <<Entry(<<L>>, <<One>>)>>, <<Entry(<<L>>, <<48>>), Entry(LT, <<One>>)>>}

Diamond == Objects(<<a, b>>, <<b>>, <<>>)
Chain == Objects(Plt(<<x>>), Plt(<<y>>), Plt(<<>>))
XY == Objects({}, {x}, {y})

StartCases ==
  {Case(args, envp, 40, debug, {}, Diamond, AllGood, XY, Chain, FALSE) :
     args \in Args, envp \in Envs, debug \in BOOLEAN}
  \cup
  {Case(args, <<>>, e, TRUE, z, Diamond, AllGood, XY, Chain, FALSE) :
     args \in Args, e \in {300, 512}, z \in {{}, {"error_"}}}
\* What is left on the stack; with a program that writes, one whose only symbol
\* nobody defines and one without relocations; and position-independent ones.
StackCases ==
  {Case(<<LT>>, <<>>, 40, debug, z, Diamond, AllGood, d, t, FALSE) :
     debug \in BOOLEAN, z \in SUBSET {"segment_", "name_"},
     d \in {XY, Objects({}, {}, {y})},
     t \in {Chain, Objects(Plt(<<>>), Plt(<<y>>), Plt(<<>>))}}
  \cup
  {[Case(args, <<>>, 40, TRUE, z, Diamond, AllGood, XY, Chain, FALSE)
      EXCEPT !.pie = TRUE] : args \in Args, z \in {{}, {"error_"}}}
LinkCases ==
  {Case(<<LT>>, <<>>, 40, FALSE, {}, g, AllGood, d, t, FALSE) :
     g \in Graphs, d \in Defs, t \in Tables}
FileCases ==
  {Case(args, envp, 40, TRUE, {}, g, f, XY, Chain, FALSE) :
     args \in {<<LT>>, <<LT, <<L>>>>}, envp \in {<<>>, <<Entry(LT, <<One>>)>>},
     g \in {Diamond, Objects(<<b, a>>, <<>>, <<a>>)}, f \in FileKinds}
  \cup
  {Case(<<LT, <<L>>>>, <<>>, 40, TRUE, {}, Diamond,
        Objects(p, "good", "good"), XY, Chain, FALSE) : p \in Kinds}
ApiCases ==
  {Case(<<LT>>, <<>>, 40, FALSE, {}, Objects(g, <<>>, <<>>), AllGood, XY,
        Objects(Plt(<<>>), Plt(<<>>), Plt(<<>>)), TRUE) : g \in {<<>>, <<a>>}}

AllCases == StartCases \cup StackCases \cup LinkCases \cup FileCases \cup ApiCases

-----------------------------------------------------------------------------
A == 65
B == 66
AllNames == {<<A>>, <<B>>, <<Slash, A>>, <<B, Slash, A>>, <<B, Slash, B>>,
             <<B, Slash>>, <<>>, <<Slash, B>>, <<A, Slash, A>>, <<A, Slash, B>>}

Library(kind, needs, table, symbols) ==
  [kind |-> kind, needs |-> needs, table |-> table, symbols |-> symbols]
Alone == Library("good", <<>>, <<<<>>, <<>>>>, [s \in {x, y} |-> IF s = x THEN 7 ELSE 0])
\* Needs that cannot be opened, that are no ELF64 file, and more needs than a
\* minimal block and than any block has slots.
TheDisk ==
  [p \in {<<A>>, <<46, 47, A>>, <<46, 47, B>>, <<Slash, A>>, <<B, Slash, A>>,
          <<B, Slash, B>>, <<Slash, B>>, <<A, Slash, A>>, <<A, Slash, B>>} |->
     CASE p \in {<<A>>, <<46, 47, A>>} -> Alone
       [] p = <<46, 47, B>> -> Library("good", <<"good", "oneload">>,
                                       <<<<NONE, x>>, <<>>>>, [s \in {x} |-> 9])
       [] p = <<Slash, A>> -> Library("good", <<"good">>, <<<<>>, <<x>>>>, [s \in {x} |-> 1])
       [] p = <<B, Slash, A>> -> Library("good", <<"missing">>, <<<<>>, <<>>>>, [s \in {} |-> 1])
       [] p = <<Slash, B>> -> Library("good", <<"badmagic">>, <<<<>>, <<>>>>, [s \in {} |-> 1])
       [] p = <<A, Slash, A>> -> Library("good", [k \in 1..9 |-> "good"], <<<<>>, <<>>>>,
                                         [s \in {y} |-> 3])
       [] p = <<A, Slash, B>> -> Library("good", [k \in 1..23 |-> "oneload"], <<<<>>, <<>>>>,
                                         [s \in {} |-> 1])
       [] p = <<B, Slash, B>> -> Library("oneload", <<>>, <<<<>>, <<>>>>, [s \in {} |-> 1])]
=============================================================================

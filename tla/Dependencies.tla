---------------------------- MODULE Dependencies ----------------------------
(***************************************************************************)
(* What load_dependencies promises: starting from one object, it gets to   *)
(* know objects one at a time, each because an object known before needs   *)
(* it and none twice, and then it is over.  Which objects it has not got   *)
(* to know by then is left open; module Loader says what the code does.    *)
(***************************************************************************)
CONSTANTS Lib, Root

Object == Lib \cup {Root}

VARIABLES
  needs,   \* the names in each object's DT_NEEDED entries
  known,   \* the objects a manager exists for
  over     \* load_dependencies has returned, or the process has died

depVars == <<needs, known, over>>

DepInit ==
  /\ needs \in [Object -> SUBSET Lib]
  /\ known = {Root}
  /\ over = FALSE

Learn ==
  /\ ~over
  /\ \E o \in known : \E n \in needs[o] \ known : known' = known \cup {n}
  /\ UNCHANGED <<needs, over>>

Finish == ~over /\ over' = TRUE /\ UNCHANGED <<needs, known>>

DepNext == Learn \/ Finish
DepSpec == DepInit /\ [][DepNext]_depVars

-----------------------------------------------------------------------------
\* A set of objects that needs nothing outside itself.
Closed(S) == \A o \in S : needs[o] \subseteq S

\* Nothing is known that the first object does not need, directly or through
\* others: what is known lies in every closed set the first object is in.
OnlyWhatIsNeeded ==
  \A S \in SUBSET Object : Root \in S /\ Closed(S) => known \subseteq S
=============================================================================

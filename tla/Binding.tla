------------------------------ MODULE Binding ------------------------------
(***************************************************************************)
(* What link_dependencies promises, with no tables, no search and no       *)
(* recursion: the slots of the objects that the first one uses in the end  *)
(* are bound one at a time, each once and for good, to what it names, and  *)
(* never to an object that still has slots to bind.  Then there is a       *)
(* verdict, which is about the first object alone.  When the linker dies   *)
(* before that is left open; module Linker says what the code does.        *)
(***************************************************************************)
CONSTANT Object   \* 0 is the first one

VARIABLES
  names,    \* the object each slot names, 0 if there is none; s[1] is s's own
  bound,    \* the object each slot that is bound points into
  verdict   \* linking, accepted, refused or dead

bindVars == <<names, bound, verdict>>

\* A set of objects that uses nothing outside itself.
Closed(S) ==
  \A s \in DOMAIN names : s[1] \in S /\ names[s] # 0 => names[s] \in S

\* What the first object uses, directly or through others.
Used == {o \in Object : \A S \in SUBSET Object : 0 \in S /\ Closed(S) => o \in S}

\* Whatever slot of object o names anything is bound.
Done(o) == \A s \in DOMAIN names : s[1] = o /\ names[s] # 0 => s \in DOMAIN bound

BindInit ==
  /\ \A s \in DOMAIN names : names[s] \in Object
  /\ DOMAIN bound = {}
  /\ verdict = "linking"

Bind(s) ==
  /\ verdict = "linking"
  /\ s[1] \in Used
  /\ names[s] # 0
  /\ names[s] # s[1] => Done(names[s])
  /\ bound' = [z \in DOMAIN bound \cup {s} |->
                 IF z = s THEN names[s] ELSE bound[z]]
  /\ UNCHANGED <<names, verdict>>

Judge ==
  /\ verdict = "linking"
  /\ \A o \in Used : Done(o)
  /\ verdict' = IF \E s \in DOMAIN names : s[1] = 0 /\ names[s] = 0
                THEN "refused" ELSE "accepted"
  /\ UNCHANGED <<names, bound>>

Die == verdict = "linking" /\ verdict' = "dead" /\ UNCHANGED <<names, bound>>

BindNext == (\E s \in DOMAIN names \ DOMAIN bound : Bind(s)) \/ Judge \/ Die
BindSpec == BindInit /\ [][BindNext]_bindVars
=============================================================================

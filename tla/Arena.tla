------------------------------- MODULE Arena -------------------------------
(***************************************************************************)
(* What the heap promises its callers, who rely on it more than they know: *)
(* every answer is memory nobody has written to, an owner or the heap      *)
(* itself, so it holds zeroes; and what was handed out stays its owner's,  *)
(* of the same extent, for good: no `delete` and no destructor takes it    *)
(* back.                                                                   *)
(***************************************************************************)
EXTENDS Naturals

VARIABLES
  owned,    \* the intervals of addresses that have an owner
  written   \* the intervals that may hold something else than zeroes

Apart(i, j) == i[2] <= j[1] \/ j[2] <= i[1]
Within(i, j) == j[1] <= i[1] /\ i[2] <= j[2]

\* One interval more has an owner, and nobody has written there before.
Give ==
  \E i \in owned' \ owned :
    /\ owned' = owned \cup {i} /\ written \subseteq written'
    /\ \A w \in written : Apart(i, w)
    /\ \E w \in written' : Within(i, w)

ArenaSpec ==
  owned = {} /\ written = {} /\ [][Give]_<<owned, written>>
=============================================================================

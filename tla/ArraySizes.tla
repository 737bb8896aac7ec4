----------------------------- MODULE ArraySizes -----------------------------
(***************************************************************************)
(* Vector<ElfManager*> as its reader sees it: the capacity after n         *)
(* push_back, and the number of pointers that fit in the block malloc      *)
(* returns for that capacity.  malloc asks for 8 bytes per pointer, plus   *)
(* 10, rounded up to 8, and never less than MIN_BLOCK_SIZE = 64.  A free   *)
(* block with no more than META_SIZE + MIN_BLOCK_SIZE = 112 bytes to spare *)
(* is handed out unsplit, so up to 14 more words may be the same block's.  *)
(*                                                                         *)
(* Module Loader uses these numbers, module Vectors checks them against    *)
(* the heap.                                                               *)
(***************************************************************************)
EXTENDS Naturals

Capacity[n \in Nat] ==
  IF n = 0 THEN 2
  ELSE IF n = Capacity[n - 1] THEN 2 * Capacity[n - 1] ELSE Capacity[n - 1]

MinSlots == 8
\* Mutant: no minimal block, the block is as large as the vector.
BlockSlots_exact(n) == Capacity[n]

BlockSlots(n) ==
  IF Capacity[n] + 2 < MinSlots THEN MinSlots ELSE Capacity[n] + 2
UnsplitSlack == 14
=============================================================================

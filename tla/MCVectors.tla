----------------------------- MODULE MCVectors -----------------------------
(***************************************************************************)
(* Instances of Vectors and Allocator with the constants of libmalloc.hh   *)
(* and pages that mmap hands out in any order.                             *)
(***************************************************************************)
EXTENDS Vectors

CONSTANT Pages      \* how many page addresses mmap may choose from

\* The first page is the zero page.
PageBases == {Page * k : k \in 1..Pages}

\* None is what the copy of an empty string asks for.
OtherSizes == {0, 16, 1800, 4100}
\* 16, 32, 64 and 128 are what vectors of up to 15 elements ask for.
AllSizes == OtherSizes \cup {16, 32, 64, 128}

\* `loaded` moves three times; nobody pushes to dependencies_ itself.
Pushes == [loaded |-> 8, dependencies |-> 0]
=============================================================================

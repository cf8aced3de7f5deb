---------------------------- MODULE MCAllocator ----------------------------
(***************************************************************************)
(* Small instances of DefaultMemoryAllocator for TLC.                      *)
(***************************************************************************)
EXTENDS DefaultMemoryAllocator, TLC

\* Threads, objects and addresses are interchangeable.  (Not used in the
\* runs that check liveness.)
Symmetry == Permutations(Thread) \cup Permutations(Mem) \cup Permutations(Addr)

\* A release that meets another thread's register can charge a block twice
\* or not at all, again and again; the safety of the table does not depend
\* on the total, so the runs that allow it stop at these values.
TotalBound == total \in -32 .. 48
=============================================================================

---------------------------- MODULE BitIteration ----------------------------
(***************************************************************************)
(* Iterators over a bit array: what an LBitArray holds, however it was     *)
(* built, resized, changed and sliced, is what LIterator walks over.  The  *)
(* predicate is the bit itself.  The array is not changed meanwhile.       *)
(***************************************************************************)
EXTENDS LBitArray, LIterator

bitIterVars == <<bvars, ivars>>

BitIterInit == BitInit /\ IterInit

Use == kind = "none" /\ BitNext /\ UNCHANGED ivars

\* iterator, and one of its methods
StartIteration ==
    /\ phase = "array"
    /\ \/ \E k \in Kind \ {"slice"} : Iterate(k, Contents)
       \/ \E a, b \in -1 .. numBits + 1 : IterateSlice(Contents, a, b)
    /\ UNCHANGED bvars

Continue == UseNext /\ UNCHANGED bvars

BitIterNext == Use \/ StartIteration \/ Continue

BitIterSpec == BitIterInit /\ [][BitIterNext]_bitIterVars

BitIterTypeOK == BitTypeOK /\ IterTypeOK
=============================================================================

---------------------------- MODULE BitSequence ----------------------------
(***************************************************************************)
(* What a bit array and its builder promise: a sequence of Booleans that   *)
(* grows while it is built, and can then be changed in place and sliced.   *)
(***************************************************************************)
EXTENDS Naturals, Sequences

VARIABLES phase, \* none, building or array
          seq

vars == <<phase, seq>>

Init == phase = "none" /\ seq = <<>>

\* A new array has any contents; a new builder has none.
Create == /\ phase = "none"
          /\ phase' = "array"
          /\ seq' \in Seq(BOOLEAN)

NewBuilder == /\ phase = "none"
              /\ phase' = "building"
              /\ UNCHANGED seq

Add == /\ phase = "building"
       /\ \E v \in BOOLEAN : seq' = Append(seq, v)
       /\ UNCHANGED phase

Reset == /\ phase = "building"
         /\ seq' = <<>>
         /\ UNCHANGED phase

\* The array has the first n elements, usually all.
Finish == /\ phase = "building"
          /\ phase' = "array"
          /\ \E n \in 0 .. Len(seq) : seq' = SubSeq(seq, 1, n)

Assign == /\ phase = "array"
          /\ \E i \in DOMAIN seq, v \in BOOLEAN : seq' = [seq EXCEPT ![i] = v]
          /\ UNCHANGED phase

AssignAll == /\ phase = "array"
             /\ \E v \in BOOLEAN : seq' = [i \in DOMAIN seq |-> v]
             /\ UNCHANGED phase

Cut == /\ phase = "array"
       /\ \E s, e \in 0 .. Len(seq) : seq' = SubSeq(seq, s + 1, e)
       /\ UNCHANGED phase

Next == \/ Create \/ NewBuilder
        \/ Add \/ Reset \/ Finish
        \/ Assign \/ AssignAll \/ Cut

Spec == Init /\ [][Next]_vars
=============================================================================

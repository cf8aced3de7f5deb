--------------------------- MODULE ElementStreams ---------------------------
(***************************************************************************)
(* What the iterators made from one iterator promise: each of them has its *)
(* share of the source, a sequence of positions; it says truly whether     *)
(* there is more of it, and delivers it in order, whatever is done with    *)
(* the others.                                                             *)
(***************************************************************************)
EXTENDS Naturals, Sequences

CONSTANT Stream

VARIABLES share, \* what each stream has to deliver; empty before Open
          got,   \* what it delivered
          says   \* its last answer to "is there more?", or "?" after a delivery

vars == <<share, got, says>>

Init == /\ share = [c \in Stream |-> <<>>]
        /\ got = [c \in Stream |-> <<>>]
        /\ says = [c \in Stream |-> "?"]

Open == /\ \A c \in Stream : share[c] = <<>> /\ got[c] = <<>> /\ says[c] = "?"
        /\ share' \in [Stream -> Seq(Nat)]
        /\ UNCHANGED <<got, says>>

Ask(c) == /\ says' = [says EXCEPT ![c] = IF Len(got[c]) < Len(share[c]) THEN "yes" ELSE "no"]
          /\ UNCHANGED <<share, got>>

Take(c) == /\ says[c] = "yes"
           /\ got' = [got EXCEPT ![c] = Append(@, share[c][Len(@) + 1])]
           /\ says' = [says EXCEPT ![c] = "?"]
           /\ UNCHANGED share

Next == Open \/ \E c \in Stream : Ask(c) \/ Take(c)

Spec == Init /\ [][Next]_vars
=============================================================================

--------------------------- MODULE MemoryService ---------------------------
(***************************************************************************)
(* What a memory allocator promises its clients, with no threads, tables,  *)
(* locks or garbage collector in sight: a block belongs to one Memory      *)
(* object from the moment it is allocated until it is freed, and it is not *)
(* freed while a client still holds that object.  DefaultMemoryAllocator   *)
(* is shown to implement this specification (see ServiceRefinement there). *)
(***************************************************************************)
CONSTANTS Addr,    \* addresses the operating system hands out
          Mem,     \* Memory objects
          None     \* "no object": the block is not allocated

VARIABLES block,   \* block[a]: the object whose memory lies at address a
          held     \* the objects with memory that clients can still use

vars == <<block, held>>

Init == /\ block = [a \in Addr |-> None]
        /\ held = {}

\* A fresh object gets a block that nobody owns.
Allocate(m, a) == /\ m \notin held
                  /\ block[a] = None
                  /\ \A b \in Addr : block[b] # m
                  /\ block' = [block EXCEPT ![a] = m]
                  /\ held' = held \cup {m}

\* The clients release the object explicitly, or forget the last reference.
GiveUp(m) == /\ m \in held
             /\ held' = held \ {m}
             /\ UNCHANGED block

\* Only the block of an object that was given up returns to the system.
Free(a) == /\ block[a] # None
           /\ block[a] \notin held
           /\ block' = [block EXCEPT ![a] = None]
           /\ UNCHANGED held

Next == \/ \E m \in Mem, a \in Addr : Allocate(m, a)
        \/ \E m \in Mem : GiveUp(m)
        \/ \E a \in Addr : Free(a)

Spec == Init /\ [][Next]_vars
=============================================================================

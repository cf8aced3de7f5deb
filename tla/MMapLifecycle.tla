--------------------------- MODULE MMapLifecycle ---------------------------
(***************************************************************************)
(* How long a memory mapping lives.  MMapBuffer registers its mapping with *)
(* the memory allocator; close() gives it back through the allocator, the  *)
(* collector thread does so for buffers that were garbage collected, and   *)
(* free of MappedLByteArray unmaps it behind the allocator's back.         *)
(*                                                                         *)
(* The allocator's own steps interleave in DefaultMemoryAllocator; here    *)
(* register and release are atomic and the matter is who calls what.       *)
(***************************************************************************)
EXTENDS Integers, FiniteSets, Functions

CONSTANTS Map,         \* mapped buffers (MMapBuffer with its MMapMemory)
          Addr,        \* addresses that mmap returns
          FAILED,      \* the address -1 that a failing mmap returns
          Size,        \* sizes of mappings
          None

ASSUME NameAssumption == /\ FAILED \notin Addr
                         /\ None \notin Map \cup Addr \cup {FAILED}
                         /\ Size \subseteq Nat

VARIABLES mapped,  \* the operating system: the buffer mapped at each address
          state,   \* of a buffer: new, open, closed, lost or collected
          freed,   \* buffers that were unmapped by free, not by close
          addr,    \* the address in its MMapMemory
          size,    \* the size in its MMapMemory
          table,   \* allocatedMemoryReferences: the buffer whose reference is there
          total,   \* totalAllocatedSize
          queue    \* buffers whose phantom reference is enqueued

vars == <<mapped, state, freed, addr, size, table, total, queue>>

Unmapped(a) == IF a = FAILED THEN mapped ELSE [mapped EXCEPT ![a] = None]

\* DefaultMemoryAllocator.register
Register(m, a, s) == /\ table' = [table EXCEPT ![a] = m]
                     /\ total' = total + s

\* Faulty variant: the entry stays in the table.
KeepEntry(m) ==
    IF table[addr[m]] # None
    THEN /\ total' = total - size[m]
         /\ mapped' = Unmapped(addr[m])
         /\ UNCHANGED table
    ELSE UNCHANGED <<mapped, table, total>>

\* Faulty variant: forgets to unmap.
DropEntry(m) ==
    IF table[addr[m]] # None
    THEN /\ total' = total - size[m]
         /\ table' = [table EXCEPT ![addr[m]] = None]
         /\ UNCHANGED mapped
    ELSE UNCHANGED <<mapped, table, total>>

\* DefaultMemoryAllocator.release: looks only at the address.
Release(m) ==
    IF table[addr[m]] # None
    THEN /\ total' = total - size[m]
         /\ table' = [table EXCEPT ![addr[m]] = None]
         /\ mapped' = Unmapped(addr[m])
    ELSE UNCHANGED <<mapped, table, total>>

-----------------------------------------------------------------------------
Init == /\ mapped = [a \in Addr |-> None]
        /\ state = [m \in Map |-> "new"]
        /\ freed = {}
        /\ addr = [m \in Map |-> FAILED]
        /\ size = [m \in Map |-> 0]
        /\ table = [a \in Addr \cup {FAILED} |-> None]
        /\ total = 0
        /\ queue = {}

\* The constructor: mmap and register; the address is not tested.
New(m, s) ==
    /\ state[m] = "new"
    /\ \/ \E a \in Addr : /\ mapped[a] = None
                          /\ mapped' = [mapped EXCEPT ![a] = m]
                          /\ addr' = [addr EXCEPT ![m] = a]
                          /\ Register(m, a, s)
       \/ /\ Register(m, FAILED, s)
          /\ UNCHANGED <<mapped, addr>>
    /\ state' = [state EXCEPT ![m] = "open"]
    /\ size' = [size EXCEPT ![m] = s]
    /\ UNCHANGED <<freed, queue>>

\* close().  A second one fails, the memory is null by then; clients call
\* nothing after free.
Close(m) ==
    /\ state[m] = "open"
    /\ Release(m)
    /\ state' = [state EXCEPT ![m] = "closed"]
    /\ UNCHANGED <<freed, addr, size, queue>>

\* free of MappedLByteArray: MMapMemory.release
Free(m) ==
    /\ state[m] = "open"
    /\ mapped' = Unmapped(addr[m])
    /\ state' = [state EXCEPT ![m] = "closed"]
    /\ freed' = freed \cup {m}
    /\ UNCHANGED <<addr, size, table, total, queue>>

\* The client drops its last reference to the buffer.
Forget(m) ==
    /\ state[m] \in {"open", "closed"}
    /\ state' = [state EXCEPT ![m] = "lost"]
    /\ UNCHANGED <<mapped, freed, addr, size, table, total, queue>>

\* The garbage collector finds the MMapMemory unreachable; its phantom
\* reference is enqueued if the allocator's table still holds it.
Sweep(m) ==
    /\ state[m] = "lost"
    /\ state' = [state EXCEPT ![m] = "collected"]
    /\ queue' = IF table[addr[m]] = m THEN queue \cup {m} ELSE queue
    /\ UNCHANGED <<mapped, freed, addr, size, table, total>>

\* The collector thread releases the memory that a reference describes.
Dequeue(m) ==
    /\ m \in queue
    /\ queue' = queue \ {m}
    /\ Release(m)
    /\ UNCHANGED <<state, freed, addr, size>>

\* Nothing is left to do.
Done == /\ \A m \in Map : state[m] = "collected"
        /\ queue = {}
        /\ UNCHANGED vars

Next == \/ \E m \in Map : \/ \E s \in Size : New(m, s)
                          \/ Close(m) \/ Free(m) \/ Forget(m) \/ Sweep(m) \/ Dequeue(m)
        \/ Done

Fairness == \A m \in Map : WF_vars(Sweep(m)) /\ WF_vars(Dequeue(m))

Spec == Init /\ [][Next]_vars
FairSpec == Spec /\ Fairness

-----------------------------------------------------------------------------
Mapped(m) == addr[m] # FAILED => mapped[addr[m]] = m

\* A buffer that is open can be read and written: nothing that happens to
\* other buffers, closed or collected earlier at the same address, unmaps it.
OpenBuffersStayMapped == \A m \in Map : state[m] = "open" => Mapped(m)

\* The only buffers that can unmap an open one are those that had the same
\* address before and were freed instead of closed.
OnlyFreedBuffersInterfere ==
    \A m \in Map : state[m] = "open" =>
        Mapped(m) \/ \E n \in freed : n # m /\ addr[n] = addr[m]

\* A mapping that exists is in the table, so the collector can remove it -
\* also with buffers around whose mmap has failed, which share one entry.
EveryMappingIsTracked ==
    \A a \in Addr : mapped[a] # None => table[a] = mapped[a]

\* allocatedSize() is the size of the memory that is mapped, as long as no
\* mmap has failed and no buffer was freed.
TotalIsMapped ==
    (freed = {} /\ \A m \in Map : state[m] # "new" => addr[m] # FAILED)
      => total = SumFunction([a \in {b \in Addr : mapped[b] # None} |-> size[mapped[a]]])

\* A mapping whose buffer the client lost is removed by the collector thread.
LostMappingsGoAway ==
    \A m \in Map : state[m] = "lost" ~> \A a \in Addr : mapped[a] # m
=============================================================================

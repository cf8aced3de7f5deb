----------------------- MODULE DefaultMemoryAllocator -----------------------
(***************************************************************************)
(* larray-buffer's DefaultMemoryAllocator: off-heap blocks obtained from   *)
(* malloc, a table from block address to the phantom reference of the      *)
(* Memory object, an explicit release and a collector thread ("LArray-GC") *)
(* that releases the blocks of the objects the garbage collector found     *)
(* unreachable.                                                            *)
(*                                                                         *)
(* A process is a client thread or the collector.  Each step is one access *)
(* to shared state of the method the process is in.  malloc and the        *)
(* garbage collector are the environment: malloc may hand out an address   *)
(* again as soon as it was freed, and the GC may notice an unreachable     *)
(* object at any time.                                                     *)
(***************************************************************************)
EXTENDS Integers, FiniteSets, Functions

CONSTANTS Thread,            \* client threads
          Collector,         \* the LArray-GC thread
          Mem,               \* identities of Memory objects and their reference
          Addr,              \* header addresses malloc can return
          Size,              \* data sizes clients ask for
          Garbage,           \* what a read of a freed header may return
          None,
          Aliasing,          \* clients share a Memory, or keep it after free
          AllReleasers       \* threads that may call releaseAll

ASSUME CollectorAssumption == Collector \notin Thread
ASSUME NoneAssumption == /\ None \notin Thread \cup {Collector}
                         /\ None \notin Mem
                         /\ None \notin Addr
ASSUME SizeAssumption == Size \subseteq Nat /\ Garbage \subseteq Nat
ASSUME ClientAssumption == Aliasing \in BOOLEAN /\ AllReleasers \subseteq Thread

VARIABLES heap,      \* heap[a]: the data size in the header at a, or Free
          live,      \* objects the garbage collector has not swept
          addrOf,    \* header address of an object; None: an empty memory
          holders,   \* threads with a reference to the object
          table,     \* allocatedMemoryReferences: address -> reference
          queue,     \* the ReferenceQueue
          total,     \* totalAllocatedSize
          lock,      \* owner of the allocator's monitor
          pc,        \* next step of each process
          arg,       \* object (or reference) a process works on
          refSet,    \* the array of references a releaseAll works through
          todo       \* those of them it has still to release

vars == <<heap, live, addrOf, holders, table, queue, total, lock, pc, arg, refSet, todo>>

HEADER_SIZE == 8
Free == -1        \* no header holds a negative size
Process == Thread \cup {Collector}

\* OffHeapMemory.size() of a header whose content is h
SizeOf(h) == h + HEADER_SIZE

\* The numbers a read of the header at a can return.
Header(a) == IF heap[a] = Free THEN Garbage ELSE {heap[a]}

Allocated(a) == heap[a] # Free

Registered(m) == \E a \in Addr : table[a] = m

\* References in the table, as releaseAll's values() would return them
References == {m \in Mem : Registered(m)}

\* A thread inside allocate or release(Memory) has the object on its stack;
\* the collector and releaseAll hold a reference and its address only.
OnStack(m) == \E t \in Thread : arg[t] = m /\ todo[t] = {}

Reachable(m) == holders[m] # {} \/ OnStack(m)

\* Neither the object nor its phantom reference exists.
Unused(m) == /\ m \notin live \cup queue
             /\ ~Registered(m)
             /\ \A p \in Process : arg[p] # m
             /\ \A t \in Thread : m \notin refSet[t]

-----------------------------------------------------------------------------
Init == /\ heap = [a \in Addr |-> Free]
        /\ live = {}
        /\ addrOf = [m \in Mem |-> None]
        /\ holders = [m \in Mem |-> {}]
        /\ table = [a \in Addr |-> None]
        /\ queue = {}
        /\ total = 0
        /\ lock = None
        /\ pc = [p \in Process |-> "idle"]
        /\ arg = [p \in Process |-> None]
        /\ refSet = [t \in Thread |-> {}]
        /\ todo = [t \in Thread |-> {}]

Goto(p, label) == pc' = [pc EXCEPT ![p] = label]
At(p, label) == pc[p] = label

(***************************************************************************)
(* allocate and register                                                   *)
(***************************************************************************)

\* allocate(0): an empty memory has no block and is never registered.
AllocateEmpty(t, m) ==
    /\ At(t, "idle")
    /\ 0 \in Size
    /\ Unused(m)
    /\ live' = live \cup {m}
    /\ addrOf' = [addrOf EXCEPT ![m] = None]
    /\ holders' = [holders EXCEPT ![m] = {t}]
    /\ UNCHANGED <<heap, table, queue, total, lock, pc, arg, refSet, todo>>

\* Faulty variant: the header gets the size of the whole block.
HeaderHoldsBlockSize(t, m, a, size) ==
    /\ At(t, "idle") /\ size > 0 /\ Unused(m) /\ ~Allocated(a)
    /\ heap' = [heap EXCEPT ![a] = SizeOf(size)]
    /\ live' = live \cup {m}
    /\ addrOf' = [addrOf EXCEPT ![m] = a]
    /\ arg' = [arg EXCEPT ![t] = m]
    /\ Goto(t, "put")
    /\ UNCHANGED <<holders, table, queue, total, lock, refSet, todo>>

\* allocateMemory, then the constructor that writes the header: until the
\* reference is in the table no other process can know the address.
Allocate(t, m, a, size) ==
    /\ At(t, "idle")
    /\ size > 0
    /\ Unused(m)
    /\ ~Allocated(a)
    /\ heap' = [heap EXCEPT ![a] = size]
    /\ live' = live \cup {m}
    /\ addrOf' = [addrOf EXCEPT ![m] = a]
    /\ arg' = [arg EXCEPT ![t] = m]
    /\ Goto(t, "put")
    /\ UNCHANGED <<holders, table, queue, total, lock, refSet, todo>>

\* register, first half: the table gets the phantom reference.
Put(t) ==
    /\ At(t, "put")
    /\ table' = [table EXCEPT ![addrOf[arg[t]]] = arg[t]]
    /\ Goto(t, "charge")
    /\ UNCHANGED <<heap, live, addrOf, holders, queue, total, lock, arg, refSet, todo>>

\* register, second half, outside any lock: m.size() reads the header.
\* allocate returns the object to its caller.
Charge(t) ==
    /\ At(t, "charge")
    /\ \E h \in Header(addrOf[arg[t]]) : total' = total + SizeOf(h)
    /\ holders' = [holders EXCEPT ![arg[t]] = {t}]
    /\ arg' = [arg EXCEPT ![t] = None]
    /\ Goto(t, "idle")
    /\ UNCHANGED <<heap, live, addrOf, table, queue, lock, refSet, todo>>

(***************************************************************************)
(* What clients do with an object                                          *)
(***************************************************************************)

\* The last reference of t to the object goes away without a release.
Forget(t, m) ==
    /\ At(t, "idle")
    /\ t \in holders[m]
    /\ holders' = [holders EXCEPT ![m] = @ \ {t}]
    /\ UNCHANGED <<heap, live, addrOf, table, queue, total, lock, pc, arg, refSet, todo>>

\* t hands the object to u.  With Aliasing both keep it: a WrappedLBuffer
\* made by view() shares the Memory of the buffer it looks at.
Pass(t, u, m) ==
    /\ At(t, "idle")
    /\ t \in holders[m] /\ u \notin holders[m]
    /\ holders' = [holders EXCEPT ![m] = IF Aliasing THEN @ \cup {u} ELSE {u}]
    /\ UNCHANGED <<heap, live, addrOf, table, queue, total, lock, pc, arg, refSet, todo>>

\* LBuffer.release or LArray.free: the object goes to release(Memory).
CallRelease(t, m) ==
    /\ At(t, "idle")
    /\ t \in holders[m]
    /\ arg' = [arg EXCEPT ![t] = m]
    /\ Goto(t, "enter")
    /\ UNCHANGED <<heap, live, addrOf, holders, table, queue, total, lock, refSet, todo>>

\* LBuffer.release clears its field afterwards; LArray.free and the other
\* views of the same memory do not.
Return(t) ==
    /\ At(t, "return")
    /\ \E forgets \in IF Aliasing THEN BOOLEAN ELSE {TRUE} :
          holders' = IF forgets THEN [holders EXCEPT ![arg[t]] = @ \ {t}]
                                ELSE holders
    /\ arg' = [arg EXCEPT ![t] = None]
    /\ Goto(t, "idle")
    /\ UNCHANGED <<heap, live, addrOf, table, queue, total, lock, refSet, todo>>

(***************************************************************************)
(* release(Memory), run by a client, by the collector or by releaseAll     *)
(***************************************************************************)
Target(p) == addrOf[arg[p]]

\* One release is over.  releaseAll, which holds the monitor throughout,
\* goes to its next reference; the others leave the monitor.
Leave(p) ==
    IF p \in Thread /\ todo[p] # {}
    THEN /\ todo' = [todo EXCEPT ![p] = @ \ {arg[p]}]
         /\ arg' = [arg EXCEPT ![p] = None]
         /\ Goto(p, "allNext")
         /\ UNCHANGED lock
    ELSE /\ lock' = None
         /\ arg' = IF p = Collector THEN [arg EXCEPT ![p] = None] ELSE arg
         /\ Goto(p, IF p = Collector THEN "idle" ELSE "return")
         /\ UNCHANGED todo

\* Faulty variant: release is not synchronized.
EnterUnsynchronized(p) ==
    /\ At(p, "enter")
    /\ lock' = p
    /\ Goto(p, "check")
    /\ UNCHANGED <<heap, live, addrOf, holders, table, queue, total, arg, refSet, todo>>

Enter(p) ==
    /\ At(p, "enter")
    /\ lock = None
    /\ lock' = p
    /\ Goto(p, "check")
    /\ UNCHANGED <<heap, live, addrOf, holders, table, queue, total, arg, refSet, todo>>

ContainsKey(a) == a # None /\ table[a] # None

\* containsKey(address): the entry need not be this object's.
Check(p) ==
    /\ At(p, "check")
    /\ IF ContainsKey(Target(p))
       THEN Goto(p, "discharge") /\ UNCHANGED <<lock, arg, todo>>
       ELSE Leave(p)
    /\ UNCHANGED <<heap, live, addrOf, holders, table, queue, total, refSet>>

\* Faulty variant: the total goes down by dataSize() and not by size().
DischargeDataSize(p) ==
    /\ At(p, "discharge")
    /\ \E h \in Header(Target(p)) : total' = total - h
    /\ Goto(p, "remove")
    /\ UNCHANGED <<heap, live, addrOf, holders, table, queue, lock, arg, refSet, todo>>

\* Faulty variant: the memory is freed before its entry is removed.
DischargeAndFree(p) ==
    /\ At(p, "discharge")
    /\ \E h \in Header(Target(p)) : total' = total - SizeOf(h)
    /\ heap' = [heap EXCEPT ![Target(p)] = Free]
    /\ Goto(p, "remove")
    /\ UNCHANGED <<live, addrOf, holders, table, queue, lock, arg, refSet, todo>>

Discharge(p) ==
    /\ At(p, "discharge")
    /\ \E h \in Header(Target(p)) : total' = total - SizeOf(h)
    /\ Goto(p, "remove")
    /\ UNCHANGED <<heap, live, addrOf, holders, table, queue, lock, arg, refSet, todo>>

\* Faulty variant: the memory is freed here and again by m.release().
RemoveAndFree(p) ==
    /\ At(p, "remove")
    /\ table' = [table EXCEPT ![Target(p)] = None]
    /\ heap' = [heap EXCEPT ![Target(p)] = Free]
    /\ Goto(p, "free")
    /\ UNCHANGED <<live, addrOf, holders, queue, total, lock, arg, refSet, todo>>

Remove(p) ==
    /\ At(p, "remove")
    /\ table' = [table EXCEPT ![Target(p)] = None]
    /\ Goto(p, "free")
    /\ UNCHANGED <<heap, live, addrOf, holders, queue, total, lock, arg, refSet, todo>>

\* Faulty variant: release forgets m.release().
ForgetToFree(p) ==
    /\ At(p, "free")
    /\ Leave(p)
    /\ UNCHANGED <<heap, live, addrOf, holders, table, queue, total, refSet>>

\* m.release(): freeMemory(headerAddress())
FreeMemory(p) ==
    /\ At(p, "free")
    /\ heap' = [heap EXCEPT ![Target(p)] = Free]
    /\ Leave(p)
    /\ UNCHANGED <<live, addrOf, holders, table, queue, total, refSet>>

(***************************************************************************)
(* releaseAll                                                              *)
(***************************************************************************)
EnterAll(t) ==
    /\ At(t, "idle") /\ t \in AllReleasers
    /\ lock = None
    /\ lock' = t
    /\ refSet' = [refSet EXCEPT ![t] = References]
    /\ Goto(t, "allScan")
    /\ UNCHANGED <<heap, live, addrOf, holders, table, queue, total, arg, todo>>

\* values().toArray() of a ConcurrentHashMap sees every entry present from
\* its start to its end, and any of those put while it runs.
Scan(t) ==
    /\ At(t, "allScan")
    /\ \E seen \in SUBSET (References \ refSet[t]) :
          /\ refSet' = [refSet EXCEPT ![t] = @ \cup seen]
          /\ todo' = [todo EXCEPT ![t] = refSet[t] \cup seen]
    /\ Goto(t, "allNext")
    /\ UNCHANGED <<heap, live, addrOf, holders, table, queue, total, lock, arg>>

ReleaseNext(t, m) ==
    /\ At(t, "allNext")
    /\ m \in todo[t]
    /\ arg' = [arg EXCEPT ![t] = m]
    /\ Goto(t, "check")
    /\ UNCHANGED <<heap, live, addrOf, holders, table, queue, total, lock, refSet, todo>>

LeaveAll(t) ==
    /\ At(t, "allNext")
    /\ todo[t] = {}
    /\ lock' = None
    /\ refSet' = [refSet EXCEPT ![t] = {}]
    /\ Goto(t, "idle")
    /\ UNCHANGED <<heap, live, addrOf, holders, table, queue, total, arg, todo>>

(***************************************************************************)
(* The garbage collector and the LArray-GC thread                          *)
(***************************************************************************)

\* The GC sweeps an unreachable object and enqueues its phantom reference
\* if that reference itself is still reachable; otherwise both disappear.
Sweep(m) ==
    /\ m \in live
    /\ ~Reachable(m)
    /\ live' = live \ {m}
    /\ queue' = IF Registered(m) \/ \E t \in Thread : m \in refSet[t]
                THEN queue \cup {m} ELSE queue
    /\ UNCHANGED <<heap, addrOf, holders, table, total, lock, pc, arg, refSet, todo>>

\* Faulty variant: the reference is taken off the queue and lost.
DequeueAndLose(m) ==
    /\ At(Collector, "idle")
    /\ m \in queue
    /\ queue' = queue \ {m}
    /\ UNCHANGED <<heap, live, addrOf, holders, table, total, lock, pc, arg, refSet, todo>>

\* queue.remove() and the call of release(ref.toMemory())
Dequeue(m) ==
    /\ At(Collector, "idle")
    /\ m \in queue
    /\ queue' = queue \ {m}
    /\ arg' = [arg EXCEPT ![Collector] = m]
    /\ Goto(Collector, "enter")
    /\ UNCHANGED <<heap, live, addrOf, holders, table, total, lock, refSet, todo>>

-----------------------------------------------------------------------------
Registering(t) == Put(t) \/ Charge(t)

InMonitor(p) == Check(p) \/ Discharge(p) \/ Remove(p) \/ FreeMemory(p)

Releasing(p) == Enter(p) \/ InMonitor(p)

ReleasingAll(t) == \/ EnterAll(t) \/ Scan(t) \/ LeaveAll(t)
                   \/ \E m \in Mem : ReleaseNext(t, m)

Client(t) == \E m \in Mem : \/ AllocateEmpty(t, m)
                            \/ \E a \in Addr, s \in Size : Allocate(t, m, a, s)
                            \/ Forget(t, m)
                            \/ \E u \in Thread : Pass(t, u, m)
                            \/ CallRelease(t, m)

Next == \/ \E t \in Thread : \/ Client(t) \/ Registering(t)
                             \/ Return(t) \/ ReleasingAll(t)
        \/ \E p \in Process : Releasing(p)
        \/ \E m \in Mem : Sweep(m) \/ Dequeue(m)

Spec == Init /\ [][Next]_vars

\* A thread inside the allocator keeps running, the collector thread runs
\* whenever it can, and the GC finds every unreachable object.  Entering the
\* monitor is only weakly fair (Java monitors promise no order), and the
\* collector takes some reference of the queue (which is a LIFO list).
Fairness ==
    /\ \A t \in Thread : WF_vars(Registering(t) \/ Return(t))
    /\ \A p \in Process : WF_vars(Enter(p)) /\ WF_vars(InMonitor(p))
    /\ \A t \in Thread : WF_vars(Scan(t) \/ LeaveAll(t) \/ \E m \in Mem : ReleaseNext(t, m))
    /\ \A m \in Mem : WF_vars(Sweep(m))
    /\ WF_vars(\E m \in Mem : Dequeue(m))

FairSpec == Spec /\ Fairness
-----------------------------------------------------------------------------
(***************************************************************************)
(* Properties                                                              *)
(***************************************************************************)
Labels == {"idle", "put", "charge", "enter", "check", "discharge", "remove",
           "free", "return", "allScan", "allNext"}

\* Every variable has the values the code's declarations allow.
TypeOK == /\ heap \in [Addr -> Size \cup {Free}]
          /\ live \subseteq Mem
          /\ addrOf \in [Mem -> Addr \cup {None}]
          /\ holders \in [Mem -> SUBSET Thread]
          /\ table \in [Addr -> Mem \cup {None}]
          /\ queue \subseteq Mem
          /\ total \in Int
          /\ lock \in Process \cup {None}
          /\ pc \in [Process -> Labels]
          /\ arg \in [Process -> Mem \cup {None}]
          /\ refSet \in [Thread -> SUBSET Mem]
          /\ todo \in [Thread -> SUBSET Mem]

\* No double free: whatever clients do (share a Memory, release it twice,
\* call releaseAll at any time), a process about to call freeMemory has an
\* address that is allocated and that is no longer in the table, so nobody
\* else can be about to free it.  The guard of release, its monitor and
\* the order of remove and freeMemory are there for this.
FreesOnlyAllocated ==
    \A p \in Process :
        At(p, "free") => /\ Allocated(Target(p))
                         /\ ~ContainsKey(Target(p))
                         /\ lock = p

\* No leak: an allocated block is in the table, where the collector or
\* releaseAll can find it, unless a thread is just about to put it there
\* or to free it.
EveryBlockIsTracked ==
    \A a \in Addr :
        Allocated(a) => \/ ContainsKey(a)
                        \/ \E t \in Thread : At(t, "put") /\ Target(t) = a
                        \/ \E p \in Process : At(p, "free") /\ Target(p) = a

\* No entry is stranded: the reference of each entry in the table can still
\* be swept, is queued, or is in the hands of the collector.  An entry
\* whose reference went by would keep its block for ever.
EveryEntryCanBeCollected ==
    \A a \in Addr :
        ContainsKey(a) => table[a] \in live \cup queue \cup {arg[Collector]}

\* An object that no thread is releasing and some thread holds.
Usable(m) == /\ holders[m] # {}
             /\ addrOf[m] # None
             /\ \A t \in Thread : arg[t] # m

\* No use after free: as long as a client holds an object it has not
\* released, the object's block is allocated and registered as its own.
\* (Clients that share objects or call releaseAll give up this promise.)
UsableMemoryIsIntact ==
    \A m \in Mem : Usable(m) => /\ Allocated(addrOf[m])
                                /\ table[addrOf[m]] = m

\* The blocks allocatedSize() counts: registered and charged, and not yet
\* discharged by a release under way.
Counted(a) == /\ ContainsKey(a)
              /\ \A t \in Thread : ~(At(t, "charge") /\ Target(t) = a)
              /\ \A p \in Process : ~(At(p, "remove") /\ Target(p) = a)

SizeOfBlocks(S) == SumFunctionOnSet([a \in Addr |-> SizeOf(heap[a])], S)

\* allocatedSize() is at every moment the size of the counted blocks,
\* although register and release update the table and the total in
\* separate steps and register does so without the monitor.
TotalIsExact == total = SizeOfBlocks({a \in Addr : Counted(a)})

\* The weaker claim for clients that also call releaseAll: when nobody is
\* inside the allocator, allocatedSize() is the size of the blocks held.
TotalIsExactAtRest ==
    (\A p \in Process : At(p, "idle"))
        => total = SizeOfBlocks({a \in Addr : Allocated(a)})

\* The collector removes only entries of objects that the GC has swept: a
\* reference that waited in the queue, or in the collector's hands, never
\* costs a later owner of the same address its memory.
CollectorSparesLiveObjects ==
    [][\A a \in Addr : (ContainsKey(a) /\ table'[a] = None /\ lock = Collector)
                         => table[a] \notin live]_vars

\* Abandoned blocks: registered, but no client can reach the object.
Abandoned(a) == ContainsKey(a) /\ ~Reachable(table[a])

NewCall == \E t \in Thread : \/ EnterAll(t)
                              \/ \E m \in Mem : \/ CallRelease(t, m)
                                                \/ \E a \in Addr, s \in Size : Allocate(t, m, a, s)

\* Memory nobody released explicitly is given back: once clients stop
\* calling the allocator, each abandoned block is freed eventually.
\* (While they go on calling it, nothing in the code stops the monitor or
\* the LIFO reference queue from passing over the same reference for ever.)
AbandonedBlocksAreFreed ==
    <>[][~NewCall]_vars => \A a \in Addr : Abandoned(a) ~> ~Allocated(a)

(***************************************************************************)
(* The allocator, used by clients that neither share objects nor call      *)
(* releaseAll, implements the abstract memory service.                     *)
(***************************************************************************)
\* The object whose memory lies at a.
Owner(a) ==
    IF ~Allocated(a) THEN None
    ELSE IF ContainsKey(a) THEN table[a]
    ELSE arg[CHOOSE p \in Process : pc[p] \in {"put", "free"} /\ Target(p) = a]

Service == INSTANCE MemoryService WITH
    block <- [a \in Addr |-> Owner(a)],
    held  <- {m \in Mem : /\ addrOf[m] # None
                          /\ \/ Usable(m)
                             \/ \E t \in Thread : arg[t] = m /\ pc[t] \in {"put", "charge"}}

\* Each step of the detailed allocator allocates a free block, gives one up,
\* frees one that was given up, or changes nothing a client can see.
ServiceRefinement == Service!Spec
=============================================================================

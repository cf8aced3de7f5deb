--------------------------- MODULE AllocatorProofs ---------------------------
(***************************************************************************)
(* What TLAPS proves of DefaultMemoryAllocator, for any number of threads, *)
(* objects, addresses and sizes.                                           *)
(***************************************************************************)
EXTENDS DefaultMemoryAllocator, DataLemmas, TLAPS

(***************************************************************************)
(* Part 1: any client, whatever Aliasing and AllReleasers are: objects may *)
(* be shared, released twice, and dropped by releaseAll at any moment.     *)
(***************************************************************************)
Working == {"put", "charge", "enter", "check", "discharge", "remove", "free", "return"}
Guarded == {"check", "discharge", "remove", "free", "allScan", "allNext"}

\* A process inside an operation knows its object, and a block to work on.
Operands ==
    /\ \A p \in Process : pc[p] \in Working => arg[p] \in Mem
    /\ \A p \in Process : pc[p] \in {"put", "charge", "discharge", "remove", "free"}
                             => addrOf[arg[p]] \in Addr

\* The monitor is held throughout its critical sections.
MutualExclusion == \A p \in Process : pc[p] \in Guarded => lock = p

\* Outside the loop of releaseAll there is nothing left to do.
NoBatch == \A t \in Thread :
              pc[t] \in {"idle", "put", "charge", "enter", "return", "allScan"} => todo[t] = {}

\* An entry lies at the address of its object, and its block is allocated.
Entries == \A a \in Addr :
              table[a] # None => Allocated(a) /\ addrOf[table[a]] = a

\* What a process has learnt of its block stays true until it acts on it.
Progress ==
    /\ \A p \in Process : pc[p] \in {"discharge", "remove"} => table[Target(p)] # None
    /\ \A p \in Process : pc[p] \in {"put", "free"}
                             => Allocated(Target(p)) /\ table[Target(p)] = None

\* A block is about to be registered, or about to be freed, by one process.
OnePerBlock == \A p, q \in Process :
                  /\ pc[p] \in {"put", "free"} /\ pc[q] \in {"put", "free"}
                  /\ Target(p) = Target(q)
                  => p = q

\* The object being registered has not been swept.
Registrants == \A t \in Thread : pc[t] = "put" => arg[t] \in live

\* Between two references the collector holds none.
IdleCollector == pc[Collector] = "idle" => arg[Collector] = None

TypeInv == TypeOK /\ Operands

SafetyInv == /\ TypeInv
             /\ MutualExclusion /\ NoBatch /\ Entries
             /\ Progress /\ OnePerBlock /\ Registrants /\ IdleCollector
             /\ EveryBlockIsTracked /\ EveryEntryCanBeCollected

USE DEF Process, Goto, At

LEMMA InitTypeInv == Init => TypeInv
  BY NoneAssumption, SizeAssumption
  DEF Init, TypeInv, TypeOK, Operands, Working, Labels, Free

\* Every step keeps the types, and the operands of the processes that need
\* one: only an object that no process works on is given an address.
LEMMA NextTypeInv == TypeInv /\ [Next]_vars => TypeInv'
<1> SUFFICES ASSUME TypeInv, [Next]_vars PROVE TypeInv'
  OBVIOUS
<1> USE CollectorAssumption, NoneAssumption, SizeAssumption, ClientAssumption
<1> USE DEF TypeInv, TypeOK, Operands, Working, Labels, Free, Target
<1>1. ASSUME NEW t \in Thread, NEW m \in Mem, AllocateEmpty(t, m) PROVE TypeInv'
  BY <1>1 DEF AllocateEmpty, Unused
<1>2. ASSUME NEW t \in Thread, NEW m \in Mem, NEW a \in Addr, NEW s \in Size,
             Allocate(t, m, a, s)
      PROVE TypeInv'
  BY <1>2 DEF Allocate, Unused
<1>3. ASSUME NEW t \in Thread, NEW m \in Mem, Forget(t, m) PROVE TypeInv'
  BY <1>3 DEF Forget
<1>4. ASSUME NEW t \in Thread, NEW u \in Thread, NEW m \in Mem, Pass(t, u, m) PROVE TypeInv'
  BY <1>4 DEF Pass
<1>5. ASSUME NEW t \in Thread, NEW m \in Mem, CallRelease(t, m) PROVE TypeInv'
  BY <1>5 DEF CallRelease
<1>6. ASSUME NEW t \in Thread, Put(t) PROVE TypeInv'
  BY <1>6 DEF Put
<1>7. ASSUME NEW t \in Thread, Charge(t) PROVE TypeInv'
  BY <1>7 DEF Charge, Header, SizeOf, HEADER_SIZE
<1>8. ASSUME NEW t \in Thread, Return(t) PROVE TypeInv'
  BY <1>8 DEF Return
<1>9. ASSUME NEW t \in Thread, EnterAll(t) PROVE TypeInv'
  BY <1>9 DEF EnterAll, References
<1>10. ASSUME NEW t \in Thread, Scan(t) PROVE TypeInv'
  BY <1>10 DEF Scan, References
<1>11. ASSUME NEW t \in Thread, NEW m \in Mem, ReleaseNext(t, m) PROVE TypeInv'
  BY <1>11 DEF ReleaseNext
<1>12. ASSUME NEW t \in Thread, LeaveAll(t) PROVE TypeInv'
  BY <1>12 DEF LeaveAll
<1>13. ASSUME NEW p \in Process, Enter(p) PROVE TypeInv'
  BY <1>13 DEF Enter
<1>14. ASSUME NEW p \in Process, Check(p) PROVE TypeInv'
  BY <1>14 DEF Check, ContainsKey, Leave
<1>15. ASSUME NEW p \in Process, Discharge(p) PROVE TypeInv'
  BY <1>15 DEF Discharge, Header, SizeOf, HEADER_SIZE
<1>16. ASSUME NEW p \in Process, Remove(p) PROVE TypeInv'
  BY <1>16 DEF Remove
<1>17. ASSUME NEW p \in Process, FreeMemory(p) PROVE TypeInv'
  BY <1>17 DEF FreeMemory, Leave
<1>18. ASSUME NEW m \in Mem, Sweep(m) PROVE TypeInv'
  BY <1>18 DEF Sweep
<1>19. ASSUME NEW m \in Mem, Dequeue(m) PROVE TypeInv'
  BY <1>19 DEF Dequeue
<1>20. CASE UNCHANGED vars
  BY <1>20 DEF vars
<1> QED
  BY <1>1, <1>2, <1>3, <1>4, <1>5, <1>6, <1>7, <1>8, <1>9, <1>10, <1>11, <1>12,
     <1>13, <1>14, <1>15, <1>16, <1>17, <1>18, <1>19, <1>20
  DEF Next, Client, Registering, ReleasingAll, Releasing, InMonitor

\* Type correctness, for any client and any value of the constants.
THEOREM TypeCorrectness == Spec => []TypeOK
<1>1. TypeInv => TypeOK
  BY DEF TypeInv
<1> QED
  BY InitTypeInv, NextTypeInv, <1>1, PTL DEF Spec

LEMMA InitSafetyInv == Init => SafetyInv
  BY InitTypeInv, CollectorAssumption, NoneAssumption, SizeAssumption
  DEF Init, SafetyInv, MutualExclusion, NoBatch, Entries, Progress, OnePerBlock, Registrants,
      IdleCollector, EveryBlockIsTracked, EveryEntryCanBeCollected, Guarded, Allocated, ContainsKey, Free

LEMMA NextSafetyInv == SafetyInv /\ [Next]_vars => SafetyInv'
<1> SUFFICES ASSUME SafetyInv, [Next]_vars PROVE SafetyInv'
  OBVIOUS
<1> USE CollectorAssumption, NoneAssumption, SizeAssumption, ClientAssumption
<1>0. TypeInv'
  BY NextTypeInv DEF SafetyInv
<1> USE <1>0
<1> USE DEF SafetyInv, TypeInv, TypeOK, Operands, MutualExclusion, NoBatch, Entries, Progress,
            OnePerBlock, Registrants, IdleCollector, EveryBlockIsTracked, EveryEntryCanBeCollected,
            Working, Guarded, Labels, Free, Target, Allocated, ContainsKey
<1>1. ASSUME NEW t \in Thread, NEW m \in Mem, AllocateEmpty(t, m) PROVE SafetyInv'
  BY <1>1 DEF AllocateEmpty, Unused
<1>2. ASSUME NEW t \in Thread, NEW m \in Mem, NEW a \in Addr, NEW s \in Size,
             Allocate(t, m, a, s)
      PROVE SafetyInv'
  \* The object is fresh and the block free, so no process has either.
  <2>1. /\ \A p \in Process : arg[p] # m
        /\ \A b \in Addr : table[b] # m
        /\ table[a] = None
    BY <1>2 DEF Allocate, Unused, Registered
  <2>2. /\ \A p \in Process : pc'[p] = IF p = t THEN "put" ELSE pc[p]
        /\ \A p \in Process : arg'[p] = IF p = t THEN m ELSE arg[p]
        /\ \A b \in Addr : heap'[b] = IF b = a THEN s ELSE heap[b]
        /\ \A n \in Mem : addrOf'[n] = IF n = m THEN a ELSE addrOf[n]
        /\ s # Free /\ ~Allocated(a)
        /\ t # Collector
    BY <1>2 DEF Allocate
  <2>3. MutualExclusion' /\ NoBatch' /\ Registrants' /\ IdleCollector'
    BY <1>2, <2>2 DEF Allocate
  <2>4. Entries'
    BY <1>2, <2>1, <2>2 DEF Allocate
  <2>5. Progress'
    BY <1>2, <2>1, <2>2 DEF Allocate
  <2>6. OnePerBlock'
    BY <1>2, <2>1, <2>2 DEF Allocate
  <2>7. EveryBlockIsTracked'
    <3> SUFFICES ASSUME NEW b \in Addr, Allocated(b)', ~ContainsKey(b)'
                 PROVE \/ \E u \in Thread : pc'[u] = "put" /\ Target(u)' = b
                       \/ \E p \in Process : pc'[p] = "free" /\ Target(p)' = b
      BY DEF EveryBlockIsTracked
    <3>1. CASE b = a
      BY <3>1, <1>2, <2>2 DEF Allocate
    <3>2. CASE b # a
      BY <3>2, <1>2, <2>1, <2>2 DEF Allocate
    <3> QED
      BY <3>1, <3>2
  <2>8. EveryEntryCanBeCollected'
    BY <1>2, <2>1, <2>2 DEF Allocate
  <2> QED
    BY <2>3, <2>4, <2>5, <2>6, <2>7, <2>8
<1>3. ASSUME NEW t \in Thread, NEW m \in Mem, Forget(t, m) PROVE SafetyInv'
  BY <1>3 DEF Forget
<1>4. ASSUME NEW t \in Thread, NEW u \in Thread, NEW m \in Mem, Pass(t, u, m) PROVE SafetyInv'
  BY <1>4 DEF Pass
<1>5. ASSUME NEW t \in Thread, NEW m \in Mem, CallRelease(t, m) PROVE SafetyInv'
  BY <1>5 DEF CallRelease
<1>6. ASSUME NEW t \in Thread, Put(t) PROVE SafetyInv'
  BY <1>6 DEF Put
<1>7. ASSUME NEW t \in Thread, Charge(t) PROVE SafetyInv'
  BY <1>7 DEF Charge
<1>8. ASSUME NEW t \in Thread, Return(t) PROVE SafetyInv'
  BY <1>8 DEF Return
<1>9. ASSUME NEW t \in Thread, EnterAll(t) PROVE SafetyInv'
  BY <1>9 DEF EnterAll
<1>10. ASSUME NEW t \in Thread, Scan(t) PROVE SafetyInv'
  BY <1>10 DEF Scan
<1>11. ASSUME NEW t \in Thread, NEW m \in Mem, ReleaseNext(t, m) PROVE SafetyInv'
  BY <1>11 DEF ReleaseNext
<1>12. ASSUME NEW t \in Thread, LeaveAll(t) PROVE SafetyInv'
  BY <1>12 DEF LeaveAll
<1>13. ASSUME NEW p \in Process, Enter(p) PROVE SafetyInv'
  BY <1>13 DEF Enter
<1>14. ASSUME NEW p \in Process, Check(p) PROVE SafetyInv'
  <2>2. MutualExclusion' /\ NoBatch' /\ Registrants' /\ IdleCollector'
    BY <1>14 DEF Check, Leave
  <2>3. Entries' /\ Progress' /\ OnePerBlock'
    BY <1>14 DEF Check, Leave
  <2>4. EveryBlockIsTracked'
    BY <1>14 DEF Check, Leave
  <2>5. EveryEntryCanBeCollected'
    BY <1>14 DEF Check, Leave
  <2> QED
    BY <2>2, <2>3, <2>4, <2>5
<1>15. ASSUME NEW p \in Process, Discharge(p) PROVE SafetyInv'
  BY <1>15 DEF Discharge
<1>16. ASSUME NEW p \in Process, Remove(p) PROVE SafetyInv'
  BY <1>16 DEF Remove
<1>17. ASSUME NEW p \in Process, FreeMemory(p) PROVE SafetyInv'
  <2>1. MutualExclusion' /\ NoBatch' /\ Registrants' /\ IdleCollector'
    BY <1>17 DEF FreeMemory, Leave
  <2>2. Entries'
    BY <1>17 DEF FreeMemory, Leave
  <2>3. Progress' /\ OnePerBlock'
    BY <1>17 DEF FreeMemory, Leave
  <2>4. EveryBlockIsTracked'
    BY <1>17 DEF FreeMemory, Leave
  <2>5. EveryEntryCanBeCollected'
    BY <1>17 DEF FreeMemory, Leave
  <2> QED
    BY <2>1, <2>2, <2>3, <2>4, <2>5
<1>18. ASSUME NEW m \in Mem, Sweep(m) PROVE SafetyInv'
  BY <1>18 DEF Sweep, Reachable, OnStack, Registered
<1>19. ASSUME NEW m \in Mem, Dequeue(m) PROVE SafetyInv'
  BY <1>19 DEF Dequeue
<1>20. CASE UNCHANGED vars
  BY <1>20 DEF vars
<1> QED
  BY <1>1, <1>2, <1>3, <1>4, <1>5, <1>6, <1>7, <1>8, <1>9, <1>10, <1>11, <1>12,
     <1>13, <1>14, <1>15, <1>16, <1>17, <1>18, <1>19, <1>20
  DEF Next, Client, Registering, ReleasingAll, Releasing, InMonitor

\* No double free, for any client: see FreesOnlyAllocated.
THEOREM NoDoubleFree == Spec => []FreesOnlyAllocated
<1>1. SafetyInv => FreesOnlyAllocated
  BY CollectorAssumption, NoneAssumption
  DEF SafetyInv, MutualExclusion, Progress, Guarded, FreesOnlyAllocated, ContainsKey
<1> QED
  BY InitSafetyInv, NextSafetyInv, <1>1, PTL DEF Spec

\* No leak, for any client: see EveryBlockIsTracked.
THEOREM NoLeak == Spec => []EveryBlockIsTracked
<1>1. SafetyInv => EveryBlockIsTracked
  BY DEF SafetyInv
<1> QED
  BY InitSafetyInv, NextSafetyInv, <1>1, PTL DEF Spec

\* No stranded entry, for any client: see EveryEntryCanBeCollected.
THEOREM NoStrandedEntry == Spec => []EveryEntryCanBeCollected
<1>1. SafetyInv => EveryEntryCanBeCollected
  BY DEF SafetyInv
<1> QED
  BY InitSafetyInv, NextSafetyInv, <1>1, PTL DEF Spec

(***************************************************************************)
(* Part 2: clients that own their objects exclusively and never call       *)
(* releaseAll.                                                             *)
(***************************************************************************)
Exclusive == ~Aliasing /\ AllReleasers = {}

\* At most one thread has a reference to an object, and an object that is
\* referenced has not been swept.
Ownership ==
    /\ \A m \in Mem : \A t, u \in holders[m] : t = u
    /\ \A m \in Mem : holders[m] # {} => m \in live

\* What a thread works on is its own: still nobody's while it is being
\* registered, the thread's alone while it is being released.
OwnWork ==
    /\ \A t \in Thread : pc[t] \notin {"allScan", "allNext"} /\ refSet[t] = {} /\ todo[t] = {}
    /\ \A t \in Thread : pc[t] = "idle" => arg[t] = None
    /\ \A t \in Thread : pc[t] \in {"put", "charge"}
                              => holders[arg[t]] = {} /\ arg[t] \in live
    /\ \A t, u \in Thread : /\ pc[t] \in {"put", "charge"} /\ pc[u] \in {"put", "charge"}
                             /\ arg[t] = arg[u]
                             => t = u
    /\ \A t \in Thread : pc[t] \in {"enter", "check", "discharge", "remove", "free", "return"}
                              => holders[arg[t]] = {t}

\* References that were enqueued belong to swept objects, each is queued or
\* in the collector's hands but not both, and their entries are still there.
Swept ==
    /\ pc[Collector] # "idle" => arg[Collector] \notin live \cup queue
    /\ pc[Collector] = "enter" => addrOf[arg[Collector]] \in Addr
    /\ \A m \in queue : /\ m \notin live
                        /\ addrOf[m] \in Addr
                        /\ table[addrOf[m]] = m

\* The entry at the address of an object in use is the object's own.
OwnEntry ==
    /\ \A m \in Mem : Usable(m) => table[addrOf[m]] = m
    /\ \A t \in Thread : pc[t] = "charge" => table[Target(t)] = arg[t]
    /\ \A p \in Process : /\ pc[p] \in {"enter", "check", "discharge", "remove"}
                           /\ Target(p) # None
                           => table[Target(p)] = arg[p]

ExclusiveInv == SafetyInv /\ Ownership /\ OwnWork /\ Swept /\ OwnEntry

LEMMA InitExclusiveInv == Init => ExclusiveInv
  BY InitSafetyInv, CollectorAssumption, NoneAssumption
  DEF Init, ExclusiveInv, Ownership, OwnWork, Swept, OwnEntry, Usable

\* No two processes work on the same object.
LEMMA WorkIsDistinct ==
  ASSUME ExclusiveInv
  PROVE  /\ \A t \in Thread : pc[t] \in Working => arg[t] \in live
         /\ \A p, q \in Process : /\ pc[p] \in Working /\ pc[q] \in Working
                                  /\ p # q
                                  => arg[p] # arg[q]
<1> USE CollectorAssumption
<1> USE DEF ExclusiveInv, SafetyInv, TypeInv, TypeOK, Operands, Ownership, OwnWork, Swept
<1> DEFINE ReleaseSteps == {"enter", "check", "discharge", "remove", "free", "return"}
<1>1. ASSUME NEW t \in Thread, pc[t] \in ReleaseSteps
      PROVE  t \in holders[arg[t]] /\ arg[t] \in Mem
  <2>1. holders[arg[t]] = {t} /\ arg[t] \in Mem
    BY <1>1 DEF Working
  <2> QED
    BY <2>1
<1>2. ASSUME NEW t \in Thread, pc[t] \in Working
      PROVE  arg[t] \in Mem /\ arg[t] \in live
  <2>1. CASE pc[t] \in ReleaseSteps
    BY <1>1, <2>1
  <2>2. CASE pc[t] \in {"put", "charge"}
    BY <2>2 DEF Working
  <2> QED
    BY <1>2, <2>1, <2>2 DEF Working
<1>3. ASSUME NEW t \in Thread, NEW u \in Thread, t # u,
             pc[t] \in Working, pc[u] \in Working, arg[t] = arg[u]
      PROVE  FALSE
  <2>1. CASE pc[t] \in ReleaseSteps /\ pc[u] \in ReleaseSteps
    BY <1>1, <1>3, <2>1
  <2>2. CASE pc[t] \in ReleaseSteps /\ pc[u] \in {"put", "charge"}
    <3>1. t \in holders[arg[t]] /\ holders[arg[u]] = {}
      BY <1>1, <2>2
    <3> QED
      BY <1>3, <3>1
  <2>3. CASE pc[t] \in {"put", "charge"} /\ pc[u] \in ReleaseSteps
    <3>1. u \in holders[arg[u]] /\ holders[arg[t]] = {}
      BY <1>1, <2>3
    <3> QED
      BY <1>3, <3>1
  <2>4. CASE pc[t] \in {"put", "charge"} /\ pc[u] \in {"put", "charge"}
    BY <1>3, <2>4
  <2> QED
    BY <1>3, <2>1, <2>2, <2>3, <2>4 DEF Working
<1>4. pc[Collector] \in Working => arg[Collector] \notin live
  BY DEF Working
<1> QED
  BY <1>2, <1>3, <1>4

LEMMA NextExclusiveInv ==
  ASSUME Exclusive, ExclusiveInv, [Next]_vars
  PROVE  ExclusiveInv'
<1> USE CollectorAssumption, NoneAssumption, SizeAssumption
<1>0. SafetyInv'
  BY NextSafetyInv DEF ExclusiveInv
<1> USE <1>0
<1> USE DEF Exclusive, ExclusiveInv, Ownership, OwnWork, Swept, OwnEntry, Usable,
            SafetyInv, TypeInv, TypeOK, Operands, Entries, Progress, IdleCollector,
            MutualExclusion, Working, Guarded, Labels, Target, ContainsKey
<1>1. ASSUME NEW t \in Thread, NEW m \in Mem, AllocateEmpty(t, m) PROVE ExclusiveInv'
  BY <1>1 DEF AllocateEmpty, Unused
<1>2. ASSUME NEW t \in Thread, NEW m \in Mem, NEW a \in Addr, NEW s \in Size,
             Allocate(t, m, a, s) PROVE ExclusiveInv'
  <2>1. Ownership'
    BY <1>2 DEF Allocate, Unused
  <2>2. OwnWork'
    BY <1>2 DEF Allocate, Unused
  <2>3. Swept'
    BY <1>2 DEF Allocate, Unused
  <2>4. OwnEntry'
    BY <1>2 DEF Allocate, Unused, Registered
  <2> QED
    BY <2>1, <2>2, <2>3, <2>4
<1>3. ASSUME NEW t \in Thread, NEW m \in Mem, Forget(t, m) PROVE ExclusiveInv'
  BY <1>3 DEF Forget
<1>4. ASSUME NEW t \in Thread, NEW u \in Thread, NEW m \in Mem, Pass(t, u, m) PROVE ExclusiveInv'
  BY <1>4 DEF Pass
<1>5. ASSUME NEW t \in Thread, NEW m \in Mem, CallRelease(t, m) PROVE ExclusiveInv'
  BY <1>5 DEF CallRelease
<1>6. ASSUME NEW t \in Thread, Put(t) PROVE ExclusiveInv'
  BY <1>6 DEF Put
<1>7. ASSUME NEW t \in Thread, Charge(t) PROVE ExclusiveInv'
  <2>1. /\ arg[t] \in Mem /\ addrOf[arg[t]] \in Addr
        /\ \A p \in Process : pc'[p] = IF p = t THEN "idle" ELSE pc[p]
        /\ \A p \in Process : arg'[p] = IF p = t THEN None ELSE arg[p]
        /\ \A m \in Mem : holders'[m] = IF m = arg[t] THEN {t} ELSE holders[m]
        /\ t # Collector
        /\ UNCHANGED <<live, addrOf, table, queue, refSet, todo>>
    BY <1>7 DEF Charge
  <2>2. Ownership'
    <3>1. \A m \in Mem : m # arg[t] => holders'[m] = holders[m]
      BY <2>1
    <3>2. holders'[arg[t]] = {t} /\ arg[t] \in live
      BY <1>7, <2>1 DEF Charge
    <3>3. \A m \in Mem : \A u, v \in holders'[m] : u = v
      BY <3>1, <3>2
    <3>4. \A m \in Mem : holders'[m] # {} => m \in live'
      BY <2>1, <3>1, <3>2
    <3> QED
      BY <3>3, <3>4
  \* Another thread that works on the same object would hold it already.
  <2>3. OwnWork'
    <3>1. \A u \in Thread : u # t /\ pc[u] # "idle" => arg[u] # arg[t]
      BY <1>7, <2>1, WorkIsDistinct DEF Charge
    <3> QED
      BY <1>7, <2>1, <3>1, SMTT(30)
  <2>4. Swept'
    BY <2>1
  <2>5. OwnEntry'
    <3>1. \A m \in Mem : Usable(m)' => table'[addrOf'[m]] = m
      BY <1>7, <2>1 DEF Charge
    <3>2. \A p \in Process : Target(p)' = IF p = t THEN addrOf[None] ELSE Target(p)
      BY <2>1
    <3> QED
      BY <2>1, <3>1, <3>2
  <2> QED
    BY <2>2, <2>3, <2>4, <2>5
<1>8. ASSUME NEW t \in Thread, Return(t) PROVE ExclusiveInv'
  BY <1>8 DEF Return
<1>9. ASSUME NEW t \in Thread, ReleasingAll(t) PROVE ExclusiveInv'
  BY <1>9 DEF ReleasingAll, EnterAll, Scan, ReleaseNext, LeaveAll
<1>10. ASSUME NEW p \in Process, Enter(p) PROVE ExclusiveInv'
  BY <1>10 DEF Enter
<1>11. ASSUME NEW p \in Process, Check(p) PROVE ExclusiveInv'
  <2>1. Ownership' /\ OwnWork'
    BY <1>11 DEF Check, Leave
  <2>2. Swept'
    BY <1>11 DEF Check, Leave
  <2>3. OwnEntry'
    BY <1>11 DEF Check, Leave
  <2> QED
    BY <2>1, <2>2, <2>3
<1>12. ASSUME NEW p \in Process, Discharge(p) PROVE ExclusiveInv'
  BY <1>12 DEF Discharge
<1>13. ASSUME NEW p \in Process, Remove(p) PROVE ExclusiveInv'
  <2>1. /\ table[Target(p)] = arg[p] /\ arg[p] \in Mem /\ Target(p) \in Addr
        /\ \A a \in Addr : table'[a] = IF a = Target(p) THEN None ELSE table[a]
        /\ \A q \in Process : pc'[q] = IF q = p THEN "free" ELSE pc[q]
        /\ UNCHANGED <<live, addrOf, holders, queue, arg, refSet, todo>>
    BY <1>13 DEF Remove
  <2>2. Ownership'
    BY <2>1
  <2>3. OwnWork'
    BY <1>13, <2>1 DEF Remove
  \* The entry that goes away is that of the object p works on.
  <2>4. \A m \in Mem : addrOf[m] \in Addr /\ table[addrOf[m]] = m /\ m # arg[p]
                        => table'[addrOf[m]] = m
    BY <2>1
  <2>5. p \in Thread => arg[p] \in live
    BY <1>13, WorkIsDistinct DEF Remove
  <2>6. p = Collector => arg[p] \notin live \cup queue
    BY <1>13 DEF Remove
  <2>7. Swept'
    BY <1>13, <2>1, <2>4, <2>5, <2>6 DEF Remove, Process
  <2>8. \A q \in Process : q # p /\ pc[q] \in Working => arg[q] # arg[p]
    BY <1>13, WorkIsDistinct DEF Remove
  <2>9. \A m \in Mem : Usable(m) => m # arg[p]
    BY <1>13, <2>1, <2>6 DEF Process
  <2>10. OwnEntry'
    <3>1. \A m \in Mem : Usable(m)' => table'[addrOf'[m]] = m
      BY <2>1, <2>4, <2>9
    <3>2. \A q \in Process : Target(q)' = Target(q)
      BY <2>1
    <3> QED
      BY <1>13, <2>1, <2>4, <2>8, <3>1, <3>2
  <2> QED
    BY <2>2, <2>3, <2>7, <2>10
<1>14. ASSUME NEW p \in Process, FreeMemory(p) PROVE ExclusiveInv'
  BY <1>14 DEF FreeMemory, Leave
<1>15. ASSUME NEW m \in Mem, Sweep(m) PROVE ExclusiveInv'
  BY <1>15 DEF Sweep, Reachable, OnStack, Registered
<1>16. ASSUME NEW m \in Mem, Dequeue(m) PROVE ExclusiveInv'
  BY <1>16 DEF Dequeue
<1>17. CASE UNCHANGED vars
  BY <1>17 DEF vars
<1> HIDE DEF ExclusiveInv
<1> QED
  BY <1>1, <1>2, <1>3, <1>4, <1>5, <1>6, <1>7, <1>8, <1>9, <1>10, <1>11, <1>12,
     <1>13, <1>14, <1>15, <1>16, <1>17
  DEF Next, Client, Registering, Releasing, InMonitor

\* No use after free, for clients that own their objects exclusively: see
\* UsableMemoryIsIntact.
THEOREM NoUseAfterFree == ASSUME Exclusive PROVE Spec => []UsableMemoryIsIntact
<1>1. ExclusiveInv => UsableMemoryIsIntact
  BY NoneAssumption DEF ExclusiveInv, SafetyInv, TypeInv, TypeOK, Entries, OwnEntry,
     Usable, UsableMemoryIsIntact
<1>2. ExclusiveInv /\ [Next]_vars => ExclusiveInv'
  BY NextExclusiveInv
<1> QED
  BY InitExclusiveInv, <1>1, <1>2, PTL DEF Spec

\* Only register and the removal in release change the table.
LEMMA TableChanges ==
  ASSUME Next, table' # table
  PROVE  (\E t \in Thread : Put(t)) \/ (\E p \in Process : Remove(p))
<1>1. ASSUME NEW t \in Thread, Client(t) PROVE table' = table
  BY <1>1 DEF Client, AllocateEmpty, Allocate, Forget, Pass, CallRelease, EnterAll
<1>2. ASSUME NEW t \in Thread, Charge(t) \/ Return(t) PROVE table' = table
  BY <1>2 DEF Charge, Return
<1>3. ASSUME NEW t \in Thread, ReleasingAll(t) PROVE table' = table
  BY <1>3 DEF ReleasingAll, EnterAll, Scan, ReleaseNext, LeaveAll
<1>4. ASSUME NEW p \in Process, Enter(p) \/ Check(p) \/ Discharge(p) \/ FreeMemory(p)
      PROVE  table' = table
  BY <1>4 DEF Enter, Check, Discharge, FreeMemory
<1>5. ASSUME NEW m \in Mem, Sweep(m) \/ Dequeue(m) PROVE table' = table
  BY <1>5 DEF Sweep, Dequeue
<1> QED
  BY <1>1, <1>2, <1>3, <1>4, <1>5 DEF Next, Registering, Releasing, InMonitor

\* The collector never frees the block of an object that is not swept: see
\* CollectorSparesLiveObjects.
THEOREM CollectorIsPrecise == ASSUME Exclusive PROVE Spec => CollectorSparesLiveObjects
<1> DEFINE Spares == \A a \in Addr :
                        (ContainsKey(a) /\ table'[a] = None /\ lock = Collector)
                           => table[a] \notin live
<1>1. ExclusiveInv /\ [Next]_vars => [Spares]_vars
  <2> SUFFICES ASSUME ExclusiveInv, Next,
                      NEW a \in Addr, table[a] # None, table'[a] = None, lock = Collector
               PROVE  table[a] \notin live
    BY DEF ContainsKey
  <2> USE CollectorAssumption, NoneAssumption
  <2> USE DEF ExclusiveInv, SafetyInv, TypeInv, TypeOK, Operands, MutualExclusion, Guarded,
              Working, OwnWork, OwnEntry, Swept, Target
  \* Only Remove takes an entry out of the table ...
  <2>1. PICK p \in Process : Remove(p)
    <3>1. ASSUME NEW t \in Thread, Put(t) PROVE FALSE
      BY <3>1 DEF Put
    <3> QED
      BY <3>1, TableChanges
  \* ... and the collector, in the monitor, removes the swept object's own.
  <2>2. p = Collector /\ Target(p) = a
    BY <2>1 DEF Remove
  <2> QED
    BY <2>1, <2>2 DEF Remove
<1>2. ExclusiveInv /\ [Next]_vars => ExclusiveInv'
  BY NextExclusiveInv
<1> QED
  BY InitExclusiveInv, <1>1, <1>2, PTL DEF Spec, CollectorSparesLiveObjects

(***************************************************************************)
(* Part 3: allocatedSize(), for the clients of part 2.                     *)
(***************************************************************************)
Blocks == {a \in Addr : Counted(a)}
BlockSize == [a \in Addr |-> SizeOf(heap[a])]

\* There are finitely many entries in the table, so their sizes have a sum.
SumInv == /\ IsFiniteSet({a \in Addr : ContainsKey(a)})
          /\ TotalIsExact

LEMMA InitSumInv == Init => SumInv
<1> SUFFICES ASSUME Init PROVE SumInv
  OBVIOUS
<1>1. \A a \in Addr : ~ContainsKey(a)
  BY DEF Init, ContainsKey
<1>2. {a \in Addr : ContainsKey(a)} = {} /\ {a \in Addr : Counted(a)} = {}
  BY <1>1 DEF Counted
<1>3. total = 0
  BY DEF Init
<1> QED
  BY <1>2, <1>3, SumOfNone, FS_EmptySet DEF SumInv, TotalIsExact, SizeOfBlocks

\* The sizes of blocks are numbers, and the counted blocks are finitely many.
LEMMA BlocksAreFinite ==
  ASSUME TypeInv, SumInv
  PROVE  /\ IsFiniteSet(Blocks) /\ Blocks \subseteq Addr
         /\ \A a \in Addr : BlockSize[a] \in Int
<1>1. Blocks \subseteq {a \in Addr : ContainsKey(a)}
  BY DEF Blocks, Counted
<1>2. \A a \in Addr : heap[a] \in Int
  <2>1. heap \in [Addr -> Size \cup {Free}]
    BY DEF TypeInv, TypeOK
  <2>2. Size \cup {Free} \subseteq Int
    BY SizeAssumption DEF Free
  <2> QED
    BY <2>1, <2>2
<1> QED
  BY <1>1, <1>2, FS_Subset DEF SumInv, Blocks, BlockSize, SizeOf, HEADER_SIZE

\* Steps that keep the counted blocks and their sizes
LEMMA SameBlocks ==
  ASSUME TypeInv, SumInv, Blocks' = Blocks, \A a \in Blocks : heap'[a] = heap[a],
         UNCHANGED total
  PROVE  TotalIsExact'
<1>1. \A a \in Blocks : BlockSize[a] = BlockSize'[a]
  BY DEF BlockSize, Blocks
<1>2. SumFunctionOnSet(BlockSize, Blocks) = SumFunctionOnSet(BlockSize', Blocks)
  BY <1>1, BlocksAreFinite, SumSame
<1>3. total = SumFunctionOnSet(BlockSize, Blocks)
  BY DEF SumInv, TotalIsExact, SizeOfBlocks, BlockSize, Blocks
<1> QED
  BY <1>2, <1>3 DEF TotalIsExact, SizeOfBlocks, BlockSize, Blocks

\* Steps that leave all of it alone
LEMMA BlocksRest ==
  ASSUME TypeInv, SumInv, UNCHANGED <<heap, table, total>>,
         \A a \in Addr : Counted(a)' <=> Counted(a)
  PROVE  SumInv'
<1>1. {a \in Addr : ContainsKey(a)}' = {a \in Addr : ContainsKey(a)} /\ Blocks' = Blocks
  BY DEF ContainsKey, Blocks
<1>2. TotalIsExact'
  BY <1>1, SameBlocks
<1> QED
  BY <1>1, <1>2 DEF SumInv

\* Whoever charges or discharges a block is alone with it.
LEMMA OneAtABlock ==
  ASSUME ExclusiveInv, NEW p \in Process, NEW q \in Process,
         (p \in Thread /\ pc[p] = "charge") \/ pc[p] \in {"discharge", "remove"},
         (q \in Thread /\ pc[q] = "charge") \/ pc[q] \in {"discharge", "remove"},
         Target(p) = Target(q)
  PROVE  p = q
<1>1. Target(p) \in Addr /\ Target(q) \in Addr
  BY DEF ExclusiveInv, SafetyInv, TypeInv, Operands, Target
<1>2. table[Target(p)] = arg[p] /\ table[Target(q)] = arg[q]
  BY <1>1, NoneAssumption DEF ExclusiveInv, OwnEntry
<1>3. pc[p] \in Working /\ pc[q] \in Working
  BY DEF Working
<1> QED
  BY <1>2, <1>3, WorkIsDistinct

LEMMA NextSumInv ==
  ASSUME Exclusive, ExclusiveInv, SumInv, [Next]_vars
  PROVE  SumInv'
<1> USE CollectorAssumption, NoneAssumption, SizeAssumption
<1>0. /\ TypeInv /\ TypeInv' /\ Entries
      /\ \A t \in Thread : pc[t] \notin {"allScan", "allNext"} /\ todo[t] = {}
  BY NextTypeInv DEF ExclusiveInv, SafetyInv, OwnWork
<1>1. ASSUME NEW t \in Thread, NEW m \in Mem, AllocateEmpty(t, m) PROVE SumInv'
  <2>1. \A p \in Process : arg[p] # m
    BY <1>1 DEF AllocateEmpty, Unused
  <2>2. \A p \in Process : pc[p] \in {"charge", "remove"} => Target(p)' = Target(p) /\ arg[p] \in Mem
    BY <1>0, <1>1, <2>1 DEF AllocateEmpty, Target, TypeInv, TypeOK, Operands, Working
  <2>3. \A a \in Addr : Counted(a)' <=> Counted(a)
    BY <1>1, <2>2 DEF Counted, ContainsKey, AllocateEmpty
  <2> QED
    BY <1>0, <1>1, <2>3, BlocksRest DEF AllocateEmpty
<1>2. ASSUME NEW t \in Thread, NEW m \in Mem, NEW a \in Addr, NEW s \in Size,
             Allocate(t, m, a, s)
      PROVE SumInv'
  <2>1. \A p \in Process : arg[p] # m
    BY <1>2 DEF Allocate, Unused
  <2>2. /\ \A p \in Process : pc'[p] = IF p = t THEN "put" ELSE pc[p]
        /\ \A p \in Process : arg'[p] = IF p = t THEN m ELSE arg[p]
        /\ \A b \in Addr : b # a => heap'[b] = heap[b]
        /\ \A n \in Mem : n # m => addrOf'[n] = addrOf[n]
        /\ pc[t] = "idle" /\ ~Allocated(a)
        /\ UNCHANGED <<table, total>>
    BY <1>0, <1>2 DEF Allocate, TypeInv, TypeOK
  <2>3. \A p \in Process : pc[p] \in {"charge", "remove"} => Target(p)' = Target(p)
    BY <1>0, <2>1, <2>2 DEF Target, TypeInv, TypeOK, Operands, Working
  <2>4. \A b \in Addr : Counted(b)' <=> Counted(b)
    BY <2>2, <2>3 DEF Counted, ContainsKey
  <2>5. \A b \in Blocks : heap'[b] = heap[b]
    BY <1>0, <2>2 DEF Blocks, Counted, ContainsKey, Entries
  <2>6. {b \in Addr : ContainsKey(b)}' = {b \in Addr : ContainsKey(b)} /\ Blocks' = Blocks
    BY <2>2, <2>4 DEF ContainsKey, Blocks
  <2>7. TotalIsExact'
    BY <1>0, <2>2, <2>5, <2>6, SameBlocks
  <2> QED
    BY <2>6, <2>7 DEF SumInv
<1>3. ASSUME NEW t \in Thread, Put(t) PROVE SumInv'
  <2>0. PICK a \in Addr : a = Target(t)
    BY <1>0, <1>3 DEF Target, TypeInv, Operands, Put
  <2>1. /\ a \in Addr /\ table[a] = None /\ arg[t] \in Mem
        /\ table' = [table EXCEPT ![a] = arg[t]]
        /\ \A p \in Process : pc'[p] = IF p = t THEN "charge" ELSE pc[p]
        /\ \A p \in Process : Target(p)' = Target(p)
        /\ UNCHANGED <<heap, total>>
    BY <2>0, <1>0, <1>3
       DEF Put, Target, TypeInv, TypeOK, Operands, Working, ExclusiveInv, SafetyInv, Progress
  <2>3. \A b \in Addr : table'[b] = IF b = a THEN arg[t] ELSE table[b]
    BY <1>0, <2>1 DEF TypeInv, TypeOK
  <2>4. ~Counted(a) /\ ~Counted(a)'
    BY <1>3, <2>1, <2>0 DEF Counted, ContainsKey
  <2>5. \A b \in Addr : b # a => Counted(b)' <=> Counted(b)
    BY <1>3, <2>1, <2>0, <2>3 DEF Put, Counted, ContainsKey
  <2>6. Blocks' = Blocks
    BY <2>4, <2>5 DEF Blocks
  <2>7. {b \in Addr : ContainsKey(b)}' = {b \in Addr : ContainsKey(b)} \cup {a}
    BY <2>1, <2>3 DEF ContainsKey
  <2>8. TotalIsExact'
    BY <1>0, <2>1, <2>6, SameBlocks
  <2> QED
    BY <2>7, <2>8, FS_AddElement DEF SumInv
<1>4. ASSUME NEW t \in Thread, Charge(t) PROVE SumInv'
  <2>0. PICK a \in Addr : a = Target(t)
    BY <1>0, <1>4 DEF Target, TypeInv, Operands, Charge
  <2>1. /\ a \in Addr /\ table[a] = arg[t] /\ arg[t] \in Mem /\ heap[a] # Free
    BY <2>0, <1>0, <1>4
       DEF Charge, Target, TypeInv, TypeOK, Operands, Working, ExclusiveInv, OwnEntry, Entries,
       Allocated
  <2>2. /\ total' = total + SizeOf(heap[a])
        /\ UNCHANGED <<heap, addrOf, table>>
        /\ pc[t] = "charge"
        /\ \A p \in Process : pc'[p] = IF p = t THEN "idle" ELSE pc[p]
        /\ \A p \in Process : p # t => Target(p)' = Target(p)
    BY <1>0, <1>4, <2>0, <2>1 DEF Charge, Target, Header, TypeInv, TypeOK
  <2>3. \A p \in Process : /\ (p \in Thread /\ pc[p] = "charge") \/ pc[p] = "remove"
                           /\ Target(p) = a
                           => p = t
    BY <2>0, <2>2, OneAtABlock
  <2>5. ~Counted(a) /\ Counted(a)'
    BY <2>1, <2>2, <2>3, <2>0 DEF Counted, ContainsKey
  <2>6. \A b \in Addr : b # a => Counted(b)' <=> Counted(b)
    BY <2>2, <2>0 DEF Counted, ContainsKey
  <2>7. Blocks' = Blocks \cup {a} /\ Blocks' \ {a} = Blocks /\ a \in Blocks'
    BY <2>1, <2>5, <2>6 DEF Blocks
  <2>8. BlockSize' = BlockSize /\ BlockSize[a] = SizeOf(heap[a])
    BY <2>1, <2>2 DEF BlockSize, SizeOf
  <2>9. IsFiniteSet(Blocks') /\ \A b \in Blocks' : BlockSize[b] \in Int
    BY <1>0, <2>1, <2>7, BlocksAreFinite, FS_AddElement
  <2>10. SumFunctionOnSet(BlockSize, Blocks') = BlockSize[a] + SumFunctionOnSet(BlockSize, Blocks)
    BY <2>7, <2>9, SumSplit
  <2>11. SumFunctionOnSet(BlockSize, Blocks) \in Int /\ BlockSize[a] \in Int
    BY <1>0, <2>1, BlocksAreFinite, SumType
  <2>12. total = SumFunctionOnSet(BlockSize, Blocks)
    BY DEF SumInv, TotalIsExact, SizeOfBlocks, BlockSize, Blocks
  <2>13. total' = SumFunctionOnSet(BlockSize', Blocks')
    BY <2>2, <2>8, <2>10, <2>11, <2>12
  <2>14. TotalIsExact'
    BY <2>13 DEF TotalIsExact, SizeOfBlocks, BlockSize, Blocks
  <2> QED
    BY <2>2, <2>14 DEF SumInv, ContainsKey
<1>5. ASSUME NEW p \in Process, Discharge(p) PROVE SumInv'
  <2>0. PICK a \in Addr : a = Target(p)
    BY <1>0, <1>5 DEF Target, TypeInv, Operands, Discharge
  <2>1. /\ a \in Addr /\ table[a] # None /\ heap[a] # Free
    BY <2>0, <1>0, <1>5
       DEF Discharge, Target, TypeInv, TypeOK, Operands, Working, ExclusiveInv, SafetyInv,
       Progress, Entries, Allocated
  <2>2. /\ total' = total - SizeOf(heap[a])
        /\ UNCHANGED <<heap, addrOf, table, arg>>
        /\ pc[p] = "discharge"
        /\ \A q \in Process : pc'[q] = IF q = p THEN "remove" ELSE pc[q]
        /\ \A q \in Process : Target(q)' = Target(q)
    BY <1>0, <1>5, <2>0, <2>1 DEF Discharge, Target, Header, TypeInv, TypeOK
  <2>3. \A q \in Process : /\ (q \in Thread /\ pc[q] = "charge") \/ pc[q] = "remove"
                           /\ Target(q) = a
                           => q = p
    BY <2>0, <2>2, OneAtABlock
  <2>5. Counted(a) /\ ~Counted(a)'
    BY <2>1, <2>2, <2>3, <2>0 DEF Counted, ContainsKey
  <2>6. \A b \in Addr : b # a => Counted(b)' <=> Counted(b)
    BY <2>2, <2>0 DEF Counted, ContainsKey
  <2>7. Blocks' = Blocks \ {a} /\ a \in Blocks
    BY <2>1, <2>5, <2>6 DEF Blocks
  <2>8. BlockSize' = BlockSize /\ BlockSize[a] = SizeOf(heap[a])
    BY <2>1, <2>2 DEF BlockSize, SizeOf
  <2>9. IsFiniteSet(Blocks) /\ IsFiniteSet(Blocks') /\ \A b \in Addr : BlockSize[b] \in Int
    BY <1>0, <2>7, BlocksAreFinite, FS_RemoveElement
  <2>10. SumFunctionOnSet(BlockSize, Blocks) = BlockSize[a] + SumFunctionOnSet(BlockSize, Blocks')
    BY <2>7, <2>9, SumSplit DEF Blocks
  <2>11. SumFunctionOnSet(BlockSize, Blocks') \in Int /\ BlockSize[a] \in Int
    BY <2>1, <2>7, <2>9, SumType DEF Blocks
  <2>12. total = SumFunctionOnSet(BlockSize, Blocks)
    BY DEF SumInv, TotalIsExact, SizeOfBlocks, BlockSize, Blocks
  <2>13. total' = SumFunctionOnSet(BlockSize', Blocks')
    BY <2>2, <2>8, <2>10, <2>11, <2>12
  <2>14. TotalIsExact'
    BY <2>13 DEF TotalIsExact, SizeOfBlocks, BlockSize, Blocks
  <2> QED
    BY <2>2, <2>14 DEF SumInv, ContainsKey
<1>6. ASSUME NEW p \in Process, Remove(p) PROVE SumInv'
  <2>0. PICK a \in Addr : a = Target(p)
    BY <1>0, <1>6 DEF Target, TypeInv, Operands, Remove
  <2>1. /\ a \in Addr /\ pc[p] = "remove"
        /\ table' = [table EXCEPT ![a] = None]
        /\ \A q \in Process : pc'[q] = IF q = p THEN "free" ELSE pc[q]
        /\ \A q \in Process : Target(q)' = Target(q)
        /\ UNCHANGED <<heap, total>>
    BY <2>0, <1>0, <1>6 DEF Remove, Target, TypeInv, TypeOK, Operands, Working
  <2>3. \A b \in Addr : table'[b] = IF b = a THEN None ELSE table[b]
    BY <1>0, <2>1 DEF TypeInv, TypeOK
  <2>4. ~Counted(a) /\ ~Counted(a)'
    BY <2>1, <2>0, <2>3 DEF Counted, ContainsKey
  <2>5. \A b \in Addr : b # a => Counted(b)' <=> Counted(b)
    BY <2>1, <2>0, <2>3 DEF Counted, ContainsKey
  <2>6. Blocks' = Blocks
    BY <2>4, <2>5 DEF Blocks
  <2>7. {b \in Addr : ContainsKey(b)}' \subseteq {b \in Addr : ContainsKey(b)}
    BY <2>1, <2>3 DEF ContainsKey
  <2>8. TotalIsExact'
    BY <1>0, <2>1, <2>6, SameBlocks
  <2> QED
    BY <2>7, <2>8, FS_Subset DEF SumInv
<1>7. ASSUME NEW p \in Process, FreeMemory(p) PROVE SumInv'
  <2>1. /\ \A b \in Addr : b # Target(p) => heap'[b] = heap[b]
        /\ table[Target(p)] = None /\ UNCHANGED <<table, total>>
        /\ \A q \in Process : q # p => pc'[q] = pc[q] /\ Target(q)' = Target(q)
        /\ pc[p] = "free" /\ pc'[p] \notin {"charge", "remove"}
    BY <1>0, <1>7 DEF FreeMemory, Leave, Target, TypeInv, TypeOK, ExclusiveInv, SafetyInv, Progress
  <2>2. \A b \in Addr : Counted(b)' <=> Counted(b)
    BY <2>1 DEF Counted, ContainsKey
  <2>3. \A b \in Blocks : heap'[b] = heap[b]
    BY <2>1 DEF Blocks, Counted, ContainsKey
  <2>4. {b \in Addr : ContainsKey(b)}' = {b \in Addr : ContainsKey(b)} /\ Blocks' = Blocks
    BY <2>1, <2>2 DEF ContainsKey, Blocks
  <2>5. TotalIsExact'
    BY <1>0, <2>1, <2>3, <2>4, SameBlocks
  <2> QED
    BY <2>4, <2>5 DEF SumInv
\* The other steps work on no block that is being charged or discharged.
<1>8. ASSUME NEW p \in Process,
             \/ \E m \in Mem, u \in Thread : Forget(p, m) \/ Pass(p, u, m)
             \/ \E m \in Mem : CallRelease(p, m)
             \/ Return(p) \/ ReleasingAll(p) \/ Enter(p) \/ Check(p)
             \/ \E m \in Mem : Sweep(m)
             \/ p = Collector /\ \E m \in Mem : Dequeue(m)
             \/ UNCHANGED vars
      PROVE SumInv'
  <2>1. /\ UNCHANGED <<heap, table, total, addrOf>>
        /\ \A q \in Process : q # p => pc'[q] = pc[q] /\ arg'[q] = arg[q]
        /\ \/ UNCHANGED <<pc, arg>>
           \/ pc[p] \notin {"charge", "remove"} /\ pc'[p] \notin {"charge", "remove"}
    BY <1>0, <1>8
       DEF Forget, Pass, CallRelease, Return, ReleasingAll, EnterAll, Scan, ReleaseNext, LeaveAll,
       Enter, Check, Leave, Sweep, Dequeue, vars, TypeInv, TypeOK
  <2>2. \A b \in Addr : Counted(b)' <=> Counted(b)
    BY <2>1 DEF Counted, ContainsKey, Target
  <2> QED
    BY <1>0, <2>1, <2>2, BlocksRest
<1> QED
  BY <1>1, <1>2, <1>3, <1>4, <1>5, <1>6, <1>7, <1>8
  DEF Next, Client, Registering, Releasing, InMonitor

\* allocatedSize() is exact at every moment, not only at rest: the total and
\* the table are updated in separate steps, but those in between are known.
THEOREM TotalAlwaysExact == ASSUME Exclusive PROVE Spec => []TotalIsExact
<1>1. ExclusiveInv /\ SumInv /\ [Next]_vars => (ExclusiveInv /\ SumInv)'
  BY NextExclusiveInv, NextSumInv
<1>2. SumInv => TotalIsExact
  BY DEF SumInv
<1> QED
  BY InitExclusiveInv, InitSumInv, <1>1, <1>2, PTL DEF Spec

(***************************************************************************)
(* Part 4: for the clients of part 2, the allocator implements the memory  *)
(* service, step by step.                                                  *)
(***************************************************************************)
Block == [a \in Addr |-> Owner(a)]
Held(m) == /\ addrOf[m] # None
           /\ \/ Usable(m)
              \/ \E t \in Thread : arg[t] = m /\ pc[t] \in {"put", "charge"}

\* The choice in Owner is none: one process registers or frees a block.
OwnerFacts ==
    \A a \in Addr :
        /\ ~Allocated(a) => Owner(a) = None
        /\ table[a] # None => Owner(a) = table[a]
        /\ \A p \in Process : pc[p] \in {"put", "free"} /\ Target(p) = a => Owner(a) = arg[p]
        /\ Allocated(a) /\ table[a] = None
              => \E p \in Process : pc[p] \in {"put", "free"} /\ Target(p) = a

LEMMA OwnerIs == SafetyInv => OwnerFacts
<1> SUFFICES ASSUME SafetyInv, NEW a \in Addr
             PROVE  /\ ~Allocated(a) => Owner(a) = None
                    /\ table[a] # None => Owner(a) = table[a]
                    /\ \A p \in Process : pc[p] \in {"put", "free"} /\ Target(p) = a => Owner(a) = arg[p]
                    /\ Allocated(a) /\ table[a] = None
                          => \E p \in Process : pc[p] \in {"put", "free"} /\ Target(p) = a
  BY DEF OwnerFacts
<1>0. a # None
  BY NoneAssumption
<1>1. ~Allocated(a) => Owner(a) = None
  BY DEF Owner
<1>2. table[a] # None => Owner(a) = table[a]
  BY <1>0 DEF Owner, SafetyInv, Entries, ContainsKey
<1>3. ASSUME NEW p \in Process, pc[p] \in {"put", "free"}, Target(p) = a
      PROVE  Owner(a) = arg[p]
  <2>1. Allocated(a) /\ ~ContainsKey(a)
    BY <1>3 DEF SafetyInv, Progress, ContainsKey
  <2>2. \A q \in Process : pc[q] \in {"put", "free"} /\ Target(q) = a => q = p
    BY <1>3 DEF SafetyInv, OnePerBlock
  <2>3. (CHOOSE q \in Process : pc[q] \in {"put", "free"} /\ Target(q) = a) = p
    BY <1>3, <2>2
  <2> QED
    BY <2>1, <2>3 DEF Owner
<1>4. Allocated(a) /\ table[a] = None
         => \E p \in Process : pc[p] \in {"put", "free"} /\ Target(p) = a
  BY DEF SafetyInv, EveryBlockIsTracked, ContainsKey
<1> QED
  BY <1>1, <1>2, <1>3, <1>4

\* A step that moves no block to another object, and lets nobody register or
\* free another, keeps the owners.
LEMMA SameOwners ==
  ASSUME OwnerFacts, OwnerFacts',
         \A a \in Addr : Allocated(a)' <=> Allocated(a),
         UNCHANGED table,
         \A p \in Process : /\ pc'[p] \in {"put", "free"} <=> pc[p] \in {"put", "free"}
                            /\ pc[p] \in {"put", "free"} => arg'[p] = arg[p] /\ Target(p)' = Target(p)
  PROVE  Block' = Block
<1>1. ASSUME NEW a \in Addr PROVE Owner(a)' = Owner(a)
  <2>1. CASE ~Allocated(a)
    BY <2>1 DEF OwnerFacts
  <2>2. CASE table[a] # None
    BY <2>2 DEF OwnerFacts
  <2>3. CASE Allocated(a) /\ table[a] = None
    <3>1. PICK p \in Process : pc[p] \in {"put", "free"} /\ Target(p) = a
      BY <2>3 DEF OwnerFacts
    <3>2. Owner(a) = arg[p] /\ Owner(a)' = arg'[p]
      BY <3>1 DEF OwnerFacts
    <3> QED
      BY <3>1, <3>2
  <2> QED
    BY <2>1, <2>2, <2>3
<1> QED
  BY <1>1 DEF Block

\* What the abstract service sees of a step
SeesNothing == UNCHANGED Block /\ \A m \in Mem : Held(m)' <=> Held(m)
SeesAllocate(m, a) == /\ ~Held(m) /\ Block[a] = None /\ \A b \in Addr : Block[b] # m
                      /\ Block' = [Block EXCEPT ![a] = m]
                      /\ \A n \in Mem : Held(n)' <=> Held(n) \/ n = m
SeesGiveUp(m) == /\ Held(m) /\ UNCHANGED Block
                 /\ \A n \in Mem : Held(n)' <=> Held(n) /\ n # m
SeesFree(a) == /\ Block[a] # None /\ ~(Block[a] \in Mem /\ Held(Block[a]))
               /\ Block' = [Block EXCEPT ![a] = None]
               /\ \A m \in Mem : Held(m)' <=> Held(m)
SeesStep == \/ SeesNothing
            \/ \E m \in Mem, a \in Addr : SeesAllocate(m, a)
            \/ \E m \in Mem : SeesGiveUp(m)
            \/ \E a \in Addr : SeesFree(a)

LEMMA ServiceStep == ASSUME SeesStep PROVE [Service!Next]_(Service!vars)
<1> USE DEF Block, Held, Service!Next, Service!Allocate, Service!GiveUp, Service!Free, Service!vars
<1>1. CASE SeesNothing
  BY <1>1 DEF SeesNothing
<1>2. ASSUME NEW m \in Mem, NEW a \in Addr, SeesAllocate(m, a)
      PROVE  Service!Allocate(m, a)
  BY <1>2 DEF SeesAllocate
<1>3. ASSUME NEW m \in Mem, SeesGiveUp(m) PROVE Service!GiveUp(m)
  BY <1>3 DEF SeesGiveUp
<1>4. ASSUME NEW a \in Addr, SeesFree(a) PROVE Service!Free(a)
  BY <1>4 DEF SeesFree
<1> QED
  BY <1>1, <1>2, <1>3, <1>4 DEF SeesStep

\* Objects that threads hold or register have not been swept.
LEMMA HeldIsLive == ASSUME ExclusiveInv, NEW m \in Mem, Held(m) PROVE m \in live
BY DEF Held, Usable, ExclusiveInv, Ownership, OwnWork

LEMMA NextSees ==
  ASSUME Exclusive, ExclusiveInv, OwnerFacts, OwnerFacts', [Next]_vars
  PROVE  SeesStep
<1> USE CollectorAssumption, NoneAssumption, SizeAssumption
<1> USE DEF SeesStep
<1>0. /\ SafetyInv /\ TypeInv /\ TypeInv' /\ Ownership /\ OwnWork /\ Swept /\ OwnEntry
      /\ \A t \in Thread : pc[t] \notin {"allScan", "allNext"} /\ todo[t] = {}
  BY NextTypeInv DEF ExclusiveInv, SafetyInv, OwnWork
<1>1. ASSUME NEW t \in Thread, NEW m \in Mem, AllocateEmpty(t, m) PROVE SeesNothing
  <2>1. /\ m \notin live /\ \A p \in Process : arg[p] # m
        /\ \A n \in Mem : n # m => addrOf'[n] = addrOf[n] /\ holders'[n] = holders[n]
        /\ addrOf'[m] = None
        /\ UNCHANGED <<heap, table, pc, arg>>
    BY <1>0, <1>1 DEF AllocateEmpty, Unused, TypeInv, TypeOK
  <2>2. \A p \in Process : pc[p] \in {"put", "free"} => Target(p)' = Target(p)
    BY <1>0, <2>1 DEF TypeInv, Operands, Working, Target
  <2>3. UNCHANGED Block
    BY <2>1, <2>2, SameOwners DEF Allocated
  <2>4. \A n \in Mem : Held(n)' <=> Held(n)
    BY <2>1, HeldIsLive DEF Held, Usable
  <2> QED
    BY <2>3, <2>4 DEF SeesNothing
<1>2. ASSUME NEW t \in Thread, NEW m \in Mem, NEW a \in Addr, NEW s \in Size,
             Allocate(t, m, a, s)
      PROVE SeesAllocate(m, a)
  <2>1. /\ m \notin live /\ \A p \in Process : arg[p] # m
        /\ \A b \in Addr : table[b] # m
        /\ \A n \in Mem : addrOf'[n] = IF n = m THEN a ELSE addrOf[n]
        /\ \A b \in Addr : heap'[b] = IF b = a THEN s ELSE heap[b]
        /\ \A p \in Process : pc'[p] = IF p = t THEN "put" ELSE pc[p]
        /\ \A p \in Process : arg'[p] = IF p = t THEN m ELSE arg[p]
        /\ pc[t] = "idle" /\ ~Allocated(a) /\ s # Free
        /\ UNCHANGED <<table, holders>>
    BY <1>0, <1>2 DEF Allocate, Unused, Registered, TypeInv, TypeOK, Free
  <2>2. ~Held(m)
    BY <2>1, HeldIsLive
  <2>3. Block[a] = None
    BY <2>1 DEF Block, OwnerFacts
  <2>4. ASSUME NEW b \in Addr PROVE Owner(b) # m
    <3>1. CASE ~Allocated(b)
      BY <3>1 DEF OwnerFacts
    <3>2. CASE table[b] # None
      BY <2>1, <3>2 DEF OwnerFacts
    <3>3. CASE Allocated(b) /\ table[b] = None
      BY <2>1, <3>3 DEF OwnerFacts
    <3> QED
      BY <3>1, <3>2, <3>3
  <2>5. ASSUME NEW b \in Addr, b # a PROVE Owner(b)' = Owner(b)
    <3>1. CASE ~Allocated(b)
      BY <2>1, <2>5, <3>1 DEF OwnerFacts, Allocated
    <3>2. CASE table[b] # None
      BY <2>1, <3>2 DEF OwnerFacts
    <3>3. CASE Allocated(b) /\ table[b] = None
      <4>1. PICK p \in Process : pc[p] \in {"put", "free"} /\ Target(p) = b
        BY <3>3 DEF OwnerFacts
      <4>2. p # t /\ pc'[p] = pc[p] /\ arg'[p] = arg[p] /\ arg[p] \in Mem
        BY <1>0, <2>1, <4>1 DEF TypeInv, Operands, Working
      <4>3. Target(p)' = b
        BY <2>1, <4>1, <4>2 DEF Target
      <4> QED
        BY <4>1, <4>2, <4>3 DEF OwnerFacts
    <3> QED
      BY <3>1, <3>2, <3>3
  <2>6. Owner(a)' = m
    BY <2>1 DEF OwnerFacts, Target
  <2>7. Block' = [Block EXCEPT ![a] = m]
    BY <2>5, <2>6 DEF Block
  <2>8. Held(m)'
    BY <2>1 DEF Held
  <2>9. \A n \in Mem : n # m => (Held(n)' <=> Held(n))
    <3>1. ASSUME NEW n \in Mem, n # m
          PROVE  /\ addrOf'[n] = addrOf[n] /\ holders'[n] = holders[n] /\ arg[t] # n
                 /\ \A u \in Thread : arg'[u] = n <=> arg[u] = n
      BY <1>0, <2>1, <3>1 DEF OwnWork
    <3>2. \A u \in Thread : pc[u] \in {"put", "charge"} => pc'[u] = pc[u]
      BY <2>1
    <3> QED
      BY <2>1, <3>1, <3>2 DEF Held, Usable
  <2> QED
    BY <2>2, <2>3, <2>4, <2>7, <2>8, <2>9 DEF SeesAllocate, Block
<1>3. ASSUME NEW t \in Thread, Put(t) PROVE SeesNothing
  <2>1. /\ arg[t] \in Mem /\ Target(t) \in Addr
        /\ \A b \in Addr : table'[b] = IF b = Target(t) THEN arg[t] ELSE table[b]
        /\ \A p \in Process : pc'[p] = IF p = t THEN "charge" ELSE pc[p]
        /\ \A p \in Process : Target(p)' = Target(p)
        /\ pc[t] = "put"
        /\ UNCHANGED <<heap, addrOf, holders, arg>>
    BY <1>0, <1>3 DEF Put, Target, TypeInv, TypeOK, Operands, Working
  <2>2. Owner(Target(t))' = Owner(Target(t))
    BY <2>1 DEF OwnerFacts
  <2>3. ASSUME NEW b \in Addr, b # Target(t) PROVE Owner(b)' = Owner(b)
    <3>1. CASE ~Allocated(b) \/ table[b] # None
      BY <2>1, <2>3, <3>1 DEF OwnerFacts, Allocated
    <3>2. CASE Allocated(b) /\ table[b] = None
      <4>1. PICK p \in Process : pc[p] \in {"put", "free"} /\ Target(p) = b
        BY <3>2 DEF OwnerFacts
      <4> QED
        BY <2>1, <2>3, <4>1 DEF OwnerFacts
    <3> QED
      BY <3>1, <3>2
  <2>4. UNCHANGED Block
    BY <2>1, <2>2, <2>3 DEF Block
  <2>5. \A n \in Mem : Held(n)' <=> Held(n)
    BY <2>1 DEF Held, Usable
  <2> QED
    BY <2>4, <2>5 DEF SeesNothing
<1>4. ASSUME NEW t \in Thread, Charge(t) PROVE SeesNothing
  <2> DEFINE m == arg[t]
  <2>1. /\ m \in Mem /\ addrOf[m] \in Addr /\ pc[t] = "charge" /\ m # None
        /\ \A p \in Process : pc'[p] = IF p = t THEN "idle" ELSE pc[p]
        /\ \A p \in Process : arg'[p] = IF p = t THEN None ELSE arg[p]
        /\ \A n \in Mem : holders'[n] = IF n = m THEN {t} ELSE holders[n]
        /\ UNCHANGED <<heap, table, addrOf>>
    BY <1>0, <1>4 DEF Charge, TypeInv, TypeOK, Operands, Working
  <2>2. UNCHANGED Block
    BY <2>1, SameOwners DEF Allocated, Target
  <2>3. \A u \in Thread : u # t => arg[u] # m
    <3>1. \A u \in Thread : pc[u] \in Working \/ arg[u] = None
      BY <1>0 DEF OwnWork, TypeInv, TypeOK, Labels, Working
    <3> QED
      BY <2>1, <3>1, WorkIsDistinct DEF Working
  <2>4. \A n \in Mem : Held(n)' <=> Held(n)
    <3>1. ASSUME NEW n \in Mem, n = m PROVE Held(n) /\ Held(n)'
      <4>1. \A u \in Thread : arg'[u] # n
        BY <2>1, <2>3, <3>1
      <4>2. addrOf'[n] # None /\ holders'[n] # {}
        BY <2>1, <3>1
      <4>3. Held(n)'
        BY <4>1, <4>2 DEF Held, Usable
      <4> QED
        BY <2>1, <3>1, <4>3 DEF Held
    <3>2. ASSUME NEW n \in Mem, n # m PROVE Held(n)' <=> Held(n)
      <4> HIDE DEF m
      <4>1. arg[t] = m
        BY DEF m
      <4>2. \A u \in Thread : arg'[u] = n <=> arg[u] = n
        BY <2>1, <3>2, <4>1
      <4>3. \A u \in Thread : arg[u] = n => pc'[u] = pc[u]
        BY <2>1, <3>2, <4>1
      <4> QED
        BY <2>1, <3>2, <4>2, <4>3 DEF Held, Usable
    <3> QED
      BY <3>1, <3>2
  <2> QED
    BY <2>2, <2>4 DEF SeesNothing
\* A client lets go of an object, by forgetting it or by releasing it.
<1>5. ASSUME NEW t \in Thread, NEW m \in Mem, Forget(t, m) \/ CallRelease(t, m)
      PROVE SeesNothing \/ SeesGiveUp(m)
  <2>1. /\ pc[t] = "idle" /\ t \in holders[m] /\ arg[t] = None
        /\ \A n \in Mem : n # m => holders'[n] = holders[n]
        /\ \A u \in Thread : u # t => pc'[u] = pc[u] /\ arg'[u] = arg[u]
        /\ \/ holders'[m] = holders[m] \ {t} /\ UNCHANGED <<pc, arg>>
           \/ arg'[t] = m /\ pc'[t] = "enter" /\ UNCHANGED holders
        /\ arg'[t] = None \/ arg'[t] = m
        /\ pc'[t] \notin {"put", "charge", "free"}
        /\ arg'[Collector] = arg[Collector] /\ pc'[Collector] = pc[Collector]
        /\ UNCHANGED <<heap, table, addrOf>>
    BY <1>0, <1>5 DEF Forget, CallRelease, TypeInv, TypeOK, OwnWork
  <2>2. UNCHANGED Block
    BY <2>1, SameOwners DEF Allocated, Target
  <2>3. ~Held(m)'
    <3>1. \A u \in Thread : arg[u] = m => pc[u] \notin {"put", "charge"}
      BY <1>0, <2>1 DEF OwnWork
    <3>2. \A u \in Thread : arg'[u] = m => pc'[u] \notin {"put", "charge"}
      BY <2>1, <3>1
    <3>3. ~Usable(m)'
      <4>1. holders[m] = {t}
        BY <1>0, <2>1 DEF Ownership
      <4> QED
        BY <2>1, <4>1 DEF Usable
    <3> QED
      BY <3>2, <3>3 DEF Held
  <2>4. \A n \in Mem : n # m => (Held(n)' <=> Held(n))
    <3>1. ASSUME NEW n \in Mem, n # m PROVE Held(n)' <=> Held(n)
      <4>1. \A u \in Thread : /\ arg'[u] = n <=> arg[u] = n
                              /\ arg[u] = n => pc'[u] = pc[u]
        BY <2>1, <3>1
      <4> QED
        BY <2>1, <3>1, <4>1 DEF Held, Usable
    <3> QED
      BY <3>1
  <2> QED
    BY <2>2, <2>3, <2>4 DEF SeesNothing, SeesGiveUp
<1>6. ASSUME NEW t \in Thread, NEW u \in Thread, NEW m \in Mem, Pass(t, u, m)
      PROVE SeesNothing
  <2>1. /\ \A n \in Mem : holders'[n] # {} <=> holders[n] # {}
        /\ UNCHANGED <<heap, table, addrOf, pc, arg>>
    BY <1>0, <1>6 DEF Pass, TypeInv, TypeOK
  <2>2. UNCHANGED Block
    BY <2>1, SameOwners DEF Allocated, Target
  <2>3. \A n \in Mem : Held(n)' <=> Held(n)
    BY <2>1 DEF Held, Usable
  <2> QED
    BY <2>2, <2>3 DEF SeesNothing
<1>7. ASSUME NEW t \in Thread, Return(t) PROVE SeesNothing
  <2> DEFINE m == arg[t]
  <2>1. /\ m \in Mem /\ pc[t] = "return" /\ m # None /\ holders[m] = {t}
        /\ \A p \in Process : pc'[p] = IF p = t THEN "idle" ELSE pc[p]
        /\ \A p \in Process : arg'[p] = IF p = t THEN None ELSE arg[p]
        /\ \A n \in Mem : holders'[n] = IF n = m THEN holders[n] \ {t} ELSE holders[n]
        /\ UNCHANGED <<heap, table, addrOf>>
    <3>1. pc[t] = "return" /\ m \in Mem
      BY <1>0, <1>7 DEF Return, TypeInv, Operands, Working
    <3>2. holders[m] = {t}
      BY <1>0, <3>1 DEF OwnWork
    <3>3. holders' = [holders EXCEPT ![m] = holders[m] \ {t}]
      BY <1>7 DEF Return, Exclusive
    <3> HIDE DEF m
    <3>4. /\ pc' = [pc EXCEPT ![t] = "idle"] /\ arg' = [arg EXCEPT ![t] = None]
          /\ UNCHANGED <<heap, table, addrOf>>
      BY <1>7 DEF Return
    <3>5. /\ \A p \in Process : pc'[p] = IF p = t THEN "idle" ELSE pc[p]
          /\ \A p \in Process : arg'[p] = IF p = t THEN None ELSE arg[p]
      BY <1>0, <3>4 DEF TypeInv, TypeOK
    <3>6. \A n \in Mem : holders'[n] = IF n = m THEN holders[n] \ {t} ELSE holders[n]
      BY <1>0, <3>3 DEF TypeInv, TypeOK
    <3> QED
      BY <3>1, <3>2, <3>4, <3>5, <3>6
  <2>2. UNCHANGED Block
    BY <2>1, SameOwners DEF Allocated, Target
  <2>3. \A u \in Thread : arg[u] = m => pc[u] \notin {"put", "charge"}
    BY <1>0, <2>1 DEF OwnWork
  <2>4. ASSUME NEW n \in Mem, n = m PROVE ~Held(n) /\ ~Held(n)'
    <3>1. ~Held(n)
      BY <2>1, <2>3, <2>4 DEF Held, Usable
    <3>2. holders'[n] = {} /\ \A u \in Thread : arg'[u] = n => pc'[u] \notin {"put", "charge"}
      BY <2>1, <2>3, <2>4
    <3> QED
      BY <3>1, <3>2 DEF Held, Usable
  <2>5. ASSUME NEW n \in Mem, n # m PROVE Held(n)' <=> Held(n)
    <3> HIDE DEF m
    <3>1. arg[t] = m
      BY DEF m
    <3>2. \A u \in Thread : /\ arg'[u] = n <=> arg[u] = n
                            /\ arg[u] = n => pc'[u] = pc[u]
      BY <2>1, <2>5, <3>1
    <3> QED
      BY <2>1, <2>5, <3>2 DEF Held, Usable
  <2> QED
    BY <2>2, <2>4, <2>5 DEF SeesNothing
<1>8. ASSUME NEW t \in Thread, ReleasingAll(t) PROVE FALSE
  BY <1>0, <1>8 DEF ReleasingAll, EnterAll, Scan, ReleaseNext, LeaveAll, Exclusive
<1>9. ASSUME NEW p \in Process, Enter(p) \/ Check(p) \/ Discharge(p) PROVE SeesNothing
  <2>1. /\ pc[p] \notin {"put", "charge", "free"} /\ pc'[p] \notin {"put", "charge", "free"}
        /\ \A q \in Process : q # p => pc'[q] = pc[q] /\ arg'[q] = arg[q]
        /\ p \in Thread => arg'[p] = arg[p]
        /\ UNCHANGED <<heap, table, addrOf, holders>>
    BY <1>0, <1>9 DEF Enter, Check, Discharge, Leave, TypeInv, TypeOK
  <2>2. UNCHANGED Block
    BY <2>1, SameOwners DEF Allocated, Target
  <2>3. \A n \in Mem : Held(n)' <=> Held(n)
    <3>1. \A u \in Thread : /\ arg'[u] = arg[u]
                            /\ pc'[u] \in {"put", "charge"} <=> pc[u] \in {"put", "charge"}
      BY <2>1
    <3> QED
      BY <2>1, <3>1 DEF Held, Usable
  <2> QED
    BY <2>2, <2>3 DEF SeesNothing
<1>10. ASSUME NEW p \in Process, Remove(p) PROVE SeesNothing
  <2>1. /\ arg[p] \in Mem /\ Target(p) \in Addr /\ table[Target(p)] = arg[p]
        /\ \A b \in Addr : table'[b] = IF b = Target(p) THEN None ELSE table[b]
        /\ \A q \in Process : pc'[q] = IF q = p THEN "free" ELSE pc[q]
        /\ \A q \in Process : Target(q)' = Target(q)
        /\ pc[p] = "remove"
        /\ UNCHANGED <<heap, addrOf, holders, arg>>
    BY <1>0, <1>10 DEF Remove, Target, TypeInv, TypeOK, Operands, Working, OwnEntry
  <2>2. Owner(Target(p))' = Owner(Target(p))
    BY <2>1 DEF OwnerFacts
  <2>3. ASSUME NEW b \in Addr, b # Target(p) PROVE Owner(b)' = Owner(b)
    <3>1. CASE ~Allocated(b) \/ table[b] # None
      BY <2>1, <2>3, <3>1 DEF OwnerFacts, Allocated
    <3>2. CASE Allocated(b) /\ table[b] = None
      <4>1. PICK q \in Process : pc[q] \in {"put", "free"} /\ Target(q) = b
        BY <3>2 DEF OwnerFacts
      <4> QED
        BY <2>1, <2>3, <4>1 DEF OwnerFacts
    <3> QED
      BY <3>1, <3>2
  <2>4. UNCHANGED Block
    BY <2>1, <2>2, <2>3 DEF Block
  <2>5. \A n \in Mem : Held(n)' <=> Held(n)
    <3>1. \A u \in Thread : pc'[u] \in {"put", "charge"} <=> pc[u] \in {"put", "charge"}
      BY <2>1
    <3> QED
      BY <2>1, <3>1 DEF Held, Usable
  <2> QED
    BY <2>4, <2>5 DEF SeesNothing
\* Nobody holds the object whose block is freed: the thread is about to
\* return from its release, or the collector found it swept.
<1>11. ASSUME NEW p \in Process, FreeMemory(p) PROVE \E a \in Addr : SeesFree(a)
  <2>0. PICK a \in Addr : a = Target(p)
    BY <1>0, <1>11 DEF Target, TypeInv, Operands, FreeMemory
  <2>1. /\ arg[p] \in Mem /\ pc[p] = "free" /\ pc'[p] \notin {"put", "charge", "free"}
        /\ \A b \in Addr : heap'[b] = IF b = a THEN Free ELSE heap[b]
        /\ \A q \in Process : q # p => pc'[q] = pc[q] /\ arg'[q] = arg[q]
        /\ p \in Thread => arg'[p] = arg[p]
        /\ UNCHANGED <<table, addrOf, holders>>
    BY <1>0, <1>11, <2>0 DEF FreeMemory, Leave, TypeInv, TypeOK, Operands, Working, Target
  <2>2. Owner(a) = arg[p] /\ Owner(a)' = None
    <3>1. Owner(a) = arg[p]
      BY <2>0, <2>1 DEF OwnerFacts
    <3>2. ~Allocated(a)'
      BY <2>1 DEF Allocated
    <3> QED
      BY <3>1, <3>2 DEF OwnerFacts
  <2>3. ASSUME NEW b \in Addr, b # a PROVE Owner(b)' = Owner(b)
    <3>1. CASE ~Allocated(b) \/ table[b] # None
      BY <2>1, <2>3, <3>1 DEF OwnerFacts, Allocated
    <3>2. CASE Allocated(b) /\ table[b] = None
      <4>1. PICK q \in Process : pc[q] \in {"put", "free"} /\ Target(q) = b
        BY <3>2 DEF OwnerFacts
      <4>2. q # p /\ pc'[q] = pc[q] /\ arg'[q] = arg[q] /\ Target(q)' = Target(q)
        BY <2>0, <2>1, <2>3, <4>1 DEF Target
      <4> QED
        BY <4>1, <4>2 DEF OwnerFacts
    <3> QED
      BY <3>1, <3>2
  <2>4. Block' = [Block EXCEPT ![a] = None] /\ Block[a] = arg[p]
    BY <2>2, <2>3 DEF Block
  <2>5. \A n \in Mem : Held(n)' <=> Held(n)
    <3>1. \A u \in Thread : /\ arg'[u] = arg[u]
                            /\ pc'[u] \in {"put", "charge"} <=> pc[u] \in {"put", "charge"}
      BY <2>1
    <3> QED
      BY <2>1, <3>1 DEF Held, Usable
  <2>6. ~Held(arg[p])
    <3>1. CASE p = Collector
      BY <1>0, <2>1, <3>1, HeldIsLive DEF Swept
    <3>2. CASE p \in Thread
      <4>1. holders[arg[p]] = {p}
        BY <1>0, <2>1, <3>2 DEF OwnWork
      <4>2. \A u \in Thread : arg[u] = arg[p] => pc[u] \notin {"put", "charge"}
        BY <1>0, <4>1 DEF OwnWork
      <4> QED
        BY <3>2, <4>2 DEF Held, Usable
    <3> QED
      BY <3>1, <3>2
  <2> QED
    BY <2>1, <2>4, <2>5, <2>6 DEF SeesFree
<1>12. ASSUME NEW m \in Mem, Sweep(m) \/ Dequeue(m) PROVE SeesNothing
  <2>1. /\ \A u \in Thread : pc'[u] = pc[u] /\ arg'[u] = arg[u]
        /\ (pc[Collector] = "idle" /\ pc'[Collector] = "enter") \/ UNCHANGED <<pc, arg>>
        /\ UNCHANGED <<heap, table, addrOf, holders>>
    BY <1>0, <1>12 DEF Sweep, Dequeue, TypeInv, TypeOK
  <2>2. UNCHANGED Block
    BY <2>1, SameOwners DEF Allocated, Target
  <2>3. \A n \in Mem : Held(n)' <=> Held(n)
    BY <2>1 DEF Held, Usable
  <2> QED
    BY <2>2, <2>3 DEF SeesNothing
<1>13. CASE UNCHANGED vars
  <2>1. UNCHANGED Block
    BY <1>13, SameOwners DEF vars, Allocated, Target
  <2>2. \A n \in Mem : Held(n)' <=> Held(n)
    BY <1>13 DEF vars, Held, Usable
  <2> QED
    BY <2>1, <2>2 DEF SeesNothing
<1> QED
  BY <1>1, <1>2, <1>3, <1>4, <1>5, <1>6, <1>7, <1>8, <1>9, <1>10, <1>11, <1>12, <1>13
  DEF Next, Client, Registering, Releasing, InMonitor

\* The allocator is a memory service: with its table, its lock, its collector
\* and the GC taken away, blocks are allocated, given up and freed.
THEOREM AllocatorIsAService == ASSUME Exclusive PROVE Spec => ServiceRefinement
<1>1. Init => Service!Init
  BY DEF Init, Service!Init, Owner, Allocated, Usable
<1>2. SafetyInv => OwnerFacts
  BY OwnerIs
<1>3. ExclusiveInv => SafetyInv
  BY DEF ExclusiveInv
<1>4. ExclusiveInv /\ [Next]_vars => ExclusiveInv'
  BY NextExclusiveInv
<1>5. ExclusiveInv /\ OwnerFacts /\ OwnerFacts' /\ [Next]_vars => [Service!Next]_(Service!vars)
  BY NextSees, ServiceStep
<1> QED
  BY InitExclusiveInv, <1>1, <1>2, <1>3, <1>4, <1>5, PTL
  DEF Spec, ServiceRefinement, Service!Spec
=============================================================================

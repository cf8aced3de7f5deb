--------------------------- MODULE LifecycleProofs ---------------------------
(***************************************************************************)
(* What TLAPS proves of MMapLifecycle, for any number of buffers and       *)
(* addresses and any sizes: what close, free and the collector may do to   *)
(* each other when addresses are used again.                               *)
(***************************************************************************)
EXTENDS MMapLifecycle, DataLemmas, TLAPS

\* The types of what the addresses are about.
TypeInv == /\ mapped \in [Addr -> Map \cup {None}]
           /\ state \in [Map -> {"new", "open", "closed", "lost", "collected"}]
           /\ freed \subseteq Map
           /\ addr \in [Map -> Addr \cup {FAILED}]
           /\ table \in [Addr \cup {FAILED} -> Map \cup {None}]
           /\ queue \subseteq Map

\* Some buffer at address a was freed instead of closed.
Tainted(a) == \E n \in freed : addr[n] = a

\* What the system, the table and the buffers say of an address agrees.
AddressesAgree ==
    /\ \A a \in Addr : mapped[a] # None => addr[mapped[a]] = a /\ table[a] = mapped[a]
    /\ \A a \in Addr : table[a] # None => addr[table[a]] = a

\* A new buffer has no address; buffers are freed, or wait in the queue, after
\* they were open.
Stages == /\ \A m \in Map : state[m] = "new" => addr[m] = FAILED
          /\ \A m \in freed : state[m] \notin {"new", "open"}
          /\ \A m \in queue : state[m] = "collected"

\* At an address that was never freed, the entry in the table is of the
\* buffer that is mapped there, and the collector's references are current.
Current ==
    /\ \A a \in Addr : table[a] # None /\ mapped[a] # table[a] => Tainted(a)
    /\ \A m \in queue : addr[m] \in Addr /\ table[addr[m]] # m => Tainted(addr[m])
    /\ \A m \in Map : state[m] = "open" /\ ~Mapped(m) => Tainted(addr[m])

LifeInv == TypeInv /\ AddressesAgree /\ Stages /\ Current

LEMMA InitLifeInv == Init => LifeInv
  BY NameAssumption
  DEF Init, LifeInv, TypeInv, AddressesAgree, Stages, Current, Mapped

LEMMA NextLifeInv == LifeInv /\ [Next]_vars => LifeInv'
<1> SUFFICES ASSUME LifeInv, [Next]_vars PROVE LifeInv'
  OBVIOUS
<1> USE NameAssumption
<1> USE DEF LifeInv, TypeInv, AddressesAgree, Stages, Current, Mapped, Tainted
<1>1. ASSUME NEW m \in Map, NEW s \in Size, New(m, s) PROVE LifeInv'
  <2>1. ASSUME Register(m, FAILED, s), UNCHANGED <<mapped, addr>> PROVE LifeInv'
    BY <1>1, <2>1 DEF New, Register
  <2>2. ASSUME NEW a \in Addr, mapped[a] = None, mapped' = [mapped EXCEPT ![a] = m],
               addr' = [addr EXCEPT ![m] = a], Register(m, a, s)
        PROVE LifeInv'
    <3>1. TypeInv'
      BY <1>1, <2>2 DEF New, Register
    <3>2. \A n \in freed \cup queue : n # m /\ addr'[n] = addr[n]
      BY <1>1, <2>2 DEF New
    <3>3. \A b \in Addr : Tainted(b) => Tainted(b)'
      BY <1>1, <2>2, <3>2 DEF New
    <3>4. AddressesAgree'
      BY <1>1, <2>2 DEF New, Register
    <3>5. Stages'
      BY <1>1, <2>2 DEF New
    <3>6. Current'
      BY <1>1, <2>2, <3>2, <3>3 DEF New, Register
    <3> QED
      BY <3>1, <3>4, <3>5, <3>6
  <2> QED
    BY <1>1, <2>1, <2>2 DEF New
<1>2. ASSUME NEW m \in Map, Close(m) PROVE LifeInv'
  BY <1>2 DEF Close, Release, Unmapped
<1>3. ASSUME NEW m \in Map, Free(m) PROVE LifeInv'
  BY <1>3 DEF Free, Unmapped
<1>4. ASSUME NEW m \in Map, Forget(m) PROVE LifeInv'
  BY <1>4 DEF Forget
<1>5. ASSUME NEW m \in Map, Sweep(m) PROVE LifeInv'
  BY <1>5 DEF Sweep
<1>6. ASSUME NEW m \in Map, Dequeue(m) PROVE LifeInv'
  BY <1>6 DEF Dequeue, Release, Unmapped
<1>7. CASE UNCHANGED vars
  BY <1>7 DEF vars
<1> QED
  BY <1>1, <1>2, <1>3, <1>4, <1>5, <1>6, <1>7 DEF Next, Done

\* An open buffer loses its mapping only to a buffer that had the same
\* address and was freed behind the allocator's back.
THEOREM OnlyFreeInterferes == Spec => []OnlyFreedBuffersInterfere
<1>1. LifeInv => OnlyFreedBuffersInterfere
  BY DEF LifeInv, Stages, Current, Tainted, TypeInv, OnlyFreedBuffersInterfere
<1> QED
  BY InitLifeInv, NextLifeInv, <1>1, PTL DEF Spec

\* The collector can find every mapping there is.
THEOREM MappingsAreTracked == Spec => []EveryMappingIsTracked
<1>1. LifeInv => EveryMappingIsTracked
  BY DEF LifeInv, AddressesAgree, EveryMappingIsTracked
<1> QED
  BY InitLifeInv, NextLifeInv, <1>1, PTL DEF Spec

-----------------------------------------------------------------------------
(* The total                                                               *)

Used == {a \in Addr : mapped[a] # None}
SizeAt == [a \in Addr |-> size[mapped[a]]]

\* No mmap failed and no buffer was freed: what TotalIsMapped is about.
Orderly == freed = {} /\ \A m \in Map : state[m] # "new" => addr[m] # FAILED

SumInv == /\ size \in [Map -> Nat]
          /\ total \in Int
          /\ IsFiniteSet(Used)
          /\ Orderly => total = SumFunctionOnSet(SizeAt, Used)

LEMMA InitSumInv == Init => SumInv
<1> SUFFICES ASSUME Init PROVE SumInv
  OBVIOUS
<1>1. Used = {} /\ total = 0 /\ size \in [Map -> Nat]
  BY DEF Init, Used
<1> QED
  BY <1>1, SumOfNone, FS_EmptySet DEF SumInv

\* The sizes summed are numbers.
LEMMA SizesAre ==
  ASSUME LifeInv, SumInv
  PROVE  Used \subseteq Addr /\ \A a \in Used : SizeAt[a] \in Int
BY DEF LifeInv, TypeInv, SumInv, Used, SizeAt

\* Steps that touch no mapping
LEMMA MappingsRest ==
  ASSUME LifeInv, SumInv, UNCHANGED <<mapped, size, total>>, Orderly' => Orderly
  PROVE  SumInv'
<1>1. UNCHANGED <<Used, SizeAt>>
  BY DEF Used, SizeAt
<1> QED
  BY <1>1 DEF SumInv

\* A release of what is mapped: the size goes with the mapping.
LEMMA ReleaseSum ==
  ASSUME LifeInv, SumInv, NEW m \in Map, Release(m), UNCHANGED size,
         Orderly' => Orderly,
         Orderly /\ table[addr[m]] # None => addr[m] \in Addr /\ mapped[addr[m]] = m
  PROVE  SumInv'
<1> USE NameAssumption
<1>1. CASE table[addr[m]] = None
  BY <1>1, MappingsRest DEF Release
<1>2. CASE table[addr[m]] # None
  <2>1. total' = total - size[m] /\ mapped' = Unmapped(addr[m])
    BY <1>2 DEF Release
  <2>2. size[m] \in Nat /\ total' \in Int
    BY <2>1 DEF SumInv
  <2>3. Used' \subseteq Used /\ IsFiniteSet(Used')
    <3>1. Used' \subseteq Used
      BY <2>1 DEF Used, Unmapped, LifeInv, TypeInv
    <3> QED
      BY <3>1, FS_Subset DEF SumInv
  <2>4. ASSUME Orderly' PROVE total' = SumFunctionOnSet(SizeAt', Used')
    <3> PICK a \in Addr : a = addr[m] /\ mapped[a] = m
      BY <1>2, <2>4
    <3>1. Used' = Used \ {a} /\ a \in Used /\ SizeAt[a] = size[m]
      BY <2>1 DEF Used, Unmapped, SizeAt, LifeInv, TypeInv
    <3>2. \A b \in Used' : SizeAt[b] = SizeAt'[b]
      BY <2>1, <3>1 DEF Used, Unmapped, SizeAt, LifeInv, TypeInv
    <3>3. SumFunctionOnSet(SizeAt, Used') = SumFunctionOnSet(SizeAt', Used')
      BY <2>3, <3>2, SumSame
    <3>4. SumFunctionOnSet(SizeAt, Used) = SizeAt[a] + SumFunctionOnSet(SizeAt, Used')
      BY <3>1, SizesAre, SumSplit DEF SumInv
    <3>5. SumFunctionOnSet(SizeAt, Used') \in Int
      BY <2>3, SizesAre, SumType
    <3> QED
      BY <2>1, <2>2, <2>4, <3>1, <3>3, <3>4, <3>5 DEF SumInv
  <2> QED
    BY <2>2, <2>3, <2>4 DEF SumInv
<1> QED
  BY <1>1, <1>2

LEMMA NextSumInv == LifeInv /\ SumInv /\ [Next]_vars => SumInv'
<1> SUFFICES ASSUME LifeInv, SumInv, [Next]_vars PROVE SumInv'
  OBVIOUS
<1> USE NameAssumption
<1>1. ASSUME NEW m \in Map, NEW s \in Size, New(m, s) PROVE SumInv'
  <2>1. /\ size' = [size EXCEPT ![m] = s] /\ s \in Nat /\ total' = total + s
        /\ state[m] = "new" /\ state' = [state EXCEPT ![m] = "open"] /\ freed' = freed
    BY <1>1 DEF New, Register
  <2>2. size' \in [Map -> Nat] /\ total' \in Int
    BY <2>1 DEF SumInv
  <2>3. \A b \in Used : mapped[b] \in Map /\ mapped[b] # m
    BY <2>1 DEF Used, LifeInv, TypeInv, AddressesAgree, Stages
  <2>4. CASE UNCHANGED <<mapped, addr>>
    <3>1. ~Orderly'
      BY <2>1, <2>4 DEF Orderly, LifeInv, TypeInv, Stages
    <3>2. Used' = Used
      BY <2>4 DEF Used
    <3> QED
      BY <2>2, <3>1, <3>2 DEF SumInv
  <2>5. ASSUME NEW a \in Addr, mapped[a] = None, mapped' = [mapped EXCEPT ![a] = m],
               addr' = [addr EXCEPT ![m] = a]
        PROVE  SumInv'
    <3>1. Used' = Used \cup {a} /\ a \notin Used
      BY <2>5 DEF Used, LifeInv, TypeInv
    <3>2. IsFiniteSet(Used')
      BY <3>1, FS_AddElement DEF SumInv
    <3>3. Orderly' => Orderly
      BY <2>1, <2>5 DEF Orderly, LifeInv, TypeInv
    <3>4. SizeAt'[a] = s /\ \A b \in Used : SizeAt[b] = SizeAt'[b]
      BY <2>1, <2>3, <2>5 DEF SizeAt, Used, LifeInv, TypeInv, SumInv
    <3>5. SumFunctionOnSet(SizeAt, Used) = SumFunctionOnSet(SizeAt', Used)
      BY <3>4, SumSame DEF SumInv
    <3>6. Used' \ {a} = Used /\ a \in Used' /\ \A b \in Used' : SizeAt'[b] \in Int
      BY <2>1, <3>1, <3>4, SizesAre
    <3>7. SumFunctionOnSet(SizeAt', Used') = SizeAt'[a] + SumFunctionOnSet(SizeAt', Used)
      BY <3>2, <3>6, SumSplit
    <3>8. Orderly' => total' = SumFunctionOnSet(SizeAt', Used')
      BY <2>1, <3>3, <3>4, <3>5, <3>7 DEF SumInv
    <3> QED
      BY <2>2, <3>2, <3>8 DEF SumInv
  <2> QED
    BY <1>1, <2>4, <2>5 DEF New
<1>2. ASSUME NEW m \in Map, Close(m) PROVE SumInv'
  <2>1. Orderly' => Orderly
    BY <1>2 DEF Close, Orderly, LifeInv, TypeInv
  <2>2. Orderly => addr[m] \in Addr /\ mapped[addr[m]] = m
    BY <1>2 DEF Close, Orderly, LifeInv, TypeInv, Current, Tainted, Mapped
  <2> QED
    BY <1>2, <2>1, <2>2, ReleaseSum DEF Close
<1>3. ASSUME NEW m \in Map, Free(m) PROVE SumInv'
  <2>1. ~Orderly'
    BY <1>3 DEF Free, Orderly
  <2>2. Used' \subseteq Used
    BY <1>3 DEF Free, Unmapped, Used, LifeInv, TypeInv
  <2>3. IsFiniteSet(Used')
    BY <2>2, FS_Subset DEF SumInv
  <2> QED
    BY <1>3, <2>1, <2>3 DEF Free, SumInv
<1>4. ASSUME NEW m \in Map, Forget(m) \/ Sweep(m) PROVE SumInv'
  <2>1. Orderly' => Orderly
    BY <1>4 DEF Forget, Sweep, Orderly, LifeInv, TypeInv
  <2> QED
    BY <1>4, <2>1, MappingsRest DEF Forget, Sweep
\* A reference in the queue is of the buffer that is mapped at its address.
<1>5. ASSUME NEW m \in Map, Dequeue(m) PROVE SumInv'
  <2>1. Orderly' => Orderly
    BY <1>5 DEF Dequeue, Orderly
  <2>2. Orderly /\ table[addr[m]] # None => addr[m] \in Addr /\ mapped[addr[m]] = m
    BY <1>5 DEF Dequeue, Orderly, LifeInv, TypeInv, Stages, Current, Tainted
  <2> QED
    BY <1>5, <2>1, <2>2, ReleaseSum DEF Dequeue
<1>6. CASE UNCHANGED vars
  <2>1. Orderly' => Orderly
    BY <1>6 DEF vars, Orderly
  <2> QED
    BY <1>6, <2>1, MappingsRest DEF vars
<1> QED
  BY <1>1, <1>2, <1>3, <1>4, <1>5, <1>6 DEF Next, Done

\* allocatedSize() is the size of the mappings there are.
THEOREM TotalIsOfMappings == Spec => []TotalIsMapped
<1>1. SumInv => TotalIsMapped
  <2> SUFFICES ASSUME SumInv, Orderly
               PROVE  total = SumFunction([a \in Used |-> size[mapped[a]]])
    BY DEF TotalIsMapped, Orderly, Used
  <2> DEFINE f == [a \in Used |-> size[mapped[a]]]
  <2>1. \A a \in Used : f[a] = SizeAt[a]
    BY DEF SizeAt, Used
  <2>2. DOMAIN f = Used
    OBVIOUS
  <2> HIDE DEF f
  <2>3. SumFunctionOnSet(f, Used) = SumFunctionOnSet(SizeAt, Used)
    BY <2>1, SumSame DEF SumInv
  <2>4. total = SumFunction(f)
    BY <2>2, <2>3 DEF SumFunction, SumInv
  <2> QED
    BY <2>4 DEF f
<1> QED
  BY InitLifeInv, NextLifeInv, InitSumInv, NextSumInv, <1>1, PTL DEF Spec
=============================================================================

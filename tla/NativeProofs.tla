---------------------------- MODULE NativeProofs ----------------------------
(***************************************************************************)
(* What TLAPS proves of LArrayNative, for any number of threads, sizes of  *)
(* pages, granules and DWORDs, and mappings.                               *)
(***************************************************************************)
EXTENDS LArrayNative, TLAPS

\* The functions from some elements of S to V.
Partial(S, V) == UNION {[T -> V] : T \in SUBSET S}

Task == [pc : {"idle", "view", "buffers", "failed", "toArray", "fromArray"},
         retry : Nat, promise : Partial(Position, Nat),
         copy : {[i \in {} |-> 0]} \cup [Index -> Int],
         from : Int, at : Int, len : Int, why : {"none", "locked", "unmapped", "handle"}]
View == [state : {"none", "null", "mapped"}, offset : Nat, size : Nat, mode : 0 .. 2, base : Nat]
Mapping == [Position -> Nat]

TypeInv == /\ mem \in Mapping /\ written \in Mapping /\ disk \in Mapping /\ durable \in Mapping
           /\ view \in View
           /\ dup \in {"none", "failed", "read", "write"}
           /\ task \in [Thread -> Task]
           /\ array \in [Index -> Int]

Due(t) == DOMAIN task[t].promise

\* Bytes move down from the memory to the cache and to the disk.
Downward == \A p \in Position : disk[p] <= written[p] /\ written[p] <= mem[p]

\* The view begins where the page of the region begins, it is there when
\* Windows can map it, and a flush of it covers the region.
Covered == view.state # "none" => /\ view.base = MapPosition(view.offset)
                                  /\ Region \subseteq Position
                                  /\ AlignsToGranule => Mapped
                                  /\ FitsDword => Region \subseteq Flushed

\* What a flush promises was written, through a handle that can write; when
\* it gets to the file's buffers, it is in the cache.
Promises ==
    /\ \A t \in Thread :
          /\ \A p \in Due(t) : task[t].promise[p] <= mem[p]
          /\ FitsDword /\ task[t].pc = "buffers" =>
               \A p \in Due(t) : task[t].promise[p] <= written[p]
          /\ Due(t) # {} => dup # "read"
          /\ task[t].pc = "buffers" => dup # "none"
          /\ Due(t) # {} /\ Mapped => view.mode = 1 /\ Due(t) \subseteq Region
    /\ view.state # "none" => dup # "none" /\ (view.mode # 0 => dup # "read")

\* A thread copies to or from bytes of a mapping that stays.
Copies == \A t \in Thread :
             Copying(t) => Mapped /\ task[t].from .. task[t].from + task[t].len - 1 \subseteq Region

NativeInv == /\ TypeInv /\ Downward /\ Covered /\ Promises /\ Copies
             /\ CloseSparesFlush
             /\ FitsDword => FlushedIsDurable

-----------------------------------------------------------------------------
\* A 64-bit number comes together again from its halves.
LEMMA Halves == \A n \in Nat : ViewBase(n) = n
  BY NativeAssumption DEF ViewBase, Joined, High, Low

LEMMA Pages == ASSUME NEW o \in Nat
               PROVE  /\ PagePosition(o) \in 0 .. o
                      /\ MapPosition(o) \in 0 .. o
                      /\ o = MapPosition(o) + PagePosition(o)
  BY NativeAssumption DEF MapPosition, PagePosition

\* A DWORD holds a size up to the number of its values, which it takes for 0.
LEMMA Sizes == ASSUME NEW n \in Nat \ {0}, n <= Dword
               PROVE  (IF Low(n) = 0 THEN n ELSE Low(n)) = n
  BY NativeAssumption DEF Low

LEMMA IdleIsTask ==
  Idle \in Task /\ DOMAIN Idle.promise = {} /\ Idle.pc = "idle" /\ Idle.why = "none"
<1>1. \A S, V : [p \in {} |-> 0] \in Partial(S, V) \/ 0 \notin V
  BY DEF Partial
<1>2. [p \in {} |-> 0] \in Partial(Position, Nat)
  BY <1>1
<1> QED
  BY <1>2 DEF Idle, Task

LEMMA InitNativeInv == NativeInit => NativeInv
<1> SUFFICES ASSUME NativeInit PROVE NativeInv
  OBVIOUS
<1> USE NativeAssumption DEF NativeInit
<1>1. Idle \in Task
  BY IdleIsTask
<1>2. TypeInv
  <2>1. mem \in Mapping /\ written = mem /\ disk = mem /\ durable = mem
    BY DEF Mapping
  <2>2. array \in [Index -> Int]
    BY DEF JavaValue
  <2> QED
    BY <1>1, <2>1, <2>2 DEF TypeInv, View, NoView
<1>3. \A t \in Thread : Due(t) = {} /\ task[t].pc = "idle" /\ task[t].why = "none"
  BY DEF Due, Idle
<1>4. Downward /\ FlushedIsDurable
  BY DEF Downward, FlushedIsDurable
<1>5. Covered
  BY DEF Covered, NoView
<1> QED
  BY <1>2, <1>3, <1>4, <1>5 DEF NativeInv, Promises, Copies, Copying, NoView, CloseSparesFlush

\* A new mapping begins where the page of its region begins, whatever halves
\* the offset is passed in, and a flush of it covers the region.
LEMMA MapCovers ==
  ASSUME TypeInv, NEW o \in Offset, NEW s \in Size, NEW mode \in 0 .. 2, NEW d \in BOOLEAN,
         Mmap(o, s, mode, d)
  PROVE  Covered' /\ view' \in View
<1> USE NativeAssumption
<1>1. /\ o \in Nat /\ s \in Nat /\ s > 0
      /\ view'.offset = o /\ view'.size = s /\ view'.base = ViewBase(MapPosition(o))
      /\ view'.state \in {"mapped", "null"} /\ view'.mode = mode
  BY DEF Mmap
<1>2. /\ MapPosition(o) \in Nat /\ PagePosition(o) \in Nat
      /\ o = MapPosition(o) + PagePosition(o) /\ view'.base = MapPosition(o)
  BY <1>1, Pages, Halves
<1>3. view' \in View
  BY <1>1, <1>2 DEF View, Mmap
<1>4. ASSUME FitsDword PROVE Region' \subseteq Flushed'
  <2> DEFINE n == MapSize(o, s)
  <2>1. n \in Nat \ {0} /\ n <= Dword /\ n = s + PagePosition(o)
    BY <1>1, <1>2, <1>4 DEF Mmap, MapSize
  <2>2. Flushed' = MapPosition(o) .. MapPosition(o) + n - 1
    BY <1>1, <1>2, <2>1, Sizes DEF Flushed
  <2>3. Region' = o .. o + s - 1
    BY <1>1 DEF Region
  <2> HIDE DEF n
  <2> QED
    BY <1>1, <1>2, <2>1, <2>2, <2>3
<1>5. Region' \subseteq Position /\ (AlignsToGranule => Mapped')
  BY <1>1 DEF Region, Position, Mapped, Mmap
<1> QED
  BY <1>1, <1>2, <1>3, <1>4, <1>5 DEF Covered

\* What a thread may turn to, while the others go on with what they do.
LEMMA TurnsTo ==
  ASSUME NativeInv, NEW t \in Thread, NEW r \in Task, task' = [task EXCEPT ![t] = r],
         UNCHANGED <<maps, written>>, mem' \in Mapping, \A p \in Position : mem[p] <= mem'[p],
         \A p \in DOMAIN r.promise : r.promise[p] <= mem[p],
         r.pc # "buffers", r.why = "handle" => dup = "failed",
         DOMAIN r.promise # {} => /\ dup # "read"
                                  /\ Mapped => view.mode = 1 /\ DOMAIN r.promise \subseteq Region,
         r.pc \in {"toArray", "fromArray"} => Mapped /\ r.from .. r.from + r.len - 1 \subseteq Region
  PROVE  /\ task' \in [Thread -> Task]
         /\ Promises' /\ Covered' /\ CloseSparesFlush' /\ Copies'
<1> USE DEF NativeInv, maps
<1>1. task' \in [Thread -> Task]
  BY DEF TypeInv
<1>2. \A u \in Thread : task'[u] = IF u = t THEN r ELSE task[u]
  BY DEF TypeInv
<1>3. Covered'
  BY DEF Covered, Flushed, Region, Mapped
<1>4. CloseSparesFlush' /\ Copies'
  BY <1>2 DEF CloseSparesFlush, Copies, Copying, Region, Mapped
<1>5. Promises'
  <2>1. ASSUME NEW u \in Thread, NEW p \in Due(u)'
        PROVE  task'[u].promise[p] <= mem'[p]
    <3>1. p \in Position /\ task'[u].promise[p] \in Nat
      BY <1>1 DEF Due, Task, Partial
    <3>2. mem[p] \in Nat /\ mem'[p] \in Nat /\ mem[p] <= mem'[p]
      BY <3>1 DEF TypeInv, Mapping
    <3>3. task'[u].promise[p] <= mem[p]
      BY <1>2 DEF Due, Promises
    <3> QED
      BY <3>1, <3>2, <3>3
  <2>2. ASSUME NEW u \in Thread
        PROVE  /\ FitsDword /\ task'[u].pc = "buffers" =>
                    \A p \in Due(u)' : task'[u].promise[p] <= written'[p]
               /\ Due(u)' # {} => dup' # "read"
               /\ task'[u].pc = "buffers" => dup' # "none"
               /\ Due(u)' # {} /\ Mapped' => view'.mode = 1 /\ Due(u)' \subseteq Region'
    <3>1. CASE u = t
      <4>1. task'[u] = r
        BY <1>2, <3>1
      <4>2. Due(u)' = DOMAIN r.promise
        BY <4>1 DEF Due
      <4> QED
        BY <4>1, <4>2 DEF Mapped, Region
    <3>2. CASE u # t
      <4>1. task'[u] = task[u]
        BY <1>2, <3>2
      <4> QED
        BY <4>1 DEF Promises, Due, Mapped, Region
    <3> QED
      BY <3>1, <3>2
  <2>3. view'.state # "none" => dup' # "none" /\ (view'.mode # 0 => dup' # "read")
    BY DEF Promises
  <2> QED
    BY <2>1, <2>2, <2>3 DEF Promises
<1> QED
  BY <1>1, <1>3, <1>4, <1>5

\* The same, when the thread only reads: the rest of the invariant stays too.
LEMMA OnlyTurnsTo ==
  ASSUME NativeInv, NEW t \in Thread, NEW r \in Task, task' = [task EXCEPT ![t] = r],
         UNCHANGED <<files, maps>>, array' \in [Index -> Int],
         \A p \in DOMAIN r.promise : r.promise[p] <= mem[p],
         r.pc # "buffers", r.why = "handle" => dup = "failed",
         DOMAIN r.promise # {} => /\ dup # "read"
                                  /\ Mapped => view.mode = 1 /\ DOMAIN r.promise \subseteq Region,
         r.pc \in {"toArray", "fromArray"} => Mapped /\ r.from .. r.from + r.len - 1 \subseteq Region
  PROVE  NativeInv'
<1>1. mem' \in Mapping /\ \A p \in Position : mem[p] <= mem'[p]
  BY DEF files, NativeInv, TypeInv, Mapping
<1>2. /\ task' \in [Thread -> Task]
      /\ Promises' /\ Covered' /\ CloseSparesFlush' /\ Copies'
  BY <1>1, TurnsTo DEF files, maps
<1>3. TypeInv' /\ Downward' /\ (FitsDword => FlushedIsDurable')
  BY <1>2 DEF NativeInv, TypeInv, Downward, FlushedIsDurable, files, maps
<1> QED
  BY <1>2, <1>3 DEF NativeInv

\* A flush that gives up.
LEMMA Failing ==
  ASSUME NativeInv, NEW t \in Thread, task[t].pc \in {"view", "buffers"},
         NEW why \in {"locked", "unmapped", "handle"}, FailFlush(t, why),
         why = "handle" => dup = "failed", UNCHANGED <<files, maps, arrays>>
  PROVE  NativeInv'
<1> DEFINE r == [task[t] EXCEPT !.pc = "failed", !.why = why]
<1>1. task[t] \in Task
  BY DEF NativeInv, TypeInv
<1>2. task' = [task EXCEPT ![t] = r]
  BY DEF FailFlush, NativeInv, TypeInv
<1>3. r \in Task /\ r.promise = task[t].promise /\ r.pc = "failed" /\ r.why = why
  BY <1>1 DEF Task
<1> HIDE DEF r
<1> QED
  BY <1>2, <1>3, OnlyTurnsTo DEF NativeInv, TypeInv, Promises, Due, arrays

\* The invariant says little of the array and nothing of handle.
LEMMA Unmoved ==
  ASSUME NativeInv, array' \in [Index -> Int], UNCHANGED <<files, maps, task>>
  PROVE  NativeInv'
<1> USE DEF NativeInv, files, maps
<1>1. TypeInv' /\ Downward' /\ Covered' /\ Copies'
  BY DEF TypeInv, Downward, Covered, Copies, Copying, Mapped, Region, Flushed
<1>2. Promises' /\ CloseSparesFlush' /\ (FitsDword => FlushedIsDurable')
  BY DEF Promises, Due, Mapped, Region, CloseSparesFlush, FlushedIsDurable
<1> QED
  BY <1>1, <1>2

LEMMA NextNativeInv ==
  ASSUME NativeInv, [NativeNext]_nvars
  PROVE  NativeInv'
<1> USE NativeAssumption
<1> USE DEF NativeInv, files, maps, arrays
<1>1. ASSUME NEW o \in Offset, NEW s \in Size, NEW mode \in 0 .. 2, NEW d \in BOOLEAN,
             Mmap(o, s, mode, d)
      PROVE NativeInv'
  <2>1. Covered' /\ view' \in View
    BY <1>1, MapCovers
  <2>2. TypeInv'
    BY <1>1, <2>1 DEF Mmap, DuplicateHandle, TypeInv
  <2>3. \A t \in Thread : task[t] = Idle /\ task'[t] = Idle
    BY <1>1 DEF Mmap
  <2>4. Promises'
    BY <1>1, IdleIsTask, <2>3 DEF Mmap, DuplicateHandle, Promises, Due
  <2>5. CloseSparesFlush' /\ Copies'
    BY IdleIsTask, <2>3 DEF CloseSparesFlush, Copies, Copying
  <2>6. Downward' /\ (FitsDword => FlushedIsDurable')
    BY <1>1 DEF Mmap, Downward, FlushedIsDurable
  <2> QED
    BY <2>1, <2>2, <2>4, <2>5, <2>6
<1>2. CASE Munmap
  <2>1. TypeInv' /\ Covered'
    BY <1>2 DEF Munmap, TypeInv, View, NoView, Covered
  <2>2. Promises'
    BY <1>2 DEF Munmap, NoView, Promises, Due, Mapped
  <2> QED
    BY <1>2, <2>1, <2>2 DEF Munmap, Downward, FlushedIsDurable, CloseSparesFlush, Copies, Copying
<1>3. CASE CloseFile
  BY <1>3 DEF CloseFile, TypeInv, Covered, Flushed, Region, Promises, Due, Mapped, Downward,
              FlushedIsDurable, CloseSparesFlush, Copies, Copying
<1>4. ASSUME NEW t \in Thread, StartFlush(t)
      PROVE NativeInv'
  <2> DEFINE r == [Idle EXCEPT !.pc = "view",
                     !.promise = [p \in IF view.mode = 1 THEN Region ELSE {} |-> mem[p]]]
  <2>0. view.state # "none" /\ task' = [task EXCEPT ![t] = r] /\ UNCHANGED <<files, maps, arrays>>
    BY <1>4 DEF StartFlush, Begin
  <2>1. Region \subseteq Position
    BY <2>0 DEF Covered
  <2>2. /\ DOMAIN r.promise = IF view.mode = 1 THEN Region ELSE {}
        /\ \A p \in DOMAIN r.promise : r.promise[p] = mem[p] /\ mem[p] \in Nat
        /\ r.pc = "view" /\ r.why = "none"
    BY <2>1 DEF Idle, TypeInv, Mapping
  <2>3. r.promise \in [DOMAIN r.promise -> Nat] /\ DOMAIN r.promise \subseteq Position
    BY <2>1, <2>2 DEF Idle
  <2>4. r \in Task
    <3>1. r.promise \in Partial(Position, Nat)
      BY <2>3 DEF Partial
    <3>2. r = [Idle EXCEPT !.pc = "view", !.promise = r.promise]
      BY DEF Idle
    <3> HIDE DEF r
    <3> QED
      BY <3>1, <3>2, IdleIsTask DEF Task
  <2>5. DOMAIN r.promise # {} => /\ dup # "read"
                                 /\ Mapped => view.mode = 1 /\ DOMAIN r.promise \subseteq Region
    BY <2>0, <2>2 DEF Promises
  <2> HIDE DEF r
  <2>6. \A p \in DOMAIN r.promise : r.promise[p] <= mem[p]
    BY <2>2
  <2> QED
    BY <2>0, <2>2, <2>4, <2>5, <2>6, OnlyTurnsTo DEF TypeInv
<1>5. ASSUME NEW t \in Thread, FlushView(t)
      PROVE NativeInv'
  <2>0. /\ task[t].pc = "view" /\ Mapped /\ task' = [task EXCEPT ![t].pc = "buffers"]
        /\ written' = IF view.mode = 1 THEN Raised(written, mem, Flushed) ELSE written
        /\ UNCHANGED <<mem, disk, durable, view, dup>>
    BY <1>5 DEF FlushView
  <2>1. /\ written' \in Mapping
        /\ \A p \in Position : written[p] <= written'[p] /\ written'[p] <= mem[p]
        /\ view.mode = 1 => \A p \in Position \cap Flushed : mem[p] <= written'[p]
    <3>1. \A p \in Position : mem[p] \in Nat /\ written[p] \in Nat /\ written[p] <= mem[p]
      BY DEF TypeInv, Mapping, Downward
    <3>2. CASE view.mode = 1
      <4>1. written' = Raised(written, mem, Flushed)
        BY <2>0, <3>2
      <4>2. \A p \in Position :
              written'[p] = IF p \in Flushed /\ mem[p] > written[p] THEN mem[p] ELSE written[p]
        BY <4>1 DEF Raised
      <4>3. written' \in Mapping
        BY <3>1, <4>1 DEF Raised, Mapping
      <4>4. \A p \in Position : written[p] <= written'[p] /\ written'[p] <= mem[p]
        BY <3>1, <4>2
      <4>5. \A p \in Position \cap Flushed : mem[p] <= written'[p]
        BY <3>1, <4>2
      <4> QED
        BY <4>3, <4>4, <4>5
    <3>3. CASE view.mode # 1
      <4>1. written' = written
        BY <2>0, <3>3
      <4>2. written' \in Mapping
        BY <4>1 DEF TypeInv
      <4>3. \A p \in Position : written[p] <= written'[p] /\ written'[p] <= mem[p]
        BY <3>1, <4>1
      <4> QED
        BY <3>3, <4>2, <4>3
    <3> QED
      BY <3>2, <3>3
  <2>2. task' \in [Thread -> Task]
    <3> DEFINE r == [task[t] EXCEPT !.pc = "buffers"]
    <3>1. task[t] \in Task /\ task' = [task EXCEPT ![t] = r]
      BY <2>0 DEF TypeInv
    <3>2. r \in Task
      BY <3>1 DEF Task
    <3> HIDE DEF r
    <3> QED
      BY <3>1, <3>2 DEF TypeInv
  <2>3. \A u \in Thread : /\ task'[u].promise = task[u].promise /\ task'[u].why = task[u].why
                          /\ u # t => task'[u].pc = task[u].pc
    BY <2>0 DEF TypeInv, Task
  <2>4. Promises'
    <3>1. ASSUME FitsDword, NEW u \in Thread, NEW p \in Due(u), task'[u].pc = "buffers"
          PROVE  task[u].promise[p] <= written'[p]
      <4>1. p \in Position /\ task[u].promise[p] \in Nat /\ task[u].promise[p] <= mem[p]
        BY DEF TypeInv, Task, Partial, Due, Promises
      <4>2. mem[p] \in Nat /\ written[p] \in Nat /\ written'[p] \in Nat
        BY <2>1, <4>1 DEF TypeInv, Mapping
      <4>3. CASE u = t
        <5>1. view.mode = 1 /\ p \in Region
          BY <2>0, <4>3 DEF Promises
        <5>2. p \in Flushed
          BY <2>0, <3>1, <5>1 DEF Covered, Mapped
        <5> QED
          BY <2>1, <4>1, <4>2, <5>1, <5>2
      <4>4. CASE u # t
        BY <2>1, <2>3, <3>1, <4>1, <4>2, <4>4 DEF Promises
      <4> QED
        BY <4>3, <4>4
    <3>2. \A u \in Thread : Due(u)' = Due(u)
      BY <2>3 DEF Due
    <3> QED
      BY <2>0, <2>3, <3>1, <3>2 DEF Promises, Mapped, Region
  <2>5. TypeInv' /\ Covered' /\ (FitsDword => FlushedIsDurable')
    BY <1>5, <2>0, <2>1, <2>2
       DEF FlushView, TypeInv, Covered, Flushed, Region, Mapped, FlushedIsDurable
  <2>6. Downward'
    <3>1. \A p \in Position : /\ disk[p] \in Nat /\ written[p] \in Nat /\ written'[p] \in Nat
                             /\ disk[p] <= written[p]
      BY <2>1 DEF TypeInv, Mapping, Downward
    <3> QED
      BY <2>0, <2>1, <3>1 DEF Downward
  <2>7. CloseSparesFlush' /\ Copies'
    <3>1. \A u \in Thread : /\ task'[u].from = task[u].from /\ task'[u].len = task[u].len
                            /\ Copying(u)' => Copying(u)
      BY <2>0 DEF TypeInv, Task, Copying
    <3> QED
      BY <2>0, <2>3, <3>1 DEF CloseSparesFlush, Copies, Region, Mapped
  <2> QED
    BY <2>4, <2>5, <2>6, <2>7
<1>6. ASSUME NEW t \in Thread, FlushBuffers(t)
      PROVE NativeInv'
  <2>0. task[t].pc = "buffers" /\ UNCHANGED <<mem, written, view, handle, dup>>
    BY <1>6 DEF FlushBuffers
  <2>1. CASE FlushHandle
    <3> DEFINE r == Raised(durable, task[t].promise, Due(t))
    <3>0. /\ disk' = IF dup = "write" THEN written ELSE disk
          /\ durable' = r /\ task' = [task EXCEPT ![t] = Idle]
      BY <1>6, <2>1 DEF FlushBuffers, Due
    <3>1. /\ task' \in [Thread -> Task]
          /\ Promises' /\ Covered' /\ CloseSparesFlush' /\ Copies'
      <4>1. mem' \in Mapping /\ \A p \in Position : mem[p] <= mem'[p]
        BY <2>0 DEF TypeInv, Mapping
      <4> QED
        BY <2>0, <3>0, <4>1, IdleIsTask, TurnsTo
    <3>2. disk' \in Mapping /\ Downward'
      <4>1. \A p \in Position : disk[p] <= written[p] /\ written[p] <= mem[p] /\ written[p] \in Nat
        BY DEF Downward, TypeInv, Mapping
      <4> QED
        BY <2>0, <3>0, <4>1 DEF TypeInv, Downward
    <3>3. \A p \in Position \cap Due(t) : task[t].promise[p] \in Nat
      BY DEF TypeInv, Task, Partial, Due
    <3>4. /\ r \in Mapping
          /\ \A p \in Position : r[p] = IF p \in Due(t) /\ task[t].promise[p] > durable[p]
                                       THEN task[t].promise[p] ELSE durable[p]
      <4>1. \A p \in Position : durable[p] \in Nat
        BY DEF TypeInv, Mapping
      <4> QED
        BY <3>3, <4>1 DEF Raised, Mapping
    <3> HIDE DEF r
    <3>5. FitsDword => FlushedIsDurable'
      <4> SUFFICES ASSUME FitsDword, NEW p \in Position PROVE durable'[p] <= disk'[p]
        BY DEF FlushedIsDurable
      <4>1. /\ durable[p] \in Nat /\ disk[p] \in Nat /\ written[p] \in Nat
            /\ durable[p] <= disk[p] /\ disk[p] <= written[p]
        BY DEF TypeInv, Mapping, FlushedIsDurable, Downward
      <4>2. durable[p] <= disk'[p]
        BY <3>0, <4>1
      <4>3. CASE p \in Due(t)
        <5>1. dup = "write"
          BY <2>1, <4>3 DEF FlushHandle, Promises
        <5>2. task[t].promise[p] <= disk'[p]
          BY <2>0, <3>0, <4>3, <5>1 DEF Promises
        <5> QED
          BY <3>0, <3>4, <4>2, <4>3, <5>2
      <4>4. CASE p \notin Due(t)
        BY <3>0, <3>4, <4>2, <4>4
      <4> QED
        BY <4>3, <4>4
    <3> QED
      BY <1>6, <2>0, <3>0, <3>1, <3>2, <3>4, <3>5 DEF FlushBuffers, TypeInv
  <2>2. CASE ~FlushHandle
    <3>0. FailFlush(t, "handle") /\ UNCHANGED <<disk, durable>>
      BY <1>6, <2>2 DEF FlushBuffers
    <3>1. dup \in {"none", "failed"}
      BY <2>2 DEF FlushHandle, TypeInv
    <3> QED
      BY <1>6, <2>0, <3>0, <3>1, Failing DEF FlushBuffers, Promises
  <2> QED
    BY <2>1, <2>2
<1>7. ASSUME NEW t \in Thread, LockViolation(t)
      PROVE NativeInv'
  <2>0. task[t] \in Task /\ task[t].pc = "view" /\ UNCHANGED <<files, maps, arrays>>
    BY <1>7 DEF LockViolation, TypeInv
  <2>1. CASE task[t].retry < 2
    <3> DEFINE r == [task[t] EXCEPT !.retry = @ + 1]
    <3>1. task' = [task EXCEPT ![t] = r]
      <4>1. task' = [task EXCEPT ![t].retry = @ + 1]
        BY <1>7, <2>1 DEF LockViolation, FailFlush
      <4> QED
        BY <4>1 DEF TypeInv
    <3>2. r \in Task /\ r.promise = task[t].promise /\ r.pc = "view" /\ r.why = task[t].why
      <4>1. task[t].retry + 1 \in Nat
        BY <2>0 DEF Task
      <4>2. r = [task[t] EXCEPT !.retry = task[t].retry + 1]
        OBVIOUS
      <4> QED
        BY <2>0, <4>1, <4>2 DEF Task
    <3> HIDE DEF r
    <3> QED
      BY <2>0, <3>1, <3>2, OnlyTurnsTo DEF TypeInv, Promises, Due, CloseSparesFlush
  <2>2. CASE ~(task[t].retry < 2)
    BY <1>7, <2>0, <2>2, Failing DEF LockViolation
  <2> QED
    BY <2>1, <2>2
<1>8. ASSUME NEW t \in Thread, NotAView(t)
      PROVE NativeInv'
  BY <1>8, Failing DEF NotAView
<1>9. ASSUME NEW t \in Thread, ReturnFailed(t)
      PROVE NativeInv'
  BY <1>9, IdleIsTask, OnlyTurnsTo DEF ReturnFailed, TypeInv
<1>10. ASSUME NEW t \in Thread, NEW pc \in {"toArray", "fromArray"}, NEW p \in Position,
              NEW i \in Index, NEW n \in 1 .. ArrayLength, NEW c \in BOOLEAN,
              GetCritical(t, pc, p, i, n, c)
       PROVE NativeInv'
  <2> DEFINE r == [Idle EXCEPT !.pc = pc, !.from = p, !.at = i, !.len = n,
                      !.copy = IF c THEN array ELSE @]
  <2>0. /\ Mapped /\ p \in Region /\ p + n - 1 \in Region
        /\ task' = [task EXCEPT ![t] = r] /\ UNCHANGED <<files, maps, arrays>>
    BY <1>10 DEF GetCritical, Begin
  <2>1. /\ r \in Task /\ r.pc = pc /\ r.from = p /\ r.len = n
        /\ DOMAIN r.promise = {} /\ r.why = "none"
    <3>1. p \in Int /\ i \in Int /\ n \in Int /\ array \in [Index -> Int]
      BY DEF Position, Index, TypeInv
    <3> QED
      BY <3>1, IdleIsTask DEF Task, Idle
  <2>2. p .. p + n - 1 \subseteq Region
    <3>1. view.offset \in Nat /\ view.size \in Nat /\ p \in Int /\ n \in Int
      BY DEF TypeInv, View, Position
    <3> QED
      BY <2>0, <3>1 DEF Region
  <2> HIDE DEF r
  <2> QED
    BY <2>0, <2>1, <2>2, OnlyTurnsTo DEF TypeInv, arrays
<1>11. ASSUME NEW t \in Thread, CopyToArray(t)
       PROVE NativeInv'
  <2>0. /\ task[t] \in Task /\ task' = [task EXCEPT ![t] = Idle] /\ UNCHANGED <<files, maps>>
        /\ array' = Put(Critical(t), task[t].at, mem, AddressOf(task[t].from), task[t].len)
    BY <1>11 DEF CopyToArray, Released, TypeInv
  <2>1. Critical(t) \in [Index -> Int]
    BY <2>0 DEF Critical, Copied, Task, TypeInv
  <2>2. AddressOf(task[t].from) = task[t].from
    <3>1. Mapped /\ view.base = MapPosition(view.offset) /\ view.base \in Nat /\ task[t].from \in Int
      BY <1>11, <2>0 DEF CopyToArray, Copying, Copies, Covered, Mapped, TypeInv, View, Task
    <3> QED
      BY <3>1 DEF AddressOf
  <2>3. \A k \in Index : k \in task[t].at .. task[t].at + task[t].len - 1
                         => mem[task[t].from + k - task[t].at] \in Nat
    <3>1. task[t].from .. task[t].from + task[t].len - 1 \subseteq Position
      BY <1>11 DEF CopyToArray, Copying, Copies, Covered, Mapped
    <3>2. \A q \in task[t].from .. task[t].from + task[t].len - 1 : mem[q] \in Nat
      BY <3>1 DEF TypeInv, Mapping
    <3>3. task[t].from \in Int /\ task[t].at \in Int /\ task[t].len \in Int
      BY <2>0 DEF Task
    <3>4. Index \subseteq Int
      BY DEF Index
    <3> QED
      BY <3>2, <3>3, <3>4
  <2>4. array' \in [Index -> Int]
    BY <2>0, <2>1, <2>2, <2>3 DEF Put
  <2> QED
    BY <2>0, <2>4, IdleIsTask, OnlyTurnsTo
<1>12. ASSUME NEW t \in Thread, CopyFromArray(t)
       PROVE NativeInv'
  <2>0. /\ task[t] \in Task /\ task' = [task EXCEPT ![t] = Idle]
        /\ UNCHANGED <<written, disk, durable, maps>>
        /\ array' = Critical(t)
    BY <1>12 DEF CopyFromArray, Released, TypeInv
  <2>1. array' \in [Index -> Int]
    BY <2>0 DEF Critical, Copied, Task, TypeInv
  <2>2. mem' \in Mapping /\ \A p \in Position : mem[p] <= mem'[p]
    <3>1. \A p \in Position : mem[p] \in Nat
      BY DEF TypeInv, Mapping
    <3>2. \A p \in Position : mem'[p] = mem[p] \/ mem'[p] = mem[p] + 1
      BY <1>12 DEF CopyFromArray
    <3>3. mem' = [p \in Position |-> mem'[p]]
      BY <1>12 DEF CopyFromArray
    <3> QED
      BY <3>1, <3>2, <3>3 DEF Mapping
  <2>3. /\ task' \in [Thread -> Task]
        /\ Promises' /\ Covered' /\ CloseSparesFlush' /\ Copies'
    BY <2>0, <2>2, IdleIsTask, TurnsTo
  <2>4. Downward'
    <3>1. \A p \in Position : /\ written[p] \in Nat /\ mem[p] \in Nat /\ mem'[p] \in Nat
                             /\ disk[p] <= written[p] /\ written[p] <= mem[p]
      BY <2>2 DEF TypeInv, Mapping, Downward
    <3> QED
      BY <2>0, <2>2, <3>1 DEF Downward
  <2> QED
    BY <2>0, <2>1, <2>2, <2>3, <2>4 DEF TypeInv, FlushedIsDurable
<1>13. ASSUME NEW i \in Index, JavaStore(i)
       PROVE NativeInv'
  <2>1. array' \in [Index -> Int] /\ UNCHANGED <<files, maps, task>>
    BY <1>13 DEF JavaStore, JavaValue, TypeInv
  <2> QED
    BY <2>1, Unmoved
<1>14. ASSUME NEW q \in Position, LazyWrite(q)
       PROVE NativeInv'
  <2>0. written' = [written EXCEPT ![q] = mem[q]] /\ UNCHANGED <<mem, disk, durable, maps, task, arrays>>
    BY <1>14 DEF LazyWrite
  <2>1. \A p \in Position : /\ mem[p] \in Nat /\ written[p] \in Nat /\ disk[p] \in Nat
                           /\ disk[p] <= written[p] /\ written[p] <= mem[p]
    BY DEF TypeInv, Mapping, Downward
  <2>2. \A p \in Position : written[p] <= written'[p] /\ written'[p] <= mem[p] /\ written'[p] \in Nat
    BY <2>0, <2>1 DEF TypeInv, Mapping
  <2>3. TypeInv' /\ Downward'
    BY <2>0, <2>1, <2>2 DEF TypeInv, Mapping, Downward
  <2>4. \A t \in Thread : Due(t)' = Due(t)
    BY <2>0 DEF Due
  <2>5. ASSUME FitsDword, NEW t \in Thread, task'[t].pc = "buffers", NEW p \in Due(t)
        PROVE  task'[t].promise[p] <= written'[p]
    <3>1. p \in Position /\ task[t].promise[p] \in Nat
      BY DEF TypeInv, Task, Partial, Due
    <3>2. task[t].promise[p] <= written[p]
      BY <2>0, <2>5 DEF Promises
    <3> QED
      BY <2>0, <2>1, <2>2, <3>1, <3>2
  <2>6. Promises'
    BY <2>0, <2>4, <2>5 DEF Promises, Mapped, Region
  <2> QED
    BY <2>0, <2>3, <2>6 DEF Covered, Copies, Copying, Mapped, Region, Flushed, CloseSparesFlush,
                            FlushedIsDurable
<1>15. ASSUME NEW q \in Position, WriteToDisk(q)
       PROVE NativeInv'
  <2>0. disk' = [disk EXCEPT ![q] = written[q]] /\ UNCHANGED <<mem, written, durable, maps, task, arrays>>
    BY <1>15 DEF WriteToDisk
  <2>1. \A p \in Position : /\ written[p] \in Nat /\ disk[p] \in Nat /\ disk[p] <= written[p]
    BY DEF TypeInv, Mapping, Downward
  <2>2. \A p \in Position : disk[p] <= disk'[p] /\ disk'[p] <= written[p] /\ disk'[p] \in Nat
    BY <2>0, <2>1 DEF TypeInv, Mapping
  <2>3. TypeInv' /\ Downward'
    BY <2>0, <2>1, <2>2 DEF TypeInv, Mapping, Downward
  <2>4. FitsDword => FlushedIsDurable'
    <3>1. \A p \in Position : durable[p] \in Nat
      BY DEF TypeInv, Mapping
    <3> QED
      BY <2>0, <2>1, <2>2, <3>1 DEF FlushedIsDurable
  <2> QED
    BY <2>0, <2>3, <2>4 DEF Promises, Due, Covered, Copies, Copying, Mapped, Region, Flushed,
                            CloseSparesFlush
<1>16. CASE UNCHANGED nvars
  <2>1. array' \in [Index -> Int] /\ UNCHANGED <<files, maps, task>>
    BY <1>16 DEF nvars, TypeInv
  <2> QED
    BY <2>1, Unmoved
<1> QED
  BY <1>1, <1>2, <1>3, <1>4, <1>5, <1>6, <1>7, <1>8, <1>9, <1>10, <1>11, <1>12, <1>13, <1>14,
     <1>15, <1>16 DEF NativeNext, Work, StartCopy

LEMMA AlwaysNativeInv == NativeSpec => []NativeInv
<1>1. NativeInv /\ [NativeNext]_nvars => NativeInv'
  BY NextNativeInv
<1> QED
  BY InitNativeInv, <1>1, PTL DEF NativeSpec

-----------------------------------------------------------------------------
(* Durability and close                                                    *)

\* When sizes fit into a DWORD, what a flush acknowledged is on the disk,
\* for any number of threads and any interleaving with the system's writes.
THEOREM FlushedStaysDurable == FitsDword => (NativeSpec => []FlushedIsDurable)
<1>1. FitsDword /\ NativeInv => FlushedIsDurable
  BY DEF NativeInv
<1>2. FitsDword => []FitsDword
  OBVIOUS
<1> QED
  BY <1>1, <1>2, AlwaysNativeInv, PTL

\* close() never takes the handle from a flush that has passed the view.
THEOREM CloseNeverFailsFlush == NativeSpec => []CloseSparesFlush
<1>1. NativeInv => CloseSparesFlush
  BY DEF NativeInv
<1> QED
  BY <1>1, AlwaysNativeInv, PTL

\* When the offsets are ones that Windows maps, each position of the buffer
\* is that position of the file.
THEOREM ViewsShowRegions == AlignsToGranule => (NativeSpec => []ViewShowsRegion)
<1>1. AlignsToGranule /\ NativeInv => ViewShowsRegion
  <2> SUFFICES ASSUME AlignsToGranule, NativeInv, view.state # "none", NEW p \in Region
               PROVE  AddressOf(p) = p
    BY DEF ViewShowsRegion, NativeInv, Covered
  <2>1. view.base = MapPosition(view.offset) /\ view.base \in Nat
    BY DEF NativeInv, Covered, TypeInv, View
  <2>2. p \in Int
    BY DEF NativeInv, Covered, Position
  <2> QED
    BY <2>1, <2>2 DEF AddressOf
<1>2. AlignsToGranule => []AlignsToGranule
  OBVIOUS
<1> QED
  BY <1>1, <1>2, AlwaysNativeInv, PTL

-----------------------------------------------------------------------------
(* Arrays                                                                  *)

\* At most one thread holds the array, and a copy it was given is still like
\* the array.
OneHolder == /\ array = expected
             /\ \A t, u \in Thread : Copying(t) /\ Copying(u) => t = u
             /\ \A t \in Thread : Copying(t) => Critical(t) = array

\* A task that leaves the array alone, or is the only one to copy.
LEMMA HolderStays ==
  ASSUME NativeInv, NativeInv', OneHolder, UNCHANGED arrays,
         \A t \in Thread : Copying(t)' => Copying(t) /\ task'[t].copy = task[t].copy
  PROVE  OneHolder'
  BY DEF OneHolder, arrays, Critical, Copied

LEMMA NextOneHolder ==
  ASSUME ~SharesArray, NativeInv, NativeInv', OneHolder, [NativeNext]_nvars
  PROVE  OneHolder'
<1> USE DEF arrays
<1>a. \A t \in Thread : task[t] \in Task
  BY DEF NativeInv, TypeInv
<1>b. ~Idle.pc \in {"toArray", "fromArray"}
  BY IdleIsTask
<1>1. ASSUME UNCHANGED <<task, arrays>>
      PROVE  OneHolder'
  BY <1>1, HolderStays DEF Copying
<1>2. ASSUME NEW t \in Thread, StartFlush(t) \/ FlushView(t) \/ LockViolation(t) \/ NotAView(t)
                               \/ FlushBuffers(t) \/ ReturnFailed(t)
      PROVE  OneHolder'
  <2>1. UNCHANGED arrays /\ \A u \in Thread : u # t => task'[u] = task[u]
    <3>1. DOMAIN task = Thread
      BY DEF NativeInv, TypeInv
    <3>2. CASE StartFlush(t)
      BY <3>1, <3>2 DEF StartFlush, Begin
    <3>3. CASE FlushView(t)
      BY <3>1, <3>3 DEF FlushView
    <3>4. CASE LockViolation(t) \/ NotAView(t)
      BY <3>1, <3>4 DEF LockViolation, NotAView, FailFlush
    <3>5. CASE FlushBuffers(t)
      BY <3>1, <3>5 DEF FlushBuffers, FailFlush
    <3>6. CASE ReturnFailed(t)
      BY <3>1, <3>6 DEF ReturnFailed
    <3> QED
      BY <1>2, <3>2, <3>3, <3>4, <3>5, <3>6
  <2>2. ~Copying(t)'
    <3>1. DOMAIN task = Thread /\ task[t] \in Task
      BY DEF NativeInv, TypeInv
    <3>2. CASE StartFlush(t)
      BY <3>1, <3>2 DEF StartFlush, Begin, Copying, Idle
    <3>3. CASE FlushView(t)
      BY <3>1, <3>3 DEF FlushView, Copying, Task
    <3>4. CASE LockViolation(t) \/ NotAView(t)
      BY <3>1, <3>4 DEF LockViolation, NotAView, FailFlush, Copying, Task
    <3>5. CASE FlushBuffers(t)
      BY <1>b, <3>1, <3>5 DEF FlushBuffers, FailFlush, Copying, Task
    <3>6. CASE ReturnFailed(t)
      BY <1>b, <3>1, <3>6 DEF ReturnFailed, Copying
    <3> QED
      BY <1>2, <3>2, <3>3, <3>4, <3>5, <3>6
  <2> QED
    BY <2>1, <2>2, HolderStays DEF Copying
<1>3. ASSUME NEW t \in Thread, NEW pc \in {"toArray", "fromArray"}, NEW p \in Position,
             NEW i \in Index, NEW n \in 1 .. ArrayLength, NEW c \in BOOLEAN,
             GetCritical(t, pc, p, i, n, c)
      PROVE  OneHolder'
  <2>1. /\ UNCHANGED arrays /\ \A u \in Thread : ~Copying(u)
        /\ \A u \in Thread : u # t => task'[u] = task[u]
        /\ task'[t].copy = IF c THEN array ELSE Idle.copy
    BY <1>3 DEF GetCritical, Begin, NativeInv, TypeInv, Idle
  <2>2. \A u \in Thread : Copying(u)' => u = t
    BY <2>1 DEF Copying
  <2>3. Critical(t)' = array
    BY <2>1 DEF Critical, Copied, Idle
  <2> QED
    BY <2>1, <2>2, <2>3 DEF OneHolder
<1>4. ASSUME NEW t \in Thread, CopyToArray(t) \/ CopyFromArray(t)
      PROVE  OneHolder'
  <2>1. /\ Copying(t) /\ task'[t] = Idle /\ \A u \in Thread : u # t => task'[u] = task[u]
        /\ Critical(t) = array /\ array = expected
    BY <1>4 DEF CopyToArray, CopyFromArray, NativeInv, TypeInv, Copying, OneHolder
  <2>2. \A u \in Thread : ~Copying(u)'
    BY <1>b, <2>1 DEF Copying, OneHolder
  <2>3. array' = expected'
    <3>1. CASE CopyFromArray(t)
      BY <2>1, <3>1 DEF CopyFromArray, Released
    <3>2. CASE CopyToArray(t)
      <4>1. AddressOf(task[t].from) = task[t].from
        <5>1. /\ Mapped /\ view.base = MapPosition(view.offset) /\ view.base \in Nat
              /\ task[t].from \in Int
          BY <1>a, <2>1 DEF NativeInv, Copies, Covered, Mapped, TypeInv, View, Task
        <5> QED
          BY <5>1 DEF AddressOf
      <4> QED
        BY <2>1, <3>2, <4>1 DEF CopyToArray, Released
    <3> QED
      BY <1>4, <3>1, <3>2
  <2> QED
    BY <2>2, <2>3 DEF OneHolder
<1>5. ASSUME NEW i \in Index, JavaStore(i)
      PROVE  OneHolder'
  <2>1. UNCHANGED task /\ \A t \in Thread : ~Copying(t)
    BY <1>5 DEF JavaStore
  <2>2. \A t \in Thread : ~Copying(t)'
    BY <2>1 DEF Copying
  <2> QED
    BY <1>5, <2>2 DEF JavaStore, OneHolder
<1>6. ASSUME NEW o \in Offset, NEW s \in Size, NEW mode \in 0 .. 2, NEW d \in BOOLEAN,
             Mmap(o, s, mode, d)
      PROVE  OneHolder'
  BY <1>1, <1>6 DEF Mmap
<1> QED
  BY <1>1, <1>2, <1>3, <1>4, <1>5, <1>6
  DEF NativeNext, Work, StartCopy, Munmap, CloseFile, LazyWrite, WriteToDisk, nvars

\* When threads take turns with a Java array, it holds what was last copied
\* or stored into it, whether the JVM hands out the array or a copy of it.
THEOREM CopiesReachTheArray == ~SharesArray => (NativeSpec => []ArrayHoldsCopies)
<1>1. NativeInit => OneHolder
  BY IdleIsTask DEF NativeInit, OneHolder, Copying
<1>2. OneHolder => ArrayHoldsCopies
  BY DEF OneHolder, ArrayHoldsCopies
<1>3. ~SharesArray /\ NativeInv /\ NativeInv' /\ OneHolder /\ [NativeNext]_nvars => OneHolder'
  BY NextOneHolder
<1>4. ~SharesArray => []~SharesArray
  OBVIOUS
<1> QED
  BY <1>1, <1>2, <1>3, <1>4, AlwaysNativeInv, PTL DEF NativeSpec

-----------------------------------------------------------------------------
(* Types with their bounds                                                 *)

Element == Version \cup {JavaValue}
\* What a thread keeps to itself: its tries, and the copy of the array.
Modest(r) == r.retry \in 0 .. 2 /\ r.copy \in {[i \in {} |-> 0]} \cup [Index -> Element]

FilesBounded == /\ mem \in [Position -> Version] /\ written \in [Position -> Version]
                /\ disk \in [Position -> Version] /\ durable \in [Position -> Version]
ArraysBounded == array \in [Index -> Element] /\ expected \in [Index -> Element]
Bounded == /\ FilesBounded /\ ArraysBounded
           /\ handle \in {"open", "closed"}
           /\ \A t \in Thread : Modest(task[t])

LEMMA IdleIsModest == Modest(Idle)
  BY DEF Modest, Idle

LEMMA PutBounds ==
  ASSUME NEW f \in [Index -> Element], NEW p \in Int, NEW i \in Int, NEW n \in Int,
         mem \in [Position -> Version], p .. p + n - 1 \subseteq Position
  PROVE  Put(f, i, mem, p, n) \in [Index -> Element]
<1>1. ASSUME NEW k \in Index, k \in i .. i + n - 1
      PROVE  mem[p + k - i] \in Element
  <2>1. p + k - i \in p .. p + n - 1
    BY <1>1 DEF Index
  <2> QED
    BY <2>1 DEF Element
<1> QED
  BY <1>1 DEF Put

\* A thread turns to something else, and the files keep below the memory.
LEMMA BoundedTurn ==
  ASSUME Bounded, NativeInv, NativeInv', NEW t \in Thread,
         \A u \in Thread : u # t => task'[u] = task[u], Modest(task'[t]),
         mem' \in [Position -> Version], durable' \in [Position -> Version],
         array' \in [Index -> Element], expected' \in [Index -> Element], handle' = handle
  PROVE  Bounded'
<1>1. FilesBounded'
  <2>1. written' \in [Position -> Version] /\ disk' \in [Position -> Version]
    <3>1. TypeInv' /\ Downward'
      BY DEF NativeInv
    <3>2. \A p \in Position : /\ mem'[p] \in 0 .. MaxVersion /\ written'[p] \in Nat /\ disk'[p] \in Nat
                             /\ disk'[p] <= written'[p] /\ written'[p] <= mem'[p]
      BY <3>1 DEF TypeInv, Mapping, Downward, Version
    <3>3. \A p \in Position : written'[p] \in Version /\ disk'[p] \in Version
      BY <3>2, NativeAssumption DEF Version
    <3> QED
      BY <3>1, <3>3 DEF TypeInv, Mapping
  <2> QED
    BY <2>1 DEF FilesBounded
<1>2. \A u \in Thread : Modest(task'[u])
  BY DEF Bounded
<1> QED
  BY <1>1, <1>2 DEF Bounded, ArraysBounded

LEMMA NextBounded ==
  ASSUME Bounded, NativeInv, NativeInv', [NativeNext]_nvars
  PROVE  Bounded'
<1> USE NativeAssumption
<1> USE DEF files, maps, arrays
<1>a. \A t \in Thread : task[t] \in Task /\ Modest(task[t])
  BY DEF NativeInv, TypeInv, Bounded
<1>b. DOMAIN task = Thread
  BY DEF NativeInv, TypeInv
<1>c. FilesBounded /\ ArraysBounded
  BY DEF Bounded
<1>1. ASSUME NEW o \in Offset, NEW s \in Size, NEW mode \in 0 .. 2, NEW d \in BOOLEAN,
             Mmap(o, s, mode, d)
      PROVE  Bounded'
  BY <1>1 DEF Mmap, Bounded, FilesBounded, ArraysBounded
<1>2. CASE Munmap \/ CloseFile \/ UNCHANGED nvars
  BY <1>2 DEF Munmap, CloseFile, nvars, Bounded, FilesBounded, ArraysBounded
<1>3. ASSUME NEW t \in Thread, StartFlush(t) \/ FlushView(t) \/ LockViolation(t) \/ NotAView(t)
                               \/ ReturnFailed(t)
      PROVE  Bounded'
  <2>1. Modest(task'[t]) /\ \A u \in Thread : u # t => task'[u] = task[u]
    <3>0. task[t] \in Task /\ Modest(task[t])
      BY <1>a
    <3>1. CASE StartFlush(t)
      BY <1>b, <3>1, IdleIsModest DEF StartFlush, Begin, Modest, Idle
    <3>2. CASE FlushView(t)
      BY <1>b, <3>0, <3>2 DEF FlushView, Modest, Task
    <3>3. CASE LockViolation(t)
      <4>1. CASE task[t].retry < 2
        <5>1. task[t].retry \in 0 .. 2 /\ task[t].retry + 1 \in 0 .. 2
          BY <3>0, <4>1 DEF Modest
        <5>2. task' = [task EXCEPT ![t].retry = task[t].retry + 1]
          BY <3>3, <4>1 DEF LockViolation, FailFlush
        <5> QED
          BY <1>b, <3>0, <5>1, <5>2 DEF Modest, Task
      <4>2. CASE ~(task[t].retry < 2)
        BY <1>b, <3>0, <3>3, <4>2 DEF LockViolation, FailFlush, Modest, Task
      <4> QED
        BY <4>1, <4>2
    <3>4. CASE NotAView(t)
      BY <1>b, <3>0, <3>4 DEF NotAView, FailFlush, Modest, Task
    <3>5. CASE ReturnFailed(t)
      BY <1>b, <3>5, IdleIsModest DEF ReturnFailed
    <3> QED
      BY <1>3, <3>1, <3>2, <3>3, <3>4, <3>5
  <2>2. UNCHANGED <<mem, durable, handle, arrays>>
    BY <1>3 DEF StartFlush, FlushView, LockViolation, NotAView, ReturnFailed
  <2> QED
    BY <1>c, <2>1, <2>2, BoundedTurn DEF FilesBounded, ArraysBounded
<1>4. ASSUME NEW t \in Thread, FlushBuffers(t)
      PROVE  Bounded'
  <2>1. Modest(task'[t]) /\ \A u \in Thread : u # t => task'[u] = task[u]
    BY <1>4, <1>a, <1>b, IdleIsModest DEF FlushBuffers, FailFlush, Modest, Task
  <2>2. durable' \in [Position -> Version]
    <3> DEFINE due == task[t].promise
    <3>1. \A p \in Position : durable[p] \in Version
      BY <1>c DEF FilesBounded
    <3>2. ASSUME NEW p \in DOMAIN due PROVE due[p] \in Version
      <4>1. p \in Position /\ due[p] \in Nat /\ due[p] <= mem[p]
        BY <1>a DEF Task, Partial, Due, NativeInv, Promises
      <4>2. mem[p] \in 0 .. MaxVersion
        BY <1>c, <4>1 DEF FilesBounded, Version
      <4> QED
        BY <4>1, <4>2 DEF Version
    <3>3. durable' = durable \/ durable' = Raised(durable, due, DOMAIN due)
      BY <1>4 DEF FlushBuffers
    <3> HIDE DEF due
    <3>4. Raised(durable, due, DOMAIN due) \in [Position -> Version]
      BY <3>1, <3>2 DEF Raised
    <3> QED
      BY <1>c, <3>3, <3>4 DEF FilesBounded
  <2>3. UNCHANGED <<mem, handle, arrays>>
    BY <1>4 DEF FlushBuffers
  <2> QED
    BY <1>c, <2>1, <2>2, <2>3, BoundedTurn DEF FilesBounded, ArraysBounded
<1>5. ASSUME NEW t \in Thread, NEW pc \in {"toArray", "fromArray"}, NEW p \in Position,
             NEW i \in Index, NEW n \in 1 .. ArrayLength, NEW c \in BOOLEAN,
             GetCritical(t, pc, p, i, n, c)
      PROVE  Bounded'
  <2>1. Modest(task'[t]) /\ \A u \in Thread : u # t => task'[u] = task[u]
    BY <1>5, <1>b, <1>c DEF GetCritical, Begin, Modest, Idle, ArraysBounded
  <2>2. UNCHANGED <<mem, durable, handle, arrays>>
    BY <1>5 DEF GetCritical
  <2> QED
    BY <1>c, <2>1, <2>2, BoundedTurn DEF FilesBounded, ArraysBounded
<1>6. ASSUME NEW t \in Thread, CopyToArray(t)
      PROVE  Bounded'
  <2> DEFINE from == task[t].from
             at == task[t].at
             len == task[t].len
  <2>0. from \in Int /\ at \in Int /\ len \in Int
    BY <1>a DEF Task
  <2>1. Mapped /\ from .. from + len - 1 \subseteq Position /\ view.base = MapPosition(view.offset)
    BY <1>6 DEF CopyToArray, Copying, NativeInv, Copies, Covered, Mapped
  <2>2. AddressOf(from) = from
    <3>1. view.base \in Nat
      BY DEF NativeInv, TypeInv, View
    <3> QED
      BY <2>0, <2>1, <3>1 DEF AddressOf
  <2>3. Critical(t) \in [Index -> Element]
    BY <1>a, <1>c DEF Critical, Copied, Modest, ArraysBounded
  <2>4. /\ array' = Put(Critical(t), at, mem, from, len)
        /\ expected' = Put(expected, at, mem, from, len)
        /\ task' = [task EXCEPT ![t] = Idle] /\ UNCHANGED <<mem, durable, handle>>
    BY <1>6, <2>2 DEF CopyToArray, Released
  <2>5. mem \in [Position -> Version] /\ durable \in [Position -> Version]
        /\ expected \in [Index -> Element]
    BY <1>c DEF FilesBounded, ArraysBounded
  <2> HIDE DEF from, at, len
  <2>6. array' \in [Index -> Element] /\ expected' \in [Index -> Element]
    BY <2>0, <2>1, <2>3, <2>4, <2>5, PutBounds
  <2>7. Modest(task'[t]) /\ \A u \in Thread : u # t => task'[u] = task[u]
    BY <1>b, <2>4, IdleIsModest
  <2> QED
    BY <2>4, <2>5, <2>6, <2>7, BoundedTurn
<1>7. ASSUME NEW t \in Thread, CopyFromArray(t)
      PROVE  Bounded'
  <2>1. Critical(t) \in [Index -> Element]
    BY <1>a, <1>c DEF Critical, Copied, Modest, ArraysBounded
  <2>2. /\ array' = Critical(t) /\ UNCHANGED <<durable, handle, expected>>
        /\ task' = [task EXCEPT ![t] = Idle]
    BY <1>7 DEF CopyFromArray, Released
  <2>3. mem' \in [Position -> Version]
    <3>1. \A p \in Position : mem[p] \in 0 .. MaxVersion
      BY <1>c DEF FilesBounded, Version
    <3>2. \A p \in Position : mem'[p] = mem[p] \/ (mem[p] < MaxVersion /\ mem'[p] = mem[p] + 1)
      BY <1>7 DEF CopyFromArray
    <3>3. \A p \in Position : mem'[p] \in Version
      BY <3>1, <3>2 DEF Version
    <3> QED
      BY <1>7, <3>3 DEF CopyFromArray
  <2>4. Modest(task'[t]) /\ \A u \in Thread : u # t => task'[u] = task[u]
    BY <1>b, <2>2, IdleIsModest
  <2> QED
    BY <1>c, <2>1, <2>2, <2>3, <2>4, BoundedTurn DEF FilesBounded, ArraysBounded
<1>8. ASSUME NEW i \in Index, JavaStore(i)
      PROVE  Bounded'
  <2>1. array' \in [Index -> Element] /\ expected' \in [Index -> Element]
    BY <1>8, <1>c DEF JavaStore, ArraysBounded, Element
  <2> QED
    BY <1>8, <2>1 DEF JavaStore, Bounded, FilesBounded, ArraysBounded
<1>9. ASSUME NEW q \in Position, LazyWrite(q) \/ WriteToDisk(q)
      PROVE  Bounded'
  <2>1. mem[q] \in Version /\ written[q] \in Version
    BY <1>c DEF FilesBounded
  <2>2. written' \in [Position -> Version] /\ disk' \in [Position -> Version]
    BY <1>9, <1>c, <2>1 DEF LazyWrite, WriteToDisk, FilesBounded
  <2> QED
    BY <1>9, <2>2 DEF LazyWrite, WriteToDisk, Bounded, FilesBounded, ArraysBounded
<1> QED
  BY <1>1, <1>2, <1>3, <1>4, <1>5, <1>6, <1>7, <1>8, <1>9 DEF NativeNext, Work, StartCopy

\* Type correctness with its bounds: versions that copies raise, three tries
\* of a flush, and what the Java array may hold.
THEOREM NativeTypes == NativeSpec => []NativeTypeOK
<1>1. NativeInit => Bounded
  <2> SUFFICES ASSUME NativeInit PROVE Bounded
    OBVIOUS
  <2>1. mem \in [Position -> Version] /\ array \in [Index -> Element]
    BY NativeAssumption DEF NativeInit, Version, Element
  <2> QED
    BY <2>1, IdleIsModest DEF NativeInit, Bounded, FilesBounded, ArraysBounded
<1>2. Bounded /\ NativeInv => NativeTypeOK
  <2> SUFFICES ASSUME Bounded, NativeInv PROVE NativeTypeOK
    OBVIOUS
  <2>1. view \in View /\ dup \in {"none", "failed", "read", "write"} /\ task \in [Thread -> Task]
    BY DEF NativeInv, TypeInv
  <2>2. view.state \in {"none", "null", "mapped"}
    BY <2>1 DEF View
  <2>3. \A t \in Thread : /\ task[t].pc \in {"idle", "view", "buffers", "failed", "toArray", "fromArray"}
                          /\ task[t].retry \in 0 .. 2
    BY <2>1 DEF Task, Bounded, Modest
  <2> QED
    BY <2>1, <2>2, <2>3 DEF Bounded, FilesBounded, ArraysBounded, Element, NativeTypeOK
<1>3. Bounded /\ NativeInv /\ NativeInv' /\ [NativeNext]_nvars => Bounded'
  BY NextBounded
<1> QED
  BY <1>1, <1>2, <1>3, AlwaysNativeInv, PTL DEF NativeSpec
=============================================================================

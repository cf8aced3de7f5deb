----------------------------- MODULE MMapProofs -----------------------------
(***************************************************************************)
(* What TLAPS proves of MMapBuffer, for any number of buffers, any size of *)
(* pages, any regions and files of any length.                             *)
(***************************************************************************)
EXTENDS MMapBuffer, TLAPS

BufferState == [state : {"closed", "extending", "open"}, offset : Nat, size : Nat, mode : MMapMode]

\* A region has bytes and fits the largest file; an open one is in the file.
RegionsFit ==
    \A b \in Buffer : /\ buf[b].state # "closed" => /\ buf[b].size > 0
                                                    /\ buf[b].offset + buf[b].size <= MaxFile
                      /\ Open(b) => buf[b].offset + buf[b].size <= file.size

\* What a crash leaves ends with zeros too.
DiskEndsWithZeros == \A p \in Position : p >= disk.size => disk.bytes[p] = 0

RegionInv == TypeOK /\ RegionsFit /\ DiskEndsWithZeros

\* One constructor at a time extends the file, which is still too short for it.
OneExtends ==
    /\ \A b, c \in Buffer : buf[b].state = "extending" /\ buf[c].state = "extending" => b = c
    /\ \A b \in Buffer : buf[b].state = "extending" => file.size < buf[b].offset + buf[b].size

\* Only a client that clears a byte takes back what flush promised of it.
PromisesStand == \A p \in Position : flushed[p] <= put[p]

MemoryInv == /\ RegionInv /\ OneExtends
             /\ FileHoldsWhatWasPut /\ PromisesStand /\ FlushedDataSurvives

-----------------------------------------------------------------------------
(* The geometry of a mapping                                               *)

LEMMA WholePages == \A n \in Nat : RoundUp(n) \in Nat /\ RoundUp(n) >= n
  BY SizeAssumption DEF RoundUp

LEMMA PageOfRegion ==
  ASSUME RegionInv, NEW b \in Buffer
  PROVE  /\ PagePosition(b) \in 0 .. buf[b].offset
         /\ MapPosition(b) \in 0 .. buf[b].offset
         /\ MapPosition(b) + PagePosition(b) = buf[b].offset
<1>1. \A n \in Nat : n % PageSize \in 0 .. n
  BY SizeAssumption
<1>2. buf[b].offset \in Nat
  BY DEF RegionInv, TypeOK
<1> QED
  BY <1>1, <1>2 DEF PagePosition, MapPosition

\* An open region lies in memory that can be accessed.
LEMMA RegionIsBacked ==
  ASSUME RegionInv, NEW b \in Buffer, Open(b)
  PROVE  /\ Region(b) \subseteq Backed(b)
         /\ Region(b) \subseteq 0 .. file.size - 1
         /\ Region(b) \subseteq Position
         /\ Region(b) \subseteq MapPosition(b) .. MapPosition(b) + MapSize(b) - 1
<1> USE DEF RegionInv, TypeOK, File, RegionsFit, Region, Open
<1> DEFINE top == MapPosition(b) + RoundUp(MapSize(b))
<1>1. /\ buf[b].offset \in Nat /\ buf[b].size \in Nat /\ buf[b].size > 0
      /\ buf[b].offset + buf[b].size <= file.size
      /\ buf[b].offset + buf[b].size <= MaxFile
      /\ file.size \in Nat /\ MaxFile \in Nat
  BY SizeAssumption
<1>2. /\ PagePosition(b) \in Nat /\ MapPosition(b) \in Nat
      /\ MapPosition(b) + PagePosition(b) = buf[b].offset
  BY PageOfRegion, <1>1
<1>3. MapSize(b) = buf[b].size + PagePosition(b) /\ MapSize(b) \in Nat
  BY <1>1, <1>2 DEF MapSize
<1>4. /\ RoundUp(MapSize(b)) \in Nat /\ RoundUp(MapSize(b)) >= MapSize(b)
      /\ RoundUp(file.size) \in Nat /\ RoundUp(file.size) >= file.size
  BY <1>1, <1>3, WholePages
<1>5. Region(b) \subseteq MapPosition(b) .. MapPosition(b) + MapSize(b) - 1
  BY <1>1, <1>2, <1>3
<1>6. Region(b) \subseteq 0 .. file.size - 1 /\ Region(b) \subseteq Position
  BY <1>1 DEF Position
<1>7. Region(b) \subseteq Backed(b)
  BY <1>1, <1>2, <1>3, <1>4 DEF Backed
<1> QED
  BY <1>5, <1>6, <1>7

\* Where a client may store: at one byte of its region, or at all of them.
LEMMA StoredPositions ==
  ASSUME RegionInv, NEW b \in Buffer, Open(b)
  PROVE  /\ Address(b) = buf[b].offset
         /\ \A i \in Position : i < buf[b].size => buf[b].offset + i \in Region(b)
         /\ PagePosition(b) = 0 => Address(b) .. Address(b) + SizeOf(b) - 1 = Region(b)
<1>1. buf[b].offset \in Nat /\ buf[b].size \in Nat
  BY DEF RegionInv, TypeOK
<1>2. Address(b) = buf[b].offset
  BY <1>1, PageOfRegion DEF Address
<1> QED
  BY <1>1, <1>2, SizeAssumption DEF Region, SizeOf, MapSize, Position

\* Storing changes bytes inside the file, for all but private mappings.
LEMMA StoreEffect ==
  ASSUME RegionInv, NEW b \in Buffer, NEW ps \in SUBSET Int, NEW v \in {0, 1}, Store(b, ps, v)
  PROVE  /\ file' \in File /\ file'.size = file.size
         /\ \A p \in Position : p >= file.size => file'.bytes[p] = 0
         /\ fault' \in BOOLEAN
         /\ ps \subseteq Backed(b) => fault' = fault
         /\ buf[b].mode = PRIVATE => file' = file
         /\ ps \subseteq Backed(b) /\ buf[b].mode # PRIVATE =>
               \A p \in Position : file'.bytes[p] = IF p \in ps /\ p < file.size THEN v
                                                   ELSE file.bytes[p]
<1> USE DEF RegionInv, TypeOK, File
<1> DEFINE after == Overwritten(file.bytes, ps \cap 0 .. file.size - 1, v)
<1>1. /\ after \in [Position -> {0, 1}]
      /\ \A p \in Position : after[p] = IF p \in ps /\ p < file.size THEN v ELSE file.bytes[p]
  <2>1. file.bytes \in [Position -> {0, 1}] /\ file.size \in Nat
    BY SizeAssumption
  <2>2. \A p \in Position : p \in Nat
    BY DEF Position
  <2> QED
    BY <2>1, <2>2 DEF Overwritten
<1>2. CASE file' = [file EXCEPT !.bytes = after] /\ fault' = fault /\ buf[b].mode # PRIVATE
  <2>1. file' = [size |-> file.size, bytes |-> after]
    BY <1>2
  <2>2. file'.size = file.size /\ file'.bytes = after /\ file' \in File
    BY <1>1, <2>1
  <2>3. \A p \in Position : p >= file.size => file'.bytes[p] = file.bytes[p]
    <3> HIDE DEF after
    <3>1. file.size \in Int /\ \A p \in Position : p \in Int
      BY SizeAssumption DEF Position
    <3> QED
      BY <1>1, <2>2, <3>1
  <2> HIDE DEF after
  <2> QED
    BY <1>1, <1>2, <2>2, <2>3
<1>3. CASE file' = file /\ fault' = fault /\ buf[b].mode = PRIVATE
  BY <1>3
<1>4. CASE file' = file /\ fault' = TRUE /\ ~ (ps \subseteq Backed(b))
  BY <1>4
<1> HIDE DEF after
<1> QED
  BY <1>2, <1>3, <1>4 DEF Store, after

\* What gets to the disk is what the file has on the pages in question.
LEMMA WriteBackEffect ==
  ASSUME RegionInv, NEW ps \in SUBSET Int, disk' = WrittenBack(ps), file' = file
  PROVE  /\ disk' \in File /\ disk'.size = file.size
         /\ \A p \in Position : disk'.bytes[p] \in {file.bytes[p], disk.bytes[p]}
         /\ \A p \in Position : p \in ps => disk'.bytes[p] = file.bytes[p]
         /\ DiskEndsWithZeros'
<1> USE DEF RegionInv, TypeOK, File
<1> DEFINE near(p) == \E q \in ps : q \div PageSize = p \div PageSize
           bytes == [p \in Position |-> IF near(p) THEN file.bytes[p] ELSE disk.bytes[p]]
<1>1. disk'.size = file.size /\ disk'.bytes = bytes /\ disk' = [size |-> file.size, bytes |-> bytes]
  BY DEF WrittenBack
<1>2. \A p \in ps : near(p)
  OBVIOUS
<1> HIDE DEF near
<1>3. bytes \in [Position -> {0, 1}]
  OBVIOUS
<1>4. \A p \in Position : bytes[p] = IF near(p) THEN file.bytes[p] ELSE disk.bytes[p]
  OBVIOUS
<1>5. disk' \in File
  BY <1>1, <1>3
<1>6. DiskEndsWithZeros'
  BY <1>1, <1>4 DEF DiskEndsWithZeros, Position
<1> QED
  BY <1>1, <1>2, <1>4, <1>5, <1>6

-----------------------------------------------------------------------------
(* Types, and where regions are                                            *)

LEMMA ClosedIsState == Closed \in BufferState /\ Closed.state = "closed"
  BY DEF Closed, BufferState, MMapMode

LEMMA InitRegionInv == Init => RegionInv /\ NoFault
<1> SUFFICES ASSUME Init PROVE RegionInv /\ NoFault
  OBVIOUS
<1>1. Empty(InitialSize) \in File /\ Empty(InitialSize).size = InitialSize
      /\ \A p \in Position : Empty(InitialSize).bytes[p] = 0
  BY SizeAssumption DEF Empty, File
<1>2. TypeOK
  <2>1. buf \in [Buffer -> BufferState]
    BY ClosedIsState DEF Init
  <2>2. file \in File /\ disk \in File /\ disk.size <= file.size
        /\ \A p \in Position : file.bytes[p] = 0
    BY <1>1, SizeAssumption DEF Init
  <2>3. put \in [Position -> {0, 1}] /\ flushed \in [Position -> {0, 1}]
    BY <2>2 DEF Init, File
  <2> QED
    BY <2>1, <2>2, <2>3 DEF Init, TypeOK, BufferState
<1> QED
  BY <1>1, <1>2 DEF Init, RegionInv, RegionsFit, DiskEndsWithZeros, NoFault, Open, Closed

LEMMA NextRegionInv == RegionInv /\ [Next]_vars => RegionInv'
<1> SUFFICES ASSUME RegionInv, [Next]_vars PROVE RegionInv'
  OBVIOUS
<1> USE SizeAssumption
<1> USE DEF RegionInv, TypeOK, RegionsFit, DiskEndsWithZeros, File, Open
<1>1. ASSUME NEW b \in Buffer, NEW o \in Offset, NEW s \in Size, NEW m \in MMapMode,
             New(b, o, s, m)
      PROVE  RegionInv'
  BY <1>1 DEF New
<1>2. ASSUME NEW b \in Buffer, Extend(b) PROVE RegionInv'
  <2> DEFINE last == buf[b].offset + buf[b].size - 1
  <2>1. last \in Position /\ last \in Nat
    BY <1>2 DEF Extend, Position
  <2>2. /\ file' = [size |-> IF file.size <= last THEN last + 1 ELSE file.size,
                     bytes |-> [file.bytes EXCEPT ![last] = 0]]
        /\ buf' = [buf EXCEPT ![b].state = "open"]
        /\ UNCHANGED <<disk, fault, put, flushed>>
    BY <1>2 DEF Extend
  <2>3. file'.size >= file.size /\ file'.size > last /\ file' \in File
    BY <2>1, <2>2 DEF Position
  <2>4. \A p \in Position : p >= file'.size => file'.bytes[p] = 0
    BY <2>1, <2>2, <2>3 DEF Position
  <2>5. TypeOK'
    BY <2>2, <2>3, <2>4
  <2>6. RegionsFit'
    BY <1>2, <2>2, <2>3 DEF Extend
  <2> QED
    BY <2>2, <2>5, <2>6
<1>3. ASSUME NEW b \in Buffer, FailToExtend(b) PROVE RegionInv'
  BY <1>3, ClosedIsState DEF FailToExtend, BufferState
<1>4. ASSUME NEW b \in Buffer, NEW i \in Position, Put(b, i) PROVE RegionInv'
  <2>1. {Address(b) + i} \subseteq Int /\ buf[b].offset + i \in Position
    BY <1>4, StoredPositions, RegionIsBacked DEF Put, Position
  <2>2. put' \in [Position -> {0, 1}]
    BY <1>4, <2>1 DEF Put
  <2> QED
    BY <1>4, <2>1, <2>2, StoreEffect DEF Put
<1>5. ASSUME NEW b \in Buffer, Clear(b) PROVE RegionInv'
  <2>1. put' \in [Position -> {0, 1}] /\ flushed' \in [Position -> {0, 1}]
    BY <1>5 DEF Clear, Overwritten
  <2>2. Address(b) .. Address(b) + SizeOf(b) - 1 \subseteq Int
    OBVIOUS
  <2> QED
    BY <1>5, <2>1, <2>2, StoreEffect DEF Clear
<1>6. ASSUME NEW b \in Buffer, Flush(b) PROVE RegionInv'
  <2>1. flushed' \in [Position -> {0, 1}]
    BY <1>6 DEF Flush, Promised
  <2>2. MapPosition(b) .. MapPosition(b) + MapSize(b) - 1 \subseteq Int
    OBVIOUS
  <2> QED
    BY <1>6, <2>1, <2>2, WriteBackEffect DEF Flush
<1>7. ASSUME NEW b \in Buffer, Close(b) PROVE RegionInv'
  BY <1>7, ClosedIsState DEF Close, BufferState
<1>8. ASSUME NEW p \in Position, WriteBack(p) PROVE RegionInv'
  <2>1. {p} \in SUBSET Int
    BY DEF Position
  <2>2. disk' \in File /\ disk'.size = file.size /\ DiskEndsWithZeros'
        /\ UNCHANGED <<file, buf, fault, put, flushed>>
    BY <1>8, <2>1, WriteBackEffect DEF WriteBack
  <2>3. disk'.size <= file'.size
    BY <2>2
  <2> QED
    BY <2>2, <2>3
<1>9. CASE Crash
  BY <1>9, ClosedIsState DEF Crash, BufferState
<1>10. CASE UNCHANGED vars
  BY <1>10 DEF vars
<1> QED
  BY <1>1, <1>2, <1>3, <1>4, <1>5, <1>6, <1>7, <1>8, <1>9, <1>10 DEF Next

\* Type correctness; a file ends with zeros, in memory and after a crash.
THEOREM MMapTypes == Spec => []TypeOK
<1>1. RegionInv => TypeOK
  BY DEF RegionInv
<1> QED
  BY InitRegionInv, NextRegionInv, <1>1, PTL DEF Spec

-----------------------------------------------------------------------------
(* Clients that clear only regions that start at a page                    *)

LEMMA NextNoFault ==
  ASSUME ~ClearsUnaligned, RegionInv, NoFault, [Next]_vars
  PROVE  NoFault'
<1> USE DEF NoFault
<1>1. ASSUME NEW b \in Buffer, NEW i \in Position, Put(b, i) PROVE NoFault'
  <2>1. {Address(b) + i} \in SUBSET Int /\ {Address(b) + i} \subseteq Backed(b)
    BY <1>1, StoredPositions, RegionIsBacked DEF Put, Region, RegionInv, TypeOK
  <2> QED
    BY <1>1, <2>1, StoreEffect DEF Put
<1>2. ASSUME NEW b \in Buffer, Clear(b) PROVE NoFault'
  <2>1. Address(b) .. Address(b) + SizeOf(b) - 1 \subseteq Backed(b)
    BY <1>2, StoredPositions, RegionIsBacked DEF Clear
  <2>2. Address(b) .. Address(b) + SizeOf(b) - 1 \in SUBSET Int
    OBVIOUS
  <2> QED
    BY <1>2, <2>1, <2>2, StoreEffect DEF Clear
<1> QED
  BY <1>1, <1>2 DEF Next, New, Extend, FailToExtend, Flush, Close, WriteBack, Crash, vars

\* Every byte of an open region can be used, however many constructors extend
\* the file at the same time: see NoFault.
THEOREM RegionsCanBeUsed == ~ClearsUnaligned => (Spec => []NoFault)
<1> SUFFICES ASSUME ~ClearsUnaligned PROVE Spec => []NoFault
  OBVIOUS
<1>1. RegionInv /\ NoFault /\ [Next]_vars => RegionInv' /\ NoFault'
  BY NextRegionInv, NextNoFault
<1> QED
  BY InitRegionInv, <1>1, PTL DEF Spec

-----------------------------------------------------------------------------
(* Clients that also open their regions one after another                  *)

LEMMA InitMemoryInv == Init => MemoryInv
<1> SUFFICES ASSUME Init PROVE MemoryInv
  OBVIOUS
<1>1. \A p \in Position : put[p] = 0 /\ flushed[p] = 0 /\ disk.bytes[p] = 0
  BY DEF Init, Empty
<1> QED
  BY <1>1, InitRegionInv
  DEF MemoryInv, Init, OneExtends, FileHoldsWhatWasPut, PromisesStand, FlushedDataSurvives, Closed

\* What a region stores is put there, in the file and nowhere else.
LEMMA StoredIsPut ==
  ASSUME MemoryInv, NEW b \in Buffer, Open(b), NEW ps \in SUBSET Region(b), NEW v \in {0, 1},
         Store(b, ps, v),
         put' = IF buf[b].mode = READ_WRITE THEN Overwritten(put, ps, v) ELSE put,
         buf[b].mode # READ_ONLY
  PROVE  /\ FileHoldsWhatWasPut'
         /\ file'.size = file.size
<1> USE DEF MemoryInv, FileHoldsWhatWasPut
<1>1. /\ ps \in SUBSET Int /\ ps \subseteq Backed(b) /\ ps \subseteq Position
      /\ \A p \in ps : p < file.size
  BY RegionIsBacked, SizeAssumption DEF RegionInv, TypeOK, File
<1>2. file' \in File /\ file'.size = file.size
  BY <1>1, StoreEffect
<1>3. file.bytes = put /\ put \in [Position -> {0, 1}] /\ file'.bytes \in [Position -> {0, 1}]
  BY <1>2 DEF RegionInv, TypeOK, File
<1>4. CASE buf[b].mode = PRIVATE
  BY <1>1, <1>4, StoreEffect DEF PRIVATE, READ_WRITE
<1>5. CASE buf[b].mode = READ_WRITE
  <2>1. \A p \in Position : file'.bytes[p] = IF p \in ps THEN v ELSE put[p]
    BY <1>1, <1>3, <1>5, StoreEffect DEF PRIVATE, READ_WRITE
  <2>2. put' = [p \in Position |-> IF p \in ps THEN v ELSE put[p]]
    BY <1>5 DEF Overwritten
  <2> QED
    BY <1>2, <1>3, <2>1, <2>2
<1> QED
  BY <1>2, <1>4, <1>5 DEF RegionInv, TypeOK, MMapMode

LEMMA NextMemoryInv ==
  ASSUME OneAtATime, ~ClearsUnaligned, MemoryInv, [Next]_vars
  PROVE  MemoryInv'
<1>0. RegionInv'
  BY NextRegionInv DEF MemoryInv
<1> USE SizeAssumption, <1>0
<1> USE DEF MemoryInv, OneExtends, FileHoldsWhatWasPut, PromisesStand, FlushedDataSurvives
<1>a. /\ file \in File /\ disk \in File /\ file.bytes = put /\ put \in [Position -> {0, 1}]
      /\ flushed \in [Position -> {0, 1}] /\ disk.bytes \in [Position -> {0, 1}]
      /\ \A p \in Position : p >= file.size => file.bytes[p] = 0
      /\ file.size \in Nat /\ MaxFile \in Nat
      /\ buf \in [Buffer -> BufferState]
  BY DEF RegionInv, TypeOK, File, BufferState
<1>1. ASSUME NEW b \in Buffer, NEW o \in Offset, NEW s \in Size, NEW m \in MMapMode,
             New(b, o, s, m)
      PROVE  MemoryInv'
  BY <1>1, <1>a DEF New, BufferState
\* The zero that extends the file is written where there was nothing.
<1>2. ASSUME NEW b \in Buffer, Extend(b) PROVE MemoryInv'
  <2> DEFINE last == buf[b].offset + buf[b].size - 1
  <2>1. last \in Position /\ file.size <= last /\ last \in Nat
    BY <1>2, <1>a DEF Extend, RegionInv, RegionsFit, Position, BufferState
  <2>2. file.bytes[last] = 0
    BY <2>1, <1>a
  <2>3. file'.bytes = file.bytes
    BY <1>2, <2>1, <2>2, <1>a DEF Extend
  <2>4. \A c \in Buffer : buf'[c].state # "extending"
    BY <1>2, <1>a DEF Extend, BufferState
  <2>5. UNCHANGED <<put, flushed, disk>>
    BY <1>2 DEF Extend
  <2> QED
    BY <2>3, <2>4, <2>5
<1>3. ASSUME NEW b \in Buffer, FailToExtend(b) PROVE MemoryInv'
  BY <1>3, <1>a, ClosedIsState DEF FailToExtend
<1>4. ASSUME NEW b \in Buffer, NEW i \in Position, Put(b, i) PROVE MemoryInv'
  <2> DEFINE here == buf[b].offset + i
  <2>1. here \in Region(b) /\ here \in Position /\ Address(b) + i = here
    BY <1>4, StoredPositions, RegionIsBacked DEF Put
  <2>2. put' = IF buf[b].mode = READ_WRITE THEN Overwritten(put, {here}, 1) ELSE put
    <3>1. [put EXCEPT ![here] = 1] = Overwritten(put, {here}, 1)
      BY <1>a, <2>1 DEF Overwritten
    <3> HIDE DEF here
    <3> QED
      BY <1>4, <3>1 DEF Put, here
  <2> HIDE DEF here
  <2>3. FileHoldsWhatWasPut' /\ file'.size = file.size
    BY <1>4, <2>1, <2>2, StoredIsPut DEF Put
  <2>4. \A p \in Position : put'[p] = 1 \/ put'[p] = put[p]
    BY <2>1, <2>2 DEF Overwritten
  <2>5. UNCHANGED <<disk, buf, flushed>>
    BY <1>4 DEF Put
  <2>6. PromisesStand'
    BY <2>4, <2>5, <1>a
  <2> QED
    BY <2>3, <2>5, <2>6
<1>5. ASSUME NEW b \in Buffer, Clear(b) PROVE MemoryInv'
  <2>1. Address(b) .. Address(b) + SizeOf(b) - 1 = Region(b) /\ Region(b) \subseteq Position
    BY <1>5, StoredPositions, RegionIsBacked DEF Clear
  <2>2. put' = IF buf[b].mode = READ_WRITE THEN Overwritten(put, Region(b), 0) ELSE put
    BY <1>5 DEF Clear
  <2>3. FileHoldsWhatWasPut' /\ file'.size = file.size
    BY <1>5, <2>1, <2>2, StoredIsPut DEF Clear
  <2>4. \A p \in Position : \/ put'[p] = put[p] /\ flushed'[p] = flushed[p]
                            \/ put'[p] = 0 /\ flushed'[p] = 0
    BY <1>5, <2>1 DEF Clear, Overwritten
  <2>5. UNCHANGED <<disk, buf>>
    BY <1>5 DEF Clear
  <2>6. PromisesStand' /\ FlushedDataSurvives'
    BY <2>4, <2>5, <1>a
  <2> QED
    BY <2>3, <2>5, <2>6
<1>6. ASSUME NEW b \in Buffer, Flush(b) PROVE MemoryInv'
  <2>1. CASE buf[b].mode = PRIVATE
    BY <1>6, <2>1 DEF Flush
  <2>2. CASE buf[b].mode # PRIVATE
    <3> DEFINE ps == MapPosition(b) .. MapPosition(b) + MapSize(b) - 1
    <3>1. /\ disk' = WrittenBack(ps) /\ flushed' = Promised(b)
          /\ UNCHANGED <<file, buf, fault, put>>
      BY <1>6, <2>2 DEF Flush
    <3>2. ps \in SUBSET Int /\ Region(b) \subseteq ps
      BY <1>6, RegionIsBacked DEF Flush
    <3> HIDE DEF ps
    <3>3. /\ \A p \in Position : disk'.bytes[p] \in {file.bytes[p], disk.bytes[p]}
          /\ \A p \in Region(b) : p \in Position => disk'.bytes[p] = file.bytes[p]
      BY <3>1, <3>2, WriteBackEffect
    <3>4. \A p \in Position : flushed'[p] = IF p \in Region(b) THEN put[p] ELSE flushed[p]
      BY <3>1 DEF Promised
    <3>5. PromisesStand' /\ FlushedDataSurvives'
      BY <3>1, <3>3, <3>4, <1>a
    <3> QED
      BY <3>1, <3>5
  <2> QED
    BY <2>1, <2>2
<1>7. ASSUME NEW b \in Buffer, Close(b) PROVE MemoryInv'
  BY <1>7, <1>a, ClosedIsState DEF Close
<1>8. ASSUME NEW p \in Position, WriteBack(p) PROVE MemoryInv'
  <2>1. {p} \in SUBSET Int
    BY DEF Position
  <2>2. \A q \in Position : disk'.bytes[q] \in {file.bytes[q], disk.bytes[q]}
    BY <1>8, <2>1, WriteBackEffect DEF WriteBack
  <2> QED
    BY <1>8, <1>a, <2>2 DEF WriteBack
<1>9. CASE Crash
  BY <1>9, ClosedIsState DEF Crash
<1>10. CASE UNCHANGED vars
  BY <1>10 DEF vars
<1> QED
  BY <1>1, <1>2, <1>3, <1>4, <1>5, <1>6, <1>7, <1>8, <1>9, <1>10 DEF Next

LEMMA AlwaysMemoryInv == OneAtATime /\ ~ClearsUnaligned => (Spec => []MemoryInv)
<1> SUFFICES ASSUME OneAtATime, ~ClearsUnaligned PROVE Spec => []MemoryInv
  OBVIOUS
<1>1. MemoryInv /\ [Next]_vars => MemoryInv'
  BY NextMemoryInv
<1> QED
  BY InitMemoryInv, <1>1, PTL DEF Spec

\* All buffers over a file are one memory, whatever regions they map: see
\* FileHoldsWhatWasPut.
THEOREM BuffersShareTheFile ==
  OneAtATime /\ ~ClearsUnaligned => (Spec => []FileHoldsWhatWasPut)
<1>1. MemoryInv => FileHoldsWhatWasPut
  BY DEF MemoryInv
<1> QED
  BY AlwaysMemoryInv, <1>1, PTL

\* What flush wrote survives a crash, also when other regions on the same
\* pages are used, cleared or flushed: see FlushedDataSurvives.
THEOREM FlushIsDurable ==
  OneAtATime /\ ~ClearsUnaligned => (Spec => []FlushedDataSurvives)
<1>1. MemoryInv => FlushedDataSurvives
  BY DEF MemoryInv
<1> QED
  BY AlwaysMemoryInv, <1>1, PTL
=============================================================================

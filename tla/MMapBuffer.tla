----------------------------- MODULE MMapBuffer -----------------------------
(***************************************************************************)
(* MMapBuffer: regions of a file mapped into memory.  The constructor      *)
(* looks at the length of the file, extends the file when the region goes  *)
(* past its end, and maps the pages the region touches; the buffers then   *)
(* read and write the page cache that all mappings of the file share,      *)
(* until flush (or the kernel) writes pages to the disk.  The buffers may  *)
(* belong to different threads or processes.                               *)
(*                                                                         *)
(* A byte is 0 or 1: clients put 1, clear and file extension write 0.      *)
(* Memory is named by the position in the file that is mapped there.       *)
(***************************************************************************)
EXTENDS Integers, FiniteSets

CONSTANTS Buffer,         \* MMapBuffer objects
          PageSize,       \* allocation granule of mmap
          MaxFile,        \* bound on the length of the file
          InitialSize,    \* length of the file at the start
          Offset, Size,   \* arguments of the constructor
          OneAtATime,     \* clients open their regions one after another
          ClearsUnaligned \* clients clear regions that start inside a page

READ_ONLY  == "READ_ONLY"
READ_WRITE == "READ_WRITE"
PRIVATE    == "PRIVATE"
MMapMode   == {READ_ONLY, READ_WRITE, PRIVATE}

Position == 0 .. MaxFile - 1

ASSUME SizeAssumption == /\ PageSize \in Nat \ {0} /\ MaxFile \in Nat
                         /\ InitialSize \in 0 .. MaxFile
                         /\ Offset \subseteq Nat /\ Size \subseteq Nat \ {0}
ASSUME ClientAssumption == OneAtATime \in BOOLEAN /\ ClearsUnaligned \in BOOLEAN

VARIABLES file,    \* the file as the page cache has it: length and bytes
          disk,    \* the file as a machine that crashes now will find it
          buf,     \* the buffers: state, offset, size and mode
          fault,   \* a buffer touched memory that is not backed by the file
          put,     \* what clients last put at each position of the file
          flushed  \* what flush() promised to be on the disk

vars == <<file, disk, buf, fault, put, flushed>>

Closed == [state |-> "closed", offset |-> 0, size |-> 0, mode |-> READ_ONLY]
Open(b) == buf[b].state = "open"

-----------------------------------------------------------------------------
(* The geometry of a mapping, and the kernel                               *)

RoundUp(n) == ((n + PageSize - 1) \div PageSize) * PageSize

PagePosition(b) == buf[b].offset % PageSize
MapPosition(b)  == buf[b].offset - PagePosition(b)
MapSize(b)      == buf[b].size + PagePosition(b)
Region(b)       == buf[b].offset .. buf[b].offset + buf[b].size - 1

\* Faulty variant: the start of the mapping instead of the start of the region.
RawAddress(b) == MapPosition(b)
\* address()
Address(b) == MapPosition(b) + PagePosition(b)
\* size() of LBufferAPI: the size of the MMapMemory
SizeOf(b) == MapSize(b)

\* mmap maps whole pages; those past the end of the file are not accessible.
Backed(b) ==
             (MapPosition(b) .. MapPosition(b) + RoundUp(MapSize(b)) - 1)
                 \cap (0 .. RoundUp(file.size) - 1)

Overwritten(bytes, ps, v) == [p \in Position |-> IF p \in ps THEN v ELSE bytes[p]]

\* Buffer b stores v at the positions ps.  Writes to a private mapping stay
\* in it, writes behind the end of the file are lost.
Store(b, ps, v) ==
    IF ps \subseteq Backed(b)
    THEN /\ file' = IF buf[b].mode = PRIVATE THEN file
                    ELSE [file EXCEPT !.bytes = Overwritten(@, ps \cap 0 .. file.size - 1, v)]
         /\ UNCHANGED fault
    ELSE fault' = TRUE /\ UNCHANGED file

\* The pages that hold the positions ps go to the disk.
WrittenBack(ps) ==
    [size |-> file.size,
     bytes |-> [p \in Position |-> IF \E q \in ps : q \div PageSize = p \div PageSize
                                   THEN file.bytes[p] ELSE disk.bytes[p]]]

-----------------------------------------------------------------------------
Empty(size) == [size |-> size, bytes |-> [p \in Position |-> 0]]

Init == /\ file = Empty(InitialSize)
        /\ disk = Empty(InitialSize)
        /\ buf = [b \in Buffer |-> Closed]
        /\ fault = FALSE
        /\ put = file.bytes
        /\ flushed = file.bytes

\* The constructor up to the test of the file size.  A region inside the
\* file is mapped at once; otherwise the file is extended first.
New(b, offset, size, mode) ==
    /\ buf[b].state = "closed"
    /\ OneAtATime => \A c \in Buffer : buf[c].state # "extending"
    /\ offset + size <= MaxFile
    /\ buf' = [buf EXCEPT ![b] =
                  [state |-> IF file.size < offset + size THEN "extending" ELSE "open",
                   offset |-> offset, size |-> size, mode |-> mode]]
    /\ UNCHANGED <<file, disk, fault, put, flushed>>

\* Faulty variant: makes the file as long as the region.
ExtendToSize(b) ==
    /\ buf[b].state = "extending"
    /\ buf[b].mode # READ_ONLY
    /\ file' = [file EXCEPT !.size = buf[b].size]
    /\ buf' = [buf EXCEPT ![b].state = "open"]
    /\ UNCHANGED <<disk, fault, put, flushed>>

\* The rest of the constructor: writes a zero at the last byte of the region
\* - the length tested may be out of date by now - and maps it.
Extend(b) ==
    LET last == buf[b].offset + buf[b].size - 1
    IN  /\ buf[b].state = "extending"
        /\ buf[b].mode # READ_ONLY
        /\ file' = [size |-> IF file.size <= last THEN last + 1 ELSE file.size,
                    bytes |-> [file.bytes EXCEPT ![last] = 0]]
        /\ buf' = [buf EXCEPT ![b].state = "open"]
        /\ UNCHANGED <<disk, fault, put, flushed>>

\* A file opened for reading cannot be extended: IOException.
FailToExtend(b) ==
    /\ buf[b].state = "extending"
    /\ buf[b].mode = READ_ONLY
    /\ buf' = [buf EXCEPT ![b] = Closed]
    /\ UNCHANGED <<file, disk, fault, put, flushed>>

\* putByte(i, 1); clients do not write to a READ_ONLY buffer.
Put(b, i) ==
    /\ Open(b) /\ buf[b].mode # READ_ONLY
    /\ i < buf[b].size
    /\ Store(b, {Address(b) + i}, 1)
    /\ put' = IF buf[b].mode = READ_WRITE THEN [put EXCEPT ![buf[b].offset + i] = 1] ELSE put
    /\ UNCHANGED <<disk, buf, flushed>>

\* clear(): fill(0, size(), 0)
Clear(b) ==
    /\ Open(b) /\ buf[b].mode # READ_ONLY
    /\ ClearsUnaligned \/ PagePosition(b) = 0
    /\ Store(b, Address(b) .. Address(b) + SizeOf(b) - 1, 0)
    /\ IF buf[b].mode = READ_WRITE
       THEN /\ put' = Overwritten(put, Region(b), 0)
            /\ flushed' = Overwritten(flushed, Region(b), 0)
       ELSE UNCHANGED <<put, flushed>>
    /\ UNCHANGED <<disk, buf>>

Promised(b) == [p \in Position |-> IF p \in Region(b) THEN put[p] ELSE flushed[p]]

\* Faulty variant: as many bytes as the region has, from the start of the page.
FlushRegionSize(b) ==
    /\ Open(b)
    /\ IF buf[b].mode = PRIVATE THEN UNCHANGED <<disk, flushed>>
       ELSE /\ disk' = WrittenBack(MapPosition(b) .. MapPosition(b) + buf[b].size - 1)
            /\ flushed' = Promised(b)
    /\ UNCHANGED <<file, buf, fault, put>>

\* flush(): msync of the whole mapping
Flush(b) ==
    /\ Open(b)
    /\ IF buf[b].mode = PRIVATE THEN UNCHANGED <<disk, flushed>>
       ELSE /\ disk' = WrittenBack(MapPosition(b) .. MapPosition(b) + MapSize(b) - 1)
            /\ flushed' = Promised(b)
    /\ UNCHANGED <<file, buf, fault, put>>

\* close(): munmap
Close(b) ==
    /\ Open(b)
    /\ buf' = [buf EXCEPT ![b] = Closed]
    /\ UNCHANGED <<file, disk, fault, put, flushed>>

\* The kernel writes a page back whenever it likes.
WriteBack(p) ==
    /\ p < file.size
    /\ disk' = WrittenBack({p})
    /\ UNCHANGED <<file, buf, fault, put, flushed>>

\* The machine goes down and comes back with what is on the disk.
Crash ==
    /\ file' = disk
    /\ put' = disk.bytes
    /\ buf' = [b \in Buffer |-> Closed]
    /\ UNCHANGED <<disk, fault, flushed>>

Next == \/ \E b \in Buffer :
              \/ \E o \in Offset, s \in Size, m \in MMapMode : New(b, o, s, m)
              \/ Extend(b) \/ FailToExtend(b)
              \/ \E i \in Position : Put(b, i)
              \/ Clear(b) \/ Flush(b) \/ Close(b)
        \/ \E p \in Position : WriteBack(p)
        \/ Crash

Spec == Init /\ [][Next]_vars

-----------------------------------------------------------------------------
File == [size : 0 .. MaxFile, bytes : [Position -> {0, 1}]]

TypeOK == /\ file \in File /\ disk \in File
          /\ buf \in [Buffer -> [state : {"closed", "extending", "open"}, offset : Nat,
                                 size : Nat, mode : MMapMode]]
          /\ fault \in BOOLEAN
          /\ put \in [Position -> {0, 1}] /\ flushed \in [Position -> {0, 1}]
          /\ disk.size <= file.size
          /\ \A p \in Position : p >= file.size => file.bytes[p] = 0

\* Every byte of an open region can be used: whatever the order in which
\* regions were opened and the file grew, it is mapped and inside the file.
NoFault == ~fault

\* All buffers over a file are one shared memory: a byte of the file is what
\* was last put there through any of the regions that contain it.  Opening a
\* region, or clearing another one, changes nothing.
FileHoldsWhatWasPut == file.bytes = put

\* What flush() of a buffer wrote survives a crash of the machine, unless a
\* client cleared it.
FlushedDataSurvives == \A p \in Position : disk.bytes[p] >= flushed[p]
=============================================================================

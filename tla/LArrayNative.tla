---------------------------- MODULE LArrayNative ----------------------------
(***************************************************************************)
(* LArrayNative.c as it is built on Windows, under one MMapBuffer that     *)
(* threads share: mmap (a mapping object and a view), duplicateHandle,     *)
(* msync with its retries, munmap, and the copies between memory and Java  *)
(* arrays.  (MMapBuffer.tla models the mapping of POSIX systems.)          *)
(*                                                                         *)
(* A byte of the file is its version: the number of writes it has seen.    *)
(* A write reaches the memory of the view first, the file system's cache   *)
(* when the view is flushed, the disk when the file's buffers are flushed; *)
(* the system moves bytes down by itself whenever it likes.                *)
(***************************************************************************)
EXTENDS Integers, FiniteSets

CONSTANTS Thread,
          MaxFile,        \* length of the file
          Offset, Size,   \* the mappings clients ask for
          PageSize,       \* what MMapBuffer aligns offsets to
          Granularity,    \* what MapViewOfFile wants offsets to be aligned to
          Dword,          \* number of values of a DWORD
          MaxVersion,     \* bound on the writes of one byte
          ArrayLength,    \* of the Java array that threads copy to and from
          AlignsToGranule, \* clients ask for offsets that Windows can map
          FitsDword,      \* clients ask for sizes a DWORD can hold (or exactly one more)
          SharesArray     \* threads use the Java array while another one copies

ASSUME NativeAssumption ==
    /\ MaxFile \in Nat /\ Offset \subseteq Nat /\ Size \subseteq Nat \ {0}
    /\ PageSize \in Nat \ {0} /\ Granularity \in Nat \ {0} /\ Dword \in Nat \ {0, 1}
    /\ MaxVersion \in Nat /\ ArrayLength \in Nat
    /\ AlignsToGranule \in BOOLEAN /\ FitsDword \in BOOLEAN /\ SharesArray \in BOOLEAN

VARIABLES mem, written, disk, \* versions: in memory, in the cache, on the disk
          view,    \* the mapping: state, what was asked for, where the view begins
          handle,  \* of the RandomAccessFile
          dup,     \* winHandle: none, failed (-1), or what it may be used for
          task,    \* what each thread does
          durable, \* versions that a finished flush guarantees
          array, expected \* the Java array, and what was last put into it

nvars == <<mem, written, disk, view, handle, dup, task, durable, array, expected>>
files == <<mem, written, disk, durable>>
maps == <<view, handle, dup>>
arrays == <<array, expected>>

Position == 0 .. MaxFile - 1
Version == 0 .. MaxVersion
Index == 0 .. ArrayLength - 1
JavaValue == -1 \* an element that Java code stored

NoView == [state |-> "none", offset |-> 0, size |-> 0, mode |-> 0, base |-> 0]
Idle == [pc |-> "idle", retry |-> 0, promise |-> [p \in {} |-> 0],
         copy |-> [i \in {} |-> 0], from |-> 0, at |-> 0, len |-> 0, why |-> "none"]

-----------------------------------------------------------------------------
(* Geometry                                                                *)

PagePosition(o) == o % PageSize
MapPosition(o) == o - PagePosition(o)
MapSize(o, s) == s + PagePosition(o)

\* Windows takes 64-bit numbers in two halves.
Low(n) == n % Dword
High(n) == n \div Dword
Joined(high, low) == high * Dword + low
\* Faulty variant: files are shorter than 4GB, the high half is 0.
ViewBaseLow(offset) == Joined(0, Low(offset))
\* MapViewOfFile(mapping, mapAccess, highOffset, lowOffset, size)
ViewBase(offset) == Joined(High(offset), Low(offset))

\* The bytes of the file that the buffer is for.
Region == view.offset .. view.offset + view.size - 1
Mapped == view.state = "mapped"

\* Faulty variant: as many bytes as the region has, from the start of the page.
FlushedRegionSize == view.base .. view.base + view.size - 1
\* The part of the view that FlushViewOfFile(a, (DWORD)size) writes; 0 is all.
Flushed ==
    LET size == MapSize(view.offset, view.size)
        len == IF Low(size) = 0 THEN size ELSE Low(size)
    IN  view.base .. view.base + len - 1

Copying(t) == task[t].pc \in {"toArray", "fromArray"}

Raised(f, g, S) == [p \in Position |-> IF p \in S /\ g[p] > f[p] THEN g[p] ELSE f[p]]

-----------------------------------------------------------------------------
NativeInit ==
    /\ mem = [p \in Position |-> 0] /\ written = mem /\ disk = mem /\ durable = mem
    /\ view = NoView
    /\ handle = "closed" /\ dup = "none"
    /\ task = [t \in Thread |-> Idle]
    /\ array = [i \in Index |-> JavaValue] /\ expected = array

\* duplicateHandle: a handle with the same access, or -1
DuplicateHandle(mode, succeeds) ==
    IF ~succeeds THEN "failed" ELSE IF mode = 0 THEN "read" ELSE "write"

\* The constructor of MMapBuffer: opens the file, mmap, duplicateHandle.
\* mode 0 is READ_ONLY, 1 READ_WRITE, 2 PRIVATE.  mmap returns 0 when
\* MapViewOfFile does not like the offset; nobody looks.
Mmap(o, s, mode, duplicated) ==
    /\ view.state = "none" /\ \A t \in Thread : task[t] = Idle
    /\ o + s <= MaxFile
    /\ AlignsToGranule => MapPosition(o) % Granularity = 0
    /\ FitsDword => MapSize(o, s) <= Dword
    /\ view' = [state |-> IF MapPosition(o) % Granularity = 0 THEN "mapped" ELSE "null",
                offset |-> o, size |-> s, mode |-> mode, base |-> ViewBase(MapPosition(o))]
    /\ handle' = "open"
    /\ dup' = DuplicateHandle(mode, duplicated)
    /\ UNCHANGED <<files, task, arrays>>

\* munmap, the first half of close()
Munmap ==
    /\ view.state # "none" /\ ~\E t \in Thread : Copying(t)
    /\ view' = NoView
    /\ UNCHANGED <<files, handle, dup, task, arrays>>

\* fc.close(), the second half; the duplicate of the handle stays open.
CloseFile ==
    /\ view.state = "none" /\ handle = "open"
    /\ handle' = "closed"
    /\ UNCHANGED <<files, view, dup, task, arrays>>

-----------------------------------------------------------------------------
(* msync                                                                   *)

Begin(t, r) == /\ task[t] = Idle
               /\ task' = [task EXCEPT ![t] = r]

\* flush(): what was written through this buffer before is now due.
StartFlush(t) ==
    /\ view.state # "none"
    /\ Begin(t, [Idle EXCEPT !.pc = "view",
                    !.promise = [p \in IF view.mode = 1 THEN Region ELSE {} |-> mem[p]]])
    /\ UNCHANGED <<files, maps, arrays>>

FailFlush(t, why) == task' = [task EXCEPT ![t].pc = "failed", ![t].why = why]

\* FlushViewOfFile succeeds.
FlushView(t) ==
    /\ task[t].pc = "view" /\ Mapped
    /\ written' = IF view.mode = 1 THEN Raised(written, mem, Flushed) ELSE written
    /\ task' = [task EXCEPT ![t].pc = "buffers"]
    /\ UNCHANGED <<mem, disk, durable, maps, arrays>>

\* Faulty variants: tries again until it succeeds, counting to three
\* again and again, or without a limit.
LockViolationForever(t) ==
    /\ task[t].pc = "view" /\ Mapped
    /\ task' = [task EXCEPT ![t].retry = (@ + 1) % 3]
    /\ UNCHANGED <<files, maps, arrays>>
LockViolationUnlimited(t) ==
    /\ task[t].pc = "view" /\ Mapped
    /\ task' = [task EXCEPT ![t].retry = @ + 1]
    /\ UNCHANGED <<files, maps, arrays>>

\* FlushViewOfFile meets pages that the system is writing; three tries.
LockViolation(t) ==
    /\ task[t].pc = "view" /\ Mapped
    /\ IF task[t].retry < 2 THEN task' = [task EXCEPT ![t].retry = @ + 1]
       ELSE FailFlush(t, "locked")
    /\ UNCHANGED <<files, maps, arrays>>

\* The address is not that of a view (any more).
NotAView(t) ==
    /\ task[t].pc = "view" /\ ~Mapped
    /\ FailFlush(t, "unmapped")
    /\ UNCHANGED <<files, maps, arrays>>

\* Faulty variant: flush() passes the file's own handle.
FileHandle == handle = "open"
\* flush() passes winHandle.
FlushHandle == dup \in {"read", "write"}

\* FlushFileBuffers puts all of the file that is in the cache on the disk;
\* a handle for reading only is refused, which is taken for success.
FlushBuffers(t) ==
    /\ task[t].pc = "buffers"
    /\ IF FlushHandle
       THEN /\ disk' = IF dup = "write" THEN written ELSE disk
            /\ durable' = Raised(durable, task[t].promise, DOMAIN task[t].promise)
            /\ task' = [task EXCEPT ![t] = Idle]
       ELSE FailFlush(t, "handle") /\ UNCHANGED <<disk, durable>>
    /\ UNCHANGED <<mem, written, maps, arrays>>

\* "failed to sync" is printed, and the method returns like any other.
ReturnFailed(t) ==
    /\ task[t].pc = "failed"
    /\ task' = [task EXCEPT ![t] = Idle]
    /\ UNCHANGED <<files, maps, arrays>>

-----------------------------------------------------------------------------
(* copyToArray and copyFromArray                                           *)

\* GetPrimitiveArrayCritical gives the array itself, or a copy of it.
GetCritical(t, pc, p, i, n, copied) ==
    /\ Mapped /\ n <= view.size /\ i + n <= ArrayLength
    /\ p \in Region /\ p + n - 1 \in Region
    /\ SharesArray \/ ~\E u \in Thread : Copying(u)
    /\ Begin(t, [Idle EXCEPT !.pc = pc, !.from = p, !.at = i, !.len = n,
                    !.copy = IF copied THEN array ELSE @])
    /\ UNCHANGED <<files, maps, arrays>>

StartCopy(t, p, i, n, copied) ==
    \/ GetCritical(t, "toArray", p, i, n, copied)
    \/ /\ view.mode = 1
       /\ GetCritical(t, "fromArray", p, i, n, copied)
       /\ \A q \in p .. p + n - 1 : mem[q] < MaxVersion

Copied(t) == DOMAIN task[t].copy # {}

\* The address of the byte at position p of the file, as MMapBuffer computes it
AddressOf(p) == view.base + p - MapPosition(view.offset)
\* f with n values of g from position p on at index i
Put(f, i, g, p, n) == [k \in Index |-> IF k \in i .. i + n - 1 THEN g[p + k - i] ELSE f[k]]

\* What ReleasePrimitiveArrayCritical leaves in the array when the memory
\* the native code worked on holds f.  Faulty variant: JNI_ABORT.
ReleasedAbort(t, f) == IF Copied(t) THEN array ELSE f
\* Mode 0: a copy goes back, all of it.
Released(t, f) == f
Critical(t) == IF Copied(t) THEN task[t].copy ELSE array

\* memcpy(ptr + destOffset, srcAddr, len) and the release
CopyToArray(t) ==
    /\ task[t].pc = "toArray"
    /\ task' = [task EXCEPT ![t] = Idle]
    /\ array' = Released(t, Put(Critical(t), task[t].at, mem, AddressOf(task[t].from), task[t].len))
    /\ expected' = Put(expected, task[t].at, mem, task[t].from, task[t].len)
    /\ UNCHANGED <<files, maps>>

\* memcpy(destAddr, ptr + srcOffset, len) and the release
CopyFromArray(t) ==
    LET to == AddressOf(task[t].from)
        hit == to .. to + task[t].len - 1
    IN  /\ task[t].pc = "fromArray"
        /\ mem' = [p \in Position |-> IF p \in hit /\ mem[p] < MaxVersion THEN mem[p] + 1 ELSE mem[p]]
        /\ array' = Released(t, Critical(t))
        /\ task' = [task EXCEPT ![t] = Idle]
        /\ UNCHANGED <<written, disk, durable, maps, expected>>

\* Java code stores an element.
JavaStore(i) ==
    /\ SharesArray \/ ~\E t \in Thread : Copying(t)
    /\ array' = [array EXCEPT ![i] = JavaValue]
    /\ expected' = [expected EXCEPT ![i] = JavaValue]
    /\ UNCHANGED <<files, maps, task>>

-----------------------------------------------------------------------------
(* The system                                                              *)

LazyWrite(p) == /\ written[p] # mem[p]
                /\ written' = [written EXCEPT ![p] = mem[p]]
                /\ UNCHANGED <<mem, disk, durable, maps, task, arrays>>

WriteToDisk(p) == /\ disk[p] # written[p]
                  /\ disk' = [disk EXCEPT ![p] = written[p]]
                  /\ UNCHANGED <<mem, written, durable, maps, task, arrays>>

Work(t) == \/ FlushView(t) \/ LockViolation(t) \/ NotAView(t) \/ FlushBuffers(t)
           \/ ReturnFailed(t)
           \/ CopyToArray(t) \/ CopyFromArray(t)

NativeNext ==
    \/ \E o \in Offset, s \in Size, mode \in 0 .. 2, d \in BOOLEAN : Mmap(o, s, mode, d)
    \/ Munmap \/ CloseFile
    \/ \E t \in Thread : StartFlush(t) \/ Work(t)
    \/ \E t \in Thread, p \in Position, i \in Index, n \in 1 .. ArrayLength, c \in BOOLEAN :
          StartCopy(t, p, i, n, c)
    \/ \E i \in Index : JavaStore(i)
    \/ \E p \in Position : LazyWrite(p) \/ WriteToDisk(p)

\* A thread inside a native method gets on with it.
NativeFairness == \A t \in Thread : WF_nvars(Work(t))

NativeSpec == NativeInit /\ [][NativeNext]_nvars /\ NativeFairness

-----------------------------------------------------------------------------
NativeTypeOK ==
    /\ mem \in [Position -> Version] /\ written \in [Position -> Version]
    /\ disk \in [Position -> Version] /\ durable \in [Position -> Version]
    /\ view.state \in {"none", "null", "mapped"}
    /\ handle \in {"open", "closed"} /\ dup \in {"none", "failed", "read", "write"}
    /\ \A t \in Thread :
          /\ task[t].pc \in {"idle", "view", "buffers", "failed", "toArray", "fromArray"}
          /\ task[t].retry \in 0 .. 2
    /\ array \in [Index -> Version \cup {JavaValue}]
    /\ expected \in [Index -> Version \cup {JavaValue}]

\* A mapping shows the region of the file that was asked for, although
\* offset and length are passed in halves.
ViewShowsRegion ==
    view.state # "none" => Mapped /\ \A p \in Region : AddressOf(p) = p

\* When msync returns and has not printed "failed to sync", everything that
\* was written through the buffer before the call is on the disk - with
\* other threads writing, flushing and closing, and whatever reached the
\* cache or the disk by itself.
FlushedIsDurable == \A p \in Position : durable[p] <= disk[p]

\* A flush that is overtaken by close() does not fail for want of a handle:
\* the duplicate serves when the file is closed already.  (It may still find
\* that the view is gone, or that its pages stay locked.)
CloseSparesFlush ==
    \A t \in Thread : task[t].why = "handle" => dup = "failed"

\* Whether the JVM hands out the array or a copy, the array holds what was
\* last copied or stored into it.
ArrayHoldsCopies == (~\E t \in Thread : Copying(t)) => array = expected

\* msync comes back: it tries three times and then gives up.
MsyncReturns ==
    \A t \in Thread : task[t].pc = "view" ~> task[t].pc = "idle"
=============================================================================

# A verification of LArray

LArray is a library of off-heap arrays for Scala and Java: arrays of more than 2^31 elements whose
memory comes from `sun.misc.Unsafe` or from memory-mapped files, is released by `free` and, for those
who forget, by a collector thread. This directory holds TLA+ specifications of the library, the TLC
models that check them and TLAPS proofs about them. They are written from the source code; the file
`PROJECT.json` maps every definition to the lines it models and lists the runs, the mutants that show
that each property can fail, the findings and the hazards.

Paths below: `buffer/` is `src/larray-buffer/src/main/java/xerial/larray/buffer`, `mmap/` is
`src/larray-mmap/src/main/java/xerial/larray/mmap`, `scala/` is `src/larray/src/main/scala/xerial/larray`.

## Inventory

| Component | State | Operations | What is hard | Correct when |
|---|---|---|---|---|
| `DefaultMemoryAllocator`, `OffHeapMemory`, `MemoryReference` (`buffer/`) | table address -> phantom reference, total size, reference queue, block headers | `allocate`, `register`, `release`, `releaseAll`, collector thread | client threads, collector and GC interleave; addresses are recycled by malloc; register is outside the lock | no double free, no use after free, no leak, exact accounting |
| `LBufferAPI`, `LBuffer`, `WrappedLBuffer` (`buffer/`) | the `Memory` (shared by views) | element access, `fill`, `copyTo`, `view`, `release`, `readFrom`, `writeTo`, `loadFrom` | views outlive or double-release their memory; bounds are not checked | accesses stay inside the region |
| `MMapBuffer`, `MMapMode` (`mmap/`) | file, mapping, page cache, disk | constructor (with file extension), access, `flush`, `close` | several processes open one file; offsets inside a page; crash after flush | one shared memory, no faults, flushed data is durable |
| `LArrayNative.c` (`impl/`), as built on Windows | view, file handle and its duplicate, cache, disk, Java arrays | `mmap`, `munmap`, `msync`, `duplicateHandle`, `copyToArray`, `copyFromArray` | 64-bit numbers in halves and DWORDs; retries; close during a flush; the JVM copies arrays | a flush that does not complain is durable, every call returns, arrays hold what was copied |
| `MMapMemory`, `MMapMemoryReference`, `MappedLByteArray` | the mapping and its table entry | open, `close`, `free`, collection | `free` bypasses the allocator; mmap can fail; addresses are recycled | open buffers stay mapped, no mapping is lost |
| `LArrayBuilder`, `LArrayOutputStream` (`scala/`) | array, capacity, cursor | `+=`, `append`, `write`, `sizeHint`, `clear`, `close`, `result` | growth and release of the old array; buffers that end inside an element; sharing with the result | everything added is in the result, in order; released once |
| `saveTo`, `LArray.loadFrom`, `LBufferAPI.loadFrom`, `WritableChannelWrap` | file position, builder | save, load | partial writes, transfers cut at 2^31 - 1 bytes, chunks | load(save(a)) = a |
| Barrier of the multi-JVM test (`src/larray/src/multi-jvm`) | a mapped file with a byte per JVM | clean-up, enter, poll | processes race to create the file | nobody passes early, nobody waits for ever |
| `LArray`, `RawByteArray`, typed arrays, object arrays (`scala/LArray.scala`) | memory, size | get/update, copy, slice, sort, tabulate | 32-bit overflow, element and byte offsets | addresses of distinct elements are distinct and in bounds |
| `LBitArray`, `LBitArrayBuilder` | 64-bit blocks, number of bits, capacity, cached hash | set/clear/update, count, slice, builder | shifts across blocks; capacity in bits, memory in blocks; stale cache | agrees with a sequence of Booleans |
| `LArrayInputStream` | cursor, mark | read, available, mark, reset | call orders, end of stream, bytes and elements | ends when everything was delivered |
| `LByteBuffer` | cursor, limit, mark | get/put, flip, mark/reset | call orders | agrees with `java.nio` |
| `LIterator`, `LIterable` | shared source iterators, look-ahead queues | span, partition, filter, takeWhile, slice, buffered | two consumers of one source | each consumer sees the right elements in order |
| `LArrayView`, `UInt32Array`, `LArray2D` | a range of another array | access, copy | offset arithmetic | view(i) is base(from + i) |
| `LArrayLoader`, `OSInfo` | extracted library files | extract, compare, load | each extraction has its own file | what is loaded is the whole library |
| `UnsafeUtil`, `AltLArray`, `japi`, package object, examples, `Logger` | - | - | - | not modelled: no state of their own, or unused |

How they interact: an `LArray` or `LBuffer` calls `allocate` of the configured allocator; the `Memory`
it gets is referred to strongly by the array (and its views) and weakly, through a phantom reference,
by the allocator's table. The GC enqueues the reference of an unreachable `Memory`; the collector
thread takes it from the queue and calls the same `release` as `free` does. `MMapBuffer` registers its
mapping in the same table. Builders allocate and release `LByteArray`s; `loadFrom` fills a builder
through `FileChannel.transferTo`, and streams and iterators read the arrays that come out.

## Modules

| Module | Models | Composes |
|---|---|---|
| `MemoryService` | abstract: what an allocator promises - blocks are owned by one object until given up | |
| `DefaultMemoryAllocator` | the allocator, its clients, the collector thread, malloc and the GC | implements `MemoryService` |
| `AllocatorProofs` | proofs about the above | extends `DefaultMemoryAllocator` |
| `MMapBuffer` | regions of a file, page cache, disk | |
| `MMapLifecycle` | who releases a mapping, and when | the allocator's `register`/`release`, atomic |
| `SharedMemoryBarrier` | the multi-JVM barrier over a mapped file | the constructor of `MMapBuffer`, in steps |
| `LArrayBuilder` | builders of arrays of fixed-size elements | |
| `FileTransfer` | `saveTo`, `LArray.loadFrom` | extends `LArrayBuilder` |
| `LArrayInputStream` | a stream over an array that was loaded | extends `FileTransfer` |
| `LArrayNative` | the native methods on Windows, under threads that share a buffer | |
| `BitSequence` | abstract: a sequence of Booleans that is built, changed and cut | |
| `LBitArray` | the bit array and its builder, in blocks | implements `BitSequence` |
| `ElementStreams` | abstract: iterators that have a share each of one source | |
| `LIterator` | the iterators with a state of their own | implements `ElementStreams` |
| `BitIteration` | iterators over a bit array | `LBitArray` and `LIterator` |
| `MMapProofs`, `BarrierProofs`, `LifecycleProofs`, `NativeProofs` | proofs | extend `MMapBuffer`, `SharedMemoryBarrier`, `MMapLifecycle`, `LArrayNative` |
| `BuilderProofs` | proofs about builders, loads and streams | extends `LArrayInputStream` |
| `BitProofs` | proofs about bit arrays and iterators | extends `BitIteration` |
| `DataLemmas` | least numbers, loops that double, sums over sets, increasing sequences | used by most of the proofs |

`MCAllocator`, `MCMMap`, `MCMMapLifecycle`, `MCBarrier`, `MCBuilder`, `MCInputStream`, `MCNative` and
`MCBitIteration` hold what only TLC needs. Definitions whose comment says *faulty variant* are plausible bugs used as mutants; no
specification uses them.

### DefaultMemoryAllocator

A process is a client thread or the collector, with a program counter (`pc`), the object it works on
(`arg`) and, inside `releaseAll`, the references it works through (`refSet`, `todo`). A step is one access to
shared state: `register` is `Put` (the table, a `ConcurrentHashMap`) and `Charge` (the total, reading the
block header); `release` is `Enter` (the monitor), `Check`, `Discharge`, `Remove`, `FreeMemory`. `Sweep` is the GC
enqueueing the reference of an unreachable object whose reference is itself still reachable, `Dequeue` the
collector's `queue.remove()`. `heap[a]` is the data size in the block's header or `Free`; reading the header of
a freed block returns any member of `Garbage`. Two constants describe the clients: `Aliasing` (several threads
hold one object, through views, or keep it after `free`) and `AllReleasers` (threads that call `releaseAll`).

Properties: `FreesOnlyAllocated` (no double free), `EveryBlockIsTracked` (no leak), `EveryEntryCanBeCollected`
(no entry of a dead object that nobody will collect), `UsableMemoryIsIntact` (no use after free),
`CollectorSparesLiveObjects`, `TotalIsExact`, `AbandonedBlocksAreFreed` (liveness), `ServiceRefinement` (the
allocator implements `MemoryService` with block := heap and held := the objects that were not released).

### MMapBuffer

Positions in the file name the memory mapped there. `file` is the page cache, `disk` what a crash leaves,
`put` what clients last stored at each position (a history), `flushed` what `flush` promised. The constructor
is two steps: `New` (up to the test of the file size) and `Extend` (from the zero written at the last byte on);
everything after is local. `Store` gives writes their meaning: whole pages are mapped, private mappings keep
their writes, writes behind the end of the file are lost, and touching memory outside sets `fault`. After a
fault the JVM is gone, so nothing is said about what follows.

Properties: `NoFault`, `FileHoldsWhatWasPut` (all regions over one file are one memory), `FlushedDataSurvives`.

### MMapLifecycle

The life of a mapping (`state`), the addresses the system has mapped (`mapped`), the allocator's `table`, `total` and
`queue`. `register` and `release` are atomic here, their interleavings being the subject of
`DefaultMemoryAllocator`. Clients may call `MappedLByteArray.free` (and nothing after it, as its documentation
demands), and any mmap may fail and return -1. `freed` remembers who was freed.

Properties: `OnlyFreedBuffersInterfere` (what remains true of `OpenBuffersStayMapped`), `EveryMappingIsTracked`,
`TotalIsMapped`, `LostMappingsGoAway`.

### SharedMemoryBarrier

One process per JVM, one step per access to the file system or the mapped bytes. A deleted file keeps living
for those who opened it. Properties: `NobodyPassesEarly`, `EveryoneGetsThrough`.

### LArrayBuilder

Bytes are numbered by the order in which they were added; an array is the set of positions that hold the byte
of the same number (`good`). So a copy that loses, truncates or misplaces bytes shows in `good`. `EnsureSize`,
`MkArray` and `Store` follow the code's arithmetic, including the rounding of `numElems` and `elemsToAdd`. Released
arrays are marked `freed`, a second release `freed twice`.

Properties: `StaysInsideArray`, `HoldsWhatWasAdded`, `ResultsAreComplete`, `OnlyClearTakesBack` (nothing a builder does
frees an array that a client got, but `clear` and `close` right after a `result()` that did not copy), `NoStaleRelease` (nothing is
released twice, but by `clear` and `close` after `result()`, or by a client whose result was taken back). `clear` and `close` may be called at
any time, as in the code, also after `result()`; adding to a builder after `result()` without `clear` is left out, because its contents are undefined
then (`LArrayBuilder.scala:69-70`). That the code takes results back is a defect (see *Findings*); the properties say that it is the only one of its
kind, and that a builder which is cleared afterwards works like a new one (`HoldsWhatWasAdded`, `ResultsAreComplete`).

### FileTransfer

The loading thread's loop around `transferTo` and the chunks inside a call, each chunk being the action `Write`
of `LArrayBuilder`. `SaveTo` is one write that takes at most `MaxWrite` bytes. A client that has no file uses the builder
directly (`UseBuilder`), so the properties of the builder are checked on the same runs. Properties: `LoadedIsFile`,
`StaysInsideArray`. The size hint matters here: without it (mutant `HintNothing`) a transfer that ends inside an
element makes the builder write past its array.

### LArrayInputStream

`Read`, `ReadOne`, `MarkHere` and `BackToMark` over the array that `loadFrom` returned. `next` is the cursor in bytes;
the array's size is in elements, as in the code. `delivered` are the positions of the file whose right bytes the client
was given. Properties: `ReadsStayInside`, and `EndMeansEnd`: a read answers -1 only after every byte of the file has
been delivered - from the disk through transfers, chunks, growth of the builder, array and cursor.

### LArrayNative

A byte of the file is the number of writes it has seen; `mem`, `written` and `disk` are what memory, the file system's
cache and the disk have of it. The constructor's calls (`mmap`, `duplicateHandle`) are one action, `close` is two
(`Munmap`, `CloseFile`), `msync` is a sequence of steps of its thread: `StartFlush`, up to three `LockViolation`s,
`FlushView` or `NotAView`, `FlushBuffers`, `ReturnFailed`. A copy takes the array in one step (`GetCritical`, where
the JVM may make a copy) and moves the bytes and gives it back in another. `LazyWrite` and `WriteToDisk` are Windows'
own. `Low`, `High` and `Joined` are the halves of 64-bit numbers, with a DWORD of `Dword` values.

Properties: `ViewShowsRegion`, `FlushedIsDurable` (a flush that does not complain guarantees what its buffer had written
before), `CloseSparesFlush` (the duplicate of the handle does what it is for), `ArrayHoldsCopies`, `MsyncReturns`.

### LBitArray, LIterator and BitIteration

`LBitArray` keeps the set of positions in memory whose bit is 1, to the end of the last block; `new LBitArray(n)` starts
with any bits, because the code does not clear its memory. `SliceBits` runs the loop of `slice` block by block with its three
kinds of shift. `IsBitSequence` is the refinement of `BitSequence`; `BitsHaveRoom` says that no access leaves the blocks. Of a slice
`BitSequence` says only that it is some range of the sequence; which one it is, is the lemma `SliceIs` of `BitProofs`. The frees of the blocks in
`mkArray` and `clear` are left out, and clients end a builder with `result`: who owns the memory is the subject of `LArrayBuilder`.

`LIterator` names an element by its position. The state is that of the buffered source (`index`, `hdDefined`), the two
look-ahead queues, and the flags of `takeWhile`, `slice` and `span`. A client calls `hasNext` (`AskNext`) and `next`
(`TakeNext`) of either iterator in any order, and `next` only after an answer that there is more - possibly an old one.
`EachIsAStream` is the refinement of `ElementStreams`: answers are true, stay true whatever the other iterator does, and
`next` delivers what is due. `NothingIsLost` says where each element is. The claims of the documentation are
`EachGetsItsShare`. `BitIteration` puts the iterators on a bit array, with the bit as the predicate.

## Runs

| Run | Bounds | Shows |
|---|---|---|
| `allocator_exclusive` | 2 threads, 3 objects, 2 addresses, sizes 0, 8, 16 | no use after free, accounting, precise collector, refinement of `MemoryService`, lost blocks are freed: all hold for clients that own their objects |
| `allocator_any_client` | 2 threads, 3 objects, 2 addresses, sharing, repeated releases, `releaseAll` | no double free, no leak, no stranded entry for any client |
| `allocator_stale_reference` | 1 thread, 2 objects, 1 address | **violated**: a reference left in the queue by `releaseAll` frees a live object's block |
| `mmap_shared` | 2 buffers, pages of 2 bytes, file of up to 4 bytes, offsets 0-2 | shared memory without faults, durable flush |
| `mmap_concurrent_open` | same, constructors interleave | **violated**: file extension zeroes data of another opener |
| `mmap_lifecycle` | 3 buffers, 2 addresses, `close`, `free`, failing mmap | mappings stay tracked and go away, total exact, only freed buffers interfere |
| `barrier` | 3 JVMs, stale file or none, one opener at a time | nobody early, nobody stuck |
| `builder_split_element` | 2-byte elements, 1-byte buffers | **violated**: write past the end |
| `array_streams` | 1- and 2-byte elements, 34 bytes, 3 arrays, hints 1 and 4; files of 0, 6, 34 bytes, transfers of 7, chunks of up to 3; reads of 1 and 4 bytes | builders, loads and streams: nothing lost, inside the array, complete results, taken back or released twice by nothing but `clear` and `close` after `result()`, the end where it belongs |
| `native` | 2 threads, file of 5 bytes, pages of 2, granules of 4, DWORD of 2 values, one write per byte, arrays of 1 | durable flushes, spared by close, that return; exact copies |
| `bit_iteration` | blocks of 3 bits, arrays of up to 6, hints 1 and 5 | bit arrays are sequences of Booleans, iterators deliver their shares |
| `span_late_leading` | the same, with clients that return to the first iterator of `span` | **violated**: the prefix takes elements of the rest |

Why the bounds are enough. The allocator's interplay needs an address to change owner while a third object
or thread still has something pending about it: two addresses and three objects give every
such overlap of two owners plus a bystander. For mappings, two pages, regions that start in the middle of a
page and regions that span both pages give every case of the page arithmetic; a third page adds none. The
builder starts at 16 elements in the code, so 34 bytes make both kinds of builder grow from the
default capacity, and hints of 1 and 4 make it grow from small ones, including the capacity 1 that is
treated like 0. For transfers the scaled-down limits keep what matters: 7 is odd as 2^31 - 1 is, no multiple
of the chunk, and 34 bytes are more than the default capacity of 16 two-byte elements.

On Windows two threads give every pair of a flush, a copy, a close and another flush; offsets 1 and 4 begin inside a
page and at a granule whose high half is not 0, and a size of two bytes with the page's beginning is the DWORD that wraps to 0. The
proofs cover the rest. For bits, two blocks of three bits give every combination of the two offsets in a slice, left
and right shifts that lose bits, and a last block that is empty, partial or full; a third block repeats the second. Six
elements let the iterators alternate several times, with queues of several elements. `MaxBits`, `MaxBytes`, `MaxVersion`
and `ArrayLength` are the bounds in guards. The only other
bound is `TotalBound`, a state constraint of `allocator_any_client`: with `releaseAll` the total can drift
without limit (see the switches below), and nothing the run checks depends on it.

### Fairness

Four runs use it (`allocator_exclusive`, `mmap_lifecycle`, `barrier`, `native`). The collector thread is started by the allocator's constructor and loops for ever,
and a Java monitor that is released again and again is eventually obtained by a waiting thread in
practice; so the steps of the collector and of a client that is inside a method are weakly (for entering
the monitor, see `Fairness` in the module) fair. That the GC eventually finds an unreachable
object is what README.md:3 of the library promises to its users and is assumed as fairness of `Sweep`.
Clients are never required to call anything. In the barrier every JVM is a running process. On Windows a thread
that is inside a native method gets on with it (`NativeFairness`): it waits for nobody, and lock violations need no
fairness, because three of them end the loop.

## Findings

Each is a run with `expect: violation`; `PROJECT.json` quotes the documentation it contradicts.

1. `allocator_stale_reference`: `releaseAll` leaves references in the queue, and a release looks at the address only
   (`DefaultMemoryAllocator.java:108`): the collector can free a live object's block.
2. `mmap_concurrent_open`: concurrent openers of one file: the later extension writes a zero over data
   (`MMapBuffer.java:83-87`).
3. `builder_split_element`: `LArrayBuilder` rounds the cursor down when it computes the room: a buffer that ends inside
   an element lets the next write pass the end of the array.
4. `span_late_leading`: after the second iterator of `span` took an element, `hasNext` of the first goes on where the
   second is (`LIterator.scala:366`): it delivers elements behind the prefix, and the rest loses them.

The models have switches under which more of what they say fails. These have no run of their own:

- `Garbage = {0}` in `AllocatorAnyClient.cfg`, with `TotalIsExactAtRest` as the invariant: `register` puts the entry in the table and
  adds its size in two steps without the monitor (`DefaultMemoryAllocator.java:78-79`); a `releaseAll` in between makes the total wrong for good.
- `OpenBuffersStayMapped` as an invariant of `MMapLifecycle.cfg`: `MappedLByteArray.free` bypasses the allocator
  (`MappedLByteArray.scala:49`), and when the freed array is collected its reference unmaps the next owner of the address.
- `AtomicOpen = FALSE` in `Barrier.cfg`: finding 2 erases a JVM's mark, `EveryoneGetsThrough` fails, all JVMs poll for ever.
- `SleepSuffices = FALSE` in `Barrier.cfg`: a stale barrier file lets a JVM through early (`NobodyPassesEarly`).
- `ClearsUnaligned = TRUE` in `MMapShared.cfg`: `size()` of an `MMapBuffer` counts the bytes of the page before the
  region, so `clear` runs past the end of the region (`NoFault`, `FileHoldsWhatWasPut`).
- `WideStreams = TRUE` in `ArrayStreams.cfg`: the cursor of a stream counts bytes and is compared with a size in elements
  (`LArrayInputStream.scala:64`), so a stream over wider elements ends early (`EndMeansEnd`).
- `ReadsBlindly = TRUE` in `ArrayStreams.cfg`: `read()` looks at nothing and reads behind the array (`ReadsStayInside`).
- `Appends = TRUE` in `BitIteration.cfg`: `append(LSeq)` of the bit builder counts its bits twice (`LBitArray.scala:451`),
  so the result is longer than what was added (`IsBitSequence`).
- `AlignsToGranule = FALSE` and `Offset = {2}` in `Native.cfg`: `MMapBuffer.java:76` aligns to pages, Windows wants 64 KB; the view is
  null and is used all the same (`ViewShowsRegion`).
- `FitsDword = FALSE` and `Size = {2}` in `Native.cfg`: the size flushed is cut to a DWORD (`LArrayNative.c:126`), and a flush that
  reports nothing leaves bytes unwritten (`FlushedIsDurable`).
- `SharesArray = TRUE` in `Native.cfg`: a thread that stores into a Java array while another one copies loses the store
  when the JVM works on a copy (`ArrayHoldsCopies`); the library leaves the locking to its users.

More was found by reading, and needs no run of its own:

- `clear` or `close` after `result()` frees the array that was handed out when it was exactly full, and otherwise releases the builder's old
  array a second time (`LArrayBuilder.scala:151-155`, `:201`). `LArrayBuilder.scala:64-72` leaves the builder's contents undefined
  after `result()` but does not say that the result depends on them. These are the exceptions in `OnlyClearTakesBack` and `NoStaleRelease`; both
  fail in `array_streams` without them.
- `saveTo` ignores partial writes, so an array longer than one write takes is truncated in its file, which is why
  `LoadedIsFile` speaks of arrays up to `MaxWrite`.
- `LBuffer.loadFrom` throws for every file that is not empty, because `WritableChannelWrap.java:26` copies a direct chunk the
  wrong way and then steps past its limit (`:38`).
- Two failed mmaps share the table entry of address -1, so one of their sizes stays in the total: `TotalIsMapped` is
  therefore restricted to successful ones.
- On Windows the duplicate of the file's handle is never closed (`MMapBuffer.java:119`).
- `LBitArray`: `count` uses masks made for two bits per element (`:248-254`), `lastBlock` keeps the bits behind the last
  one instead of those before it (`:180`), which `equals` and `hashCode` compare, and the cached hash is never reset.
- `LByteBuffer`: `get(array)` does not move the cursor and `limit` returns the capacity.
- `LArrayInputStream.read()` returns a signed byte (`:58`).
- `tabulate` counts with an `Int` up to a `Long` size (`LArray.scala:628`); the block size of `LObjectArrayLarge` is
  `(1L << 31).toInt`, which is negative (`:1107`); a view passes element offsets where `copyTo` takes byte offsets
  (`LArrayView.scala:173`).

## Proofs

For any sets of threads, objects, addresses, arrays, buffers and JVMs, any sizes of elements, pages, granules, blocks and
DWORDs, and files, arrays and sources of any length:

| Theorem | States | Assumes |
|---|---|---|
| `AllocatorProofs!TypeCorrectness` | `[]TypeOK` | - |
| `AllocatorProofs!NoDoubleFree` | `[]FreesOnlyAllocated` | - (any client, `releaseAll` included) |
| `AllocatorProofs!NoLeak` | `[]EveryBlockIsTracked` | - |
| `AllocatorProofs!NoStrandedEntry` | `[]EveryEntryCanBeCollected` | - |
| `AllocatorProofs!NoUseAfterFree` | `[]UsableMemoryIsIntact` | `Exclusive`: no aliasing, nobody calls `releaseAll` |
| `AllocatorProofs!CollectorIsPrecise` | `CollectorSparesLiveObjects` | `Exclusive` |
| `AllocatorProofs!TotalAlwaysExact` | `[]TotalIsExact` | `Exclusive` |
| `AllocatorProofs!AllocatorIsAService` | `ServiceRefinement` | `Exclusive` |
| `MMapProofs!MMapTypes` | `[]TypeOK` | - |
| `MMapProofs!RegionsCanBeUsed` | `[]NoFault` | `~ClearsUnaligned` |
| `MMapProofs!BuffersShareTheFile` | `[]FileHoldsWhatWasPut` | `OneAtATime`, `~ClearsUnaligned` |
| `MMapProofs!FlushIsDurable` | `[]FlushedDataSurvives` | `OneAtATime`, `~ClearsUnaligned` |
| `LifecycleProofs!OnlyFreeInterferes` | `[]OnlyFreedBuffersInterfere` | - |
| `LifecycleProofs!MappingsAreTracked` | `[]EveryMappingIsTracked` | - |
| `LifecycleProofs!TotalIsOfMappings` | `[]TotalIsMapped` | - |
| `BarrierProofs!BarrierTypes` | `[]TypeOK` | - |
| `BarrierProofs!BarrierIsSafe` | `[]NobodyPassesEarly` | `SleepSuffices` |
| `NativeProofs!NativeTypes` | `[]NativeTypeOK` | - |
| `NativeProofs!FlushedStaysDurable` | `[]FlushedIsDurable` | `FitsDword` |
| `NativeProofs!CloseNeverFailsFlush` | `[]CloseSparesFlush` | - |
| `NativeProofs!ViewsShowRegions` | `[]ViewShowsRegion` | `AlignsToGranule` |
| `NativeProofs!CopiesReachTheArray` | `[]ArrayHoldsCopies` | `~SharesArray` |
| `BuilderProofs!StreamTypesHold` | `[]StreamTypeOK` | `WholeElements`, `WholeFiles` |
| `BuilderProofs!WritesStayInside` | `[]StaysInsideArray` | `WholeElements`, `WholeFiles` |
| `BuilderProofs!BuildersLoseNothing` | `[]HoldsWhatWasAdded` | `WholeElements`, `WholeFiles` |
| `BuilderProofs!ResultsHaveEverything` | `ResultsAreComplete` | `WholeElements`, `WholeFiles` |
| `BuilderProofs!ResultsAreNotTakenBack` | `OnlyClearTakesBack` | `WholeElements`, `WholeFiles` |
| `BuilderProofs!ReleasedOnce` | `NoStaleRelease` | `WholeElements`, `WholeFiles` |
| `BuilderProofs!LoadingIsExact` | `[]LoadedIsFile` | `WholeElements`, `WholeFiles` |
| `BuilderProofs!StreamsStayInside` | `[]ReadsStayInside` | `WholeElements`, `WholeFiles`, `BytesAskedFor` |
| `BuilderProofs!StreamsEndAtTheEnd` | `[]EndMeansEnd` | `WholeElements`, `WholeFiles`, `BytesAskedFor` |
| `BitProofs!BitsStayInside` | `[]BitsHaveRoom` | `~Appends` |
| `BitProofs!BitsAreASequence` | `IsBitSequence` | `~Appends` |
| `BitProofs!IteratorsAreStreams` | `EachIsAStream` | `~LateLeading` |
| `BitProofs!EachHasItsShare` | `[]EachGetsItsShare` | `~LateLeading` |
| `BitProofs!NoElementIsLost` | `[]NothingIsLost` | `~LateLeading` |
| `BitProofs!BitsAndIteratorTypes` | `[]BitIterTypeOK` | `~Appends`, `~LateLeading` |

Most assumptions are switches, and *Findings* says what fails without them. They are combined as follows.

- `Exclusive` is `~Aliasing` and no `AllReleasers`: finding 1 and the first switch.
- `WholeElements` is `~SplitsElements`: clients give builders whole elements (finding 3).
- `WholeFiles`: the element sizes divide the lengths of the files and `MaxWrite`, the size at which `saveTo` may cut a file. A file that ends
  inside an element, moved in chunks that do too, runs into the defect of finding 3: the last write goes past the array.
- `BytesAskedFor` is `~WideStreams` and `~ReadsBlindly`: streams over wider elements end early, `read()` looks at nothing.

The only other assumptions are those the modules name for their constants (distinct names, natural sizes).
The argument for the allocator has four layers of inductive invariants:

- `TypeInv` adds to `TypeOK` that a process inside a method has an operand of the right kind.
- `SafetyInv` is what makes a double free impossible for every client. `FreesOnlyAllocated` is not inductive by
  itself: that the block a thread is about to free is still allocated depends on the monitor
  (`MutualExclusion`), on how far the owner got (`Progress`: between `Check` and `Remove` the entry is in the table,
  after it the block is no longer there but still allocated), on table entries denoting allocated blocks
  (`Entries`), on at most one process being about to register or free a block (`OnePerBlock`, `Registrants`), and on
  what the collector holds when it is idle. These exclude that a block is freed by one thread while another still
  plans to.
- `ExclusiveInv` adds ownership: an object that was not released is worked on by at most its holder (`Ownership`,
  `OwnWork`), a swept object has no holder (`Swept`), and every usable object's entry in the table is its own
  (`OwnEntry`). The finding about stale references shows that `OwnEntry` fails as soon as `releaseAll` is called.
- `SumInv` adds the total. Only `Charge` and `Discharge` change it, and each of them moves one block in or out of the set that
  is counted; that the header they read is still the block's is what `ExclusiveInv` is needed for.

That the allocator implements `MemoryService` follows from `ExclusiveInv`: the owner of a block is a choice in the refinement mapping, and
`OwnerFacts` shows that there is one to choose from, the object in the table or that of the thread that is about to register or
free the block. Each action is then `Allocate`, `GiveUp`, `Free` or a stutter (`SeesStep` gathers what a step has to show).

The other modules:

- `MMapProofs`: `RegionInv` (a region lies in the file once it is open, because the file shrinks only in a crash, which closes all) gives `NoFault` with the geometry of
  pages (`PageOfRegion`). `MemoryInv` adds that one constructor at a time extends the file, which is still too short for it (`OneExtends`), so that the
  zero it writes hits no byte that was put, and that flushed promises are never newer than what was put.
- `LifeInv`: the table, the system and the buffers agree about addresses (`AddressesAgree`); at an address at which no
  buffer was ever freed, the table's entry is the buffer mapped there and the collector's references are current (`Current`). That is
  what remains of "open buffers stay mapped", and it is not inductive without saying which stage freed and queued
  buffers are in (`Stages`). Its `SumInv` is about histories without `free` and failed mmaps (`Orderly`), as `TotalIsMapped` is.
- `BarrierInv`: JVM 1 cleans up before anyone else opens a file (`CleansFirst`, from `SleepSuffices`), so that the marks in the files
  that are open or reachable by name are of JVMs that entered in this run (`MarksAreOfThisRun`), and a file is long enough once
  a JVM has compared its length (`FilesAreOpen`). It needs no assumption about openers: two of them may erase a mark,
  which makes others wait, but nobody pass.
- `NativeInv`: bytes only move down (`Downward`: disk <= cache <= memory); the view begins where the region's page begins,
  because the halves of the offset come together again (lemma `Halves`), and what is flushed covers the region because a DWORD
  that wraps to 0 means all of it (lemmas `Sizes`, `MapCovers`); what a flush promises was written, lies in the region as long as the
  view is mapped, is in the cache when the flush gets to the file's buffers, and its handle is one for writing
  (`Promises`); a thread that copies holds the view (`Copies`). `OneHolder` adds that a copy which the JVM made is
  still like the array; `Bounded` adds the types.
- `BuilderProofs`: `BuilderInv` says that a builder in use has an array of its own, live, of exactly its capacity, with all bytes added
  (`Holds`), and that after `result()` a client has that array only if it was exactly full (`Handed`). Each step leaves what clients have as it is
  (`Careful`), but for `clear` in the state `Handed`: hence `OnlyClearTakesBack` and `NoStaleRelease`. Growing keeps that whatever rounding does, because every size that is computed is a whole number of elements and no smaller than
  what is there (`CeilFacts`; the loop of `ensureSize` ends where it should by `DoublingReaches`). `LoadInv` adds that during a transfer the cursor is the
  position in the file, and that the capacity, from the size hint, is exactly the file: therefore no chunk that ends inside an element
  ever makes the builder grow, which is where finding 3 bites. `ReadInv` adds that what is before the cursor and the mark of a stream was delivered.
- `BitProofs`, arrays: `BitInv` is `BitTypeOK`, `BitsHaveRoom` and that nothing is there before the beginning. Each action is shown to do to `Contents` what the
  sequence's action does. The work is in `slice`: its loop visits a chain of positions (`Turns`), each turn copies the bits from its
  position to the next, whichever of the two offsets is larger (`TurnCopies`), and so the loop as a whole copies every bit (`SliceIs`).
- `BitProofs`, iterators: `IterInv` says that what an iterator delivered, followed by what waits in its queue, lists exactly those positions it is for that were
  taken from the source (`Held`), and that "yes" was and stays the truth; `OfKind` is what each method's own flags mean, such as that
  the trailing iterator of `span` stands behind the prefix once it was used. A lemma per method (`LookPartition`, `LookTrailing`, ...) shows
  that `hasNext` keeps this and answers whether there is more to deliver (`LookGood`); `next` then takes from the queue (`TakeQueued`)
  or the source (`TakeNew`). The shares, which are computed by recursion, enter only as increasing lists of sets of positions, of which there is one for each set
  (`ListsOnce`), so they need not be computed.

Each proof has `Init => Inv`, one step per action for `Inv /\ [Next]_vars => Inv'`, and a temporal last step.

Where a proof needs induction over data (the doubling loop of `ensureSize`, the turns of `slice`, sums over finite sets, sequences) it goes through
least elements: if a claim about all numbers or finite sets failed, the set of those where it fails would have a least one
(`LeastNatural`, `LeastSubset`), which is refuted. The induction rules of the library themselves take an operator as a parameter and cannot be used.

Model-checked only: the liveness properties `AbandonedBlocksAreFreed`, `LostMappingsGoAway`, `EveryoneGetsThrough` and `MsyncReturns`, which
depend on fairness, and that the switches matter, which the runs that expect a violation and *Findings* show on instances.

## Plan

Done so far: steps 1 to 10.

1. `MemoryService`, `DefaultMemoryAllocator` and its proofs - the heart of the library.
2. `LArrayBuilder` - the only component that releases memory on its own.
3. `MMapBuffer`, `MMapLifecycle`, `SharedMemoryBarrier`.
4. `FileTransfer` over `LArrayBuilder`, and `LArrayInputStream` over both.
5. `LBitArray` and its builder, implementing `BitSequence`.
6. `LIterator`, implementing `ElementStreams`, and `BitIteration`, which composes it with `LBitArray`.
7. `LArrayNative`: the native methods on Windows.
8. Proofs about `MMapLifecycle`, `SharedMemoryBarrier` and `LArrayNative`.
9. `DefaultMemoryAllocator` implements `MemoryService`; `MMapBuffer` for every page size; builders, loads and streams.
10. `LBitArray` implements `BitSequence`, `LIterator` implements `ElementStreams`.
11. Next: weaken the assumptions of these theorems where the code allows it: `BitsHaveRoom` has a part that holds with
    `append(LSeq)`, and `TotalIsMapped` one that holds with failed mmaps.

## Not modelled

- Element access, views, `LArray2D`, `UInt32Array`, object arrays, `tabulate` and `sort`: arithmetic and loops of one thread without
  a state that outlives the call. `LByteBuffer`: see above.
- `count`, `equals`, `hashCode` and `saveTo` of the bit array: they change nothing, and what is wrong with them is said above.
- The iterators that keep nothing (`map`, `zip`, ...) and the methods that drain one.
- `LArrayLoader`: every extraction has a file of a random name (`LArrayLoader.java:171`), checked before it is loaded, so JVMs share
  nothing. `OSInfo`, logging, examples, facades: no state.
- Allocation failure of malloc (an `OutOfMemoryError` that leaves no state behind), and the instruction-level race between an
  address being read and the object becoming unreachable.
- Of the C files only `LArrayNative.c` is a program of this repository. `LArrayNative.h` is generated from the Java class and only
  declares its methods, and `src/include/*/jni.h` and `jni_md.h` are copies of the JDK's headers: there is nothing in them to model.

The table of components in `PROJECT.json` gives the reason for each part that is left out.

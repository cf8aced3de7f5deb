--------------------------- MODULE LArrayBuilder ---------------------------
(***************************************************************************)
(* LArrayBuilder: collects elements of ElementSize bytes in an off-heap    *)
(* LByteArray that doubles when it is full, and hands the memory over to   *)
(* the array that result() returns.  All typed builders (Byte ... Double)  *)
(* share this code, and LArrayOutputStream and LArray.loadFrom fill one    *)
(* through append and write.                                               *)
(*                                                                         *)
(* Bytes are not modelled by value.  The bytes added since the last clear  *)
(* are numbered 0, 1, ...; good is the set of the positions of an array    *)
(* that hold the byte with the same number, which is what they should.     *)
(***************************************************************************)
EXTENDS Integers, FiniteSets

CONSTANTS ElementSize,      \* element sizes in bytes of the typed builders
          Chunk,            \* lengths of the byte arrays and buffers added
          Count,            \* element counts: sequences added, arguments of sizeHint
          MaxBytes,         \* bound on the bytes added to one builder
          Array,            \* identities of LByteArrays
          None,
          SplitsElements    \* buffers may end in the middle of an element

ASSUME SizeAssumption == /\ ElementSize \subseteq Nat \ {0}
                         /\ Chunk \subseteq Nat \ {0}
                         /\ Count \subseteq Nat
                         /\ MaxBytes \in Nat
ASSUME ArrayAssumption == None \notin Array
ASSUME ClientAssumption == SplitsElements \in BOOLEAN

VARIABLES elementSize, \* of this typed builder
          mem,       \* the arrays: state, size in bytes, good positions
          elems,     \* the builder's array
          capacity,  \* its number of elements
          cursor,    \* where the next byte goes
          added,     \* number of bytes the clients added and saw accepted
          finished,  \* result() was called; the contents are now undefined
          results    \* arrays that clients got from result() and still hold

vars == <<elementSize, mem, elems, capacity, cursor, added, finished, results>>

DEFAULT_CAPACITY == 16

NumElems == cursor \div elementSize
CeilDiv(n, d) == (n + d - 1) \div d

Unused == [state |-> "unused", size |-> 0, good |-> {}]
FreshArrays == {a \in Array : mem[a].state = "unused"}
Fresh == CHOOSE a \in FreshArrays : TRUE

\* free: the contents are gone; releasing memory twice is noted as such.
Released(m, a) ==
    [m EXCEPT ![a] = [state |-> IF @.state = "live" THEN "freed" ELSE "freed twice",
                      size |-> 0, good |-> {}]]

\* The positions of array a of m that can hold bytes from .. from + len - 1
Positions(m, a, from, len) == (from .. from + len - 1) \cap (0 .. m[a].size - 1)

\* Faulty variant: takes the index of the last element for a byte count.
MkArrayInElements(n) ==
    LET kept == IF NumElems > 0 THEN mem[elems].good \cap (0 .. NumElems - 2) ELSE {}
        new == [mem EXCEPT ![Fresh] = [state |-> "live", size |-> n * elementSize,
                                       good |-> kept]]
    IN  IF NumElems > 0 THEN Released(new, elems) ELSE new

\* mkArray: the elements move to a new array of n elements; the old array
\* goes away, but only when there was a whole element in it.
MkArray(n) ==
    LET bytes == n * elementSize
        kept == IF NumElems > 0 THEN mem[elems].good \cap (0 .. bytes - 1) ELSE {}
        new == [mem EXCEPT ![Fresh] = [state |-> "live", size |-> bytes, good |-> kept]]
    IN  IF NumElems > 0 THEN Released(new, elems) ELSE new

\* The builder after resize(n), and as it is.
Resized(n) == [mem |-> MkArray(n), elems |-> Fresh, capacity |-> n]
Current == [mem |-> mem, elems |-> elems, capacity |-> capacity]

\* The loop of ensureSize: the first of base, 2 * base, ... that reaches n
Doubled(base, n) ==
    LET grow[b \in Nat] == IF b < n THEN grow[2 * b] ELSE b
    IN  grow[base]

EnsureSize(n) ==
    IF capacity < n \/ capacity = 0
    THEN Resized(Doubled(IF capacity <= 1 THEN DEFAULT_CAPACITY ELSE capacity * 2, n))
    ELSE Current

\* Bytes cursor .. cursor + len - 1 of the stream go to builder state b,
\* and the cursor moves by step.
Store(b, len, step) ==
    /\ mem' = [b.mem EXCEPT ![b.elems].good = @ \cup Positions(b.mem, b.elems, cursor, len)]
    /\ elems' = b.elems
    /\ capacity' = b.capacity
    /\ cursor' = cursor + step

-----------------------------------------------------------------------------
Init == /\ elementSize \in ElementSize
        /\ mem = [a \in Array |-> Unused]
        /\ elems = None
        /\ capacity = 0
        /\ cursor = 0
        /\ added = 0
        /\ finished = FALSE
        /\ results = {}

\* Clients add to a builder before result(), or after clear: what result()
\* leaves in it is undefined.
Adding(len) == /\ ~finished
               /\ added + len <= MaxBytes
               /\ FreshArrays # {}

\* +=
AddElement ==
    /\ Adding(elementSize)
    /\ Store(EnsureSize(NumElems + 1), elementSize, elementSize)
    /\ added' = added + elementSize
    /\ UNCHANGED <<elementSize, finished, results>>

\* append(LSeq): copies n whole elements.
AppendSeq(n) ==
    /\ Adding(n * elementSize)
    /\ Store(EnsureSize(NumElems + n), n * elementSize, n * elementSize)
    /\ added' = added + n * elementSize
    /\ UNCHANGED <<elementSize, finished, results>>

\* append(Array[Byte], offset, len): readFromArray copies what fits in the
\* array, the cursor moves by len all the same.
AppendBytes(len) ==
    /\ Adding(len)
    /\ Store(EnsureSize(NumElems + CeilDiv(len, elementSize)), len, len)
    /\ added' = added + len
    /\ UNCHANGED <<elementSize, finished, results>>

\* write(ByteBuffer), the method of WritableByteChannel: a direct buffer (or
\* one without an array) is copied whole, from a heap buffer what fits.
Write(len, direct) ==
    /\ Adding(len)
    /\ LET b == EnsureSize(NumElems + CeilDiv(len, elementSize))
           fits == b.mem[b.elems].size - cursor
           writeLen == IF direct \/ len <= fits THEN len ELSE fits
       IN  /\ Store(b, writeLen, writeLen)
           /\ added' = added + writeLen
    /\ UNCHANGED <<elementSize, finished, results>>

SizeHint(n) ==
    /\ ~finished /\ FreshArrays # {}
    /\ capacity < n
    /\ mem' = MkArray(n)
    /\ elems' = Fresh
    /\ capacity' = n
    /\ UNCHANGED <<elementSize, cursor, added, finished, results>>

\* Faulty variant: the cursor is not reset.
ClearCapacityOnly ==
    /\ mem' = IF NumElems > 0 THEN Released(mem, elems) ELSE mem
    /\ capacity' = 0
    /\ added' = 0
    /\ finished' = FALSE
    /\ UNCHANGED <<elementSize, elems, cursor, results>>

\* Faulty variant: the array is kept, to be filled again.
ClearKeepsArray ==
    /\ cursor' = 0
    /\ added' = 0
    /\ finished' = FALSE
    /\ UNCHANGED <<elementSize, mem, elems, capacity, results>>

\* clear and close, before result() or after it: elems keeps pointing to the
\* array, which a client may have or mkArray may have released.
Clear ==
    /\ mem' = IF NumElems > 0 THEN Released(mem, elems) ELSE mem
    /\ capacity' = 0
    /\ cursor' = 0
    /\ added' = 0
    /\ finished' = FALSE
    /\ UNCHANGED <<elementSize, elems, results>>

\* Faulty variant: the array is not cut down to the elements in it.
ResultOfWholeCapacity ==
    /\ ~finished /\ FreshArrays # {}
    /\ results' = results \cup {Fresh}
    /\ mem' = MkArray(capacity)
    /\ finished' = TRUE
    /\ UNCHANGED <<elementSize, elems, capacity, cursor, added>>

\* result(): the array itself when it is exactly full, else a copy.
Result ==
    /\ ~finished /\ FreshArrays # {}
    /\ IF capacity # 0 /\ capacity = NumElems
       THEN /\ results' = results \cup {elems}
            /\ UNCHANGED mem
       ELSE /\ results' = results \cup {Fresh}
            /\ mem' = MkArray(NumElems)
    /\ finished' = TRUE
    /\ UNCHANGED <<elementSize, elems, capacity, cursor, added>>

\* The client starts over with a new builder.
NewBuilder ==
    /\ elems' = None
    /\ capacity' = 0
    /\ cursor' = 0
    /\ added' = 0
    /\ finished' = FALSE
    /\ UNCHANGED <<elementSize, mem, results>>

\* The client frees a result.
FreeResult(a) ==
    /\ a \in results
    /\ mem' = Released(mem, a)
    /\ results' = results \ {a}
    /\ UNCHANGED <<elementSize, elems, capacity, cursor, added, finished>>

\* The GC sweeps an array nobody refers to (its memory is the allocator's
\* business, see DefaultMemoryAllocator).
Sweep(a) ==
    /\ mem[a].state # "unused"
    /\ a # elems /\ a \notin results
    /\ mem' = [mem EXCEPT ![a] = Unused]
    /\ UNCHANGED <<elementSize, elems, capacity, cursor, added, finished, results>>

Next == \/ AddElement
        \/ \E n \in Count : AppendSeq(n) \/ SizeHint(n)
        \/ \E len \in Chunk :
              /\ SplitsElements \/ len % elementSize = 0
              /\ AppendBytes(len) \/ \E direct \in BOOLEAN : Write(len, direct)
        \/ Clear \/ Result \/ NewBuilder
        \/ \E a \in Array : FreeResult(a) \/ Sweep(a)

Spec == Init /\ [][Next]_vars

-----------------------------------------------------------------------------
TypeOK == /\ elementSize \in ElementSize
          /\ mem \in [Array -> [state : {"unused", "live", "freed", "freed twice"},
                                size : Nat, good : SUBSET Nat]]
          /\ elems \in Array \cup {None}
          /\ capacity \in Nat /\ cursor \in Nat /\ added \in Nat
          /\ finished \in BOOLEAN
          /\ results \subseteq Array

\* Every byte written went inside the array: the stream ends at the cursor,
\* so a cursor past the end means that bytes were written over memory that
\* is not the builder's, or were dropped.
StaysInsideArray ==
    (~finished /\ cursor > 0) => /\ mem[elems].state = "live"
                                 /\ mem[elems].size = capacity * elementSize
                                 /\ cursor <= mem[elems].size

\* Growing, hints and mixed ways of adding lose and reorder nothing: the
\* array holds all bytes added since the last clear.
HoldsWhatWasAdded ==
    ~finished => /\ cursor = added
                 /\ cursor > 0 => (0 .. cursor - 1) \subseteq mem[elems].good

\* result() returns whole elements, all of them, in the right place.
ResultsAreComplete ==
    [][\A a \in results' \ results :
          /\ mem'[a].size = added - (added % elementSize)
          /\ mem'[a].good = 0 .. mem'[a].size - 1]_vars

\* clear or close after result() frees the array that was handed out itself,
\* not copied, because it was exactly full.
TakesBack(a) == /\ finished /\ ~finished'
                /\ a = elems /\ capacity = NumElems
                /\ mem[a].state = "live" /\ mem'[a].state = "freed"

\* An array that result() returns is there, and afterwards nothing that is
\* done with builders - growing, clearing, filling one again, further
\* results - frees it under the client's feet.  The one exception is what
\* clear and close do to an array that was handed out without a copy.
OnlyClearTakesBack ==
    [][\A a \in results' :
          \/ a \in results /\ (mem'[a] = mem[a] \/ TakesBack(a))
          \/ a \notin results /\ mem'[a].state = "live"]_vars

\* Memory is released once, its address may be somebody else's by then, and
\* a builder that is cleared and filled over and over does not release the
\* array it had before.  The code releases an array again in two cases only:
\* clear or close after result() releases elems although result() has copied
\* it or the client who got it has freed it; and a client frees a result that
\* clear took back.
NoStaleRelease ==
    [][\A a \in Array :
          (mem[a].state # "freed twice" /\ mem'[a].state = "freed twice") =>
              \/ a = elems /\ finished /\ ~finished'
              \/ a \in results \ results']_vars
=============================================================================

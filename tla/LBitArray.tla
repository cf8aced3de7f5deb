----------------------------- MODULE LBitArray -----------------------------
(***************************************************************************)
(* LBitArray: an array of Booleans packed into blocks of W bits, and       *)
(* LBitArrayBuilder.  The memory of an array is the set of the bits that   *)
(* are 1, counted from the first bit of the first block; it goes on to the *)
(* end of the last block, past the last bit of the array.                  *)
(***************************************************************************)
EXTENDS Integers, Sequences

CONSTANTS W,       \* bits in a block
          MaxBits, \* bound on the length of arrays
          Hint,    \* arguments of sizeHint
          Appends  \* clients use append(LSeq), concat, :+ and +:

ASSUME BitAssumption == /\ W \in Nat \ {0, 1} /\ MaxBits \in Nat
                        /\ Hint \subseteq Nat /\ Appends \in BOOLEAN

VARIABLES phase, \* what the client has: none, a builder (building) or an array
          bits,  \* the bits that are 1
          blocks, \* the number of blocks
          numBits, \* the length
          capacity \* of the builder, in bits

bvars == <<phase, bits, blocks, numBits, capacity>>

\* Faulty variant: rounds down.
MinArraySizeDown(n) == n \div W
MinArraySize(n) == (n + W - 1) \div W
BlockIndex(pos) == pos \div W
BlockOffset(pos) == pos % W

Memory(n) == 0 .. n * W - 1
Block(i) == {o \in 0 .. W - 1 : i * W + o \in bits}
Larger(a, b) == IF a < b THEN b ELSE a

-----------------------------------------------------------------------------
BitInit == /\ phase = "none"
           /\ bits = {}
           /\ blocks = 0
           /\ numBits = 0
           /\ capacity = 0

\* new LBitArray(n): the memory is not cleared.
NewBitArray(n) ==
    /\ phase = "none"
    /\ phase' = "array"
    /\ numBits' = n
    /\ blocks' = MinArraySize(n)
    /\ bits' \in SUBSET Memory(blocks')
    /\ UNCHANGED capacity

NewBitBuilder == /\ phase = "none"
                 /\ phase' = "building"
                 /\ UNCHANGED <<bits, blocks, numBits, capacity>>

\* resize(n): the bits move to a new array of n bits.
Resized(n) ==
    [bits |-> IF capacity > 0 THEN bits \cap Memory(MinArraySize(n)) ELSE {},
     blocks |-> MinArraySize(n), capacity |-> n]

\* The loop of ensureSize
Grown(base, n) ==
    LET grow[c \in Nat] == IF c < n THEN grow[2 * c] ELSE c
    IN  grow[base]

EnsureBits(n) ==
    IF capacity < n \/ capacity = 0
    THEN Resized(Grown(IF capacity <= 1 THEN W ELSE 2 * capacity, n))
    ELSE [bits |-> bits, blocks |-> blocks, capacity |-> capacity]

\* Faulty variant: makes room for the bits there are, not for the next.
AddBitUnchecked(v) ==
    LET b == EnsureBits(numBits)
    IN  /\ phase = "building" /\ numBits < MaxBits
        /\ bits' = IF v THEN b.bits \cup {numBits} ELSE b.bits \ {numBits}
        /\ blocks' = b.blocks
        /\ capacity' = b.capacity
        /\ numBits' = numBits + 1
        /\ UNCHANGED phase

\* +=
AddBit(v) ==
    LET b == EnsureBits(numBits + 1)
    IN  /\ phase = "building" /\ numBits < MaxBits
        /\ bits' = IF v THEN b.bits \cup {numBits} ELSE b.bits \ {numBits}
        /\ blocks' = b.blocks
        /\ capacity' = b.capacity
        /\ numBits' = numBits + 1
        /\ UNCHANGED phase

\* append(LSeq) of n bits: += counts them, and then append does once more.
AppendBits(new) ==
    LET n == Len(new)
        b == EnsureBits(numBits + n)
    IN  /\ phase = "building" /\ numBits + 2 * n <= MaxBits
        /\ bits' = {i \in b.bits : i \notin numBits .. numBits + n - 1}
                     \cup {numBits + i - 1 : i \in {j \in DOMAIN new : new[j]}}
        /\ blocks' = b.blocks
        /\ capacity' = b.capacity
        /\ numBits' = numBits + 2 * n
        /\ UNCHANGED phase

HintBits(n) ==
    /\ phase = "building"
    /\ capacity < n
    /\ LET b == Resized(n)
       IN  bits' = b.bits /\ blocks' = b.blocks /\ capacity' = b.capacity
    /\ UNCHANGED <<phase, numBits>>

\* clear(): what the array held becomes unreachable with capacity 0.
ClearBuilder ==
    /\ phase = "building"
    /\ capacity' = 0
    /\ numBits' = 0
    /\ UNCHANGED <<phase, bits, blocks>>

\* result(n), and result() for n = numBits: a copy, cut to the blocks in use,
\* unless capacity (in bits) happens to equal the number of these blocks.
BitResult(n) ==
    /\ phase = "building" /\ n <= numBits
    /\ phase' = "array"
    /\ numBits' = n
    /\ LET s == MinArraySize(n)
       IN  IF capacity # 0 /\ capacity = s
           THEN UNCHANGED <<bits, blocks>>
           ELSE bits' = Resized(n).bits /\ blocks' = s
    /\ UNCHANGED capacity

\* on, off and update; clients keep to indexes inside the array.
UpdateBit(i, v) ==
    /\ phase = "array" /\ i < numBits
    /\ bits' = IF v THEN bits \cup {i} ELSE bits \ {i}
    /\ UNCHANGED <<phase, blocks, numBits, capacity>>

\* fill and clear: all blocks, to the end
FillBits(v) ==
    /\ phase = "array"
    /\ bits' = IF v THEN Memory(blocks) ELSE {}
    /\ UNCHANGED <<phase, blocks, numBits, capacity>>

\* One turn of the loop of slice: the bits that block sPos has from sOffset
\* on, shifted to dOffset; what leaves the block at the top is lost.
Shifted(sPos, sOffset, dOffset) ==
    {o - sOffset + dOffset : o \in {q \in Block(sPos) : q >= sOffset}} \cap 0 .. W - 1

\* Faulty variant: after a right shift too the copy goes on at the next block.
SliceSkipping(start, end) ==
    LET from[i \in Nat] ==
          IF i >= end - start THEN {}
          ELSE LET d == BlockOffset(i)
               IN  {BlockIndex(i) * W + o :
                       o \in Shifted(BlockIndex(start + i), BlockOffset(start + i), d)}
                     \cup from[i + W - d]
    IN  /\ phase = "array" /\ start <= end /\ end <= numBits
        /\ bits' = from[0]
        /\ blocks' = MinArraySize(end - start)
        /\ numBits' = end - start
        /\ UNCHANGED <<phase, capacity>>

\* slice(start, end), a new array; the client goes on with it.
SliceBits(start, end) ==
    LET from[i \in Nat] ==
          IF i >= end - start THEN {}
          ELSE LET s == BlockOffset(start + i)
                   d == BlockOffset(i)
               IN  {BlockIndex(i) * W + o : o \in Shifted(BlockIndex(start + i), s, d)}
                     \cup from[i + W - Larger(s, d)]
    IN  /\ phase = "array" /\ start <= end /\ end <= numBits
        /\ bits' = from[0]
        /\ blocks' = MinArraySize(end - start)
        /\ numBits' = end - start
        /\ UNCHANGED <<phase, capacity>>

BitNext == \/ \E n \in 0 .. MaxBits : NewBitArray(n)
           \/ NewBitBuilder
           \/ \E v \in BOOLEAN : AddBit(v) \/ FillBits(v)
           \/ Appends /\ \E v \in BOOLEAN : AppendBits(<<v>>)
           \/ \E n \in Hint : HintBits(n)
           \/ ClearBuilder
           \/ \E n \in 0 .. MaxBits : BitResult(n)
           \/ \E i \in 0 .. MaxBits - 1, v \in BOOLEAN : UpdateBit(i, v)
           \/ \E s, e \in 0 .. MaxBits : SliceBits(s, e)

-----------------------------------------------------------------------------
BitTypeOK == /\ phase \in {"none", "building", "array"}
             /\ numBits \in 0 .. MaxBits /\ capacity \in Nat /\ blocks \in Nat
             /\ bits \subseteq Memory(blocks)

\* apply(i) for all i, as the client sees the array (or will see it)
Contents == [i \in 1 .. numBits |-> i - 1 \in bits]

Promise == INSTANCE BitSequence WITH seq <- Contents

\* Whatever the blocks are, and whatever is in the bits behind the last one,
\* builder and array behave like a sequence of Booleans: growing, hints and
\* result() move every bit to its place, update changes one bit, slice gives
\* the bits from start to end although it copies and shifts whole blocks.
IsBitSequence == Promise!Spec

\* Every bit has its place in the blocks - in the array, and in the builder up
\* to its capacity: no access leaves the memory.
BitsHaveRoom ==
    /\ phase = "array" => numBits <= blocks * W
    /\ phase = "building" => /\ numBits <= capacity
                             /\ capacity > 0 => capacity <= blocks * W

=============================================================================

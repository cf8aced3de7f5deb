------------------------------ MODULE BitProofs ------------------------------
(***************************************************************************)
(* What TLAPS proves of LBitArray, for blocks of any number of bits and    *)
(* arrays of any length: packed into blocks, moved, cut and shifted, the   *)
(* bits are a sequence of Booleans; and of LIterator, for sources of any   *)
(* length and every order of calls: two iterators that share a source      *)
(* deliver what each of them is for.                                       *)
(***************************************************************************)
EXTENDS BitIteration, DataLemmas, SequenceTheorems

-----------------------------------------------------------------------------
(* Blocks                                                                  *)

\* The blocks for n bits have room for n bits, and none is empty.
LEMMA EnoughBlocks ==
  ASSUME NEW n \in Nat
  PROVE  /\ MinArraySize(n) \in Nat /\ MinArraySize(n) * W \in Nat
         /\ n <= MinArraySize(n) * W
         /\ \A k \in Nat : k * W < n => (k + 1) * W <= MinArraySize(n) * W
<1> DEFINE q == (n + W - 1) \div W
           r == (n + W - 1) % W
<1>1. W \in Nat \ {0} /\ n + W - 1 \in Nat
  BY BitAssumption
<1>2. q \in Nat /\ r \in 0 .. W - 1 /\ n + W - 1 = q * W + r
  BY <1>1, Divide
<1> HIDE DEF q, r
<1>3. q * W \in Nat /\ n <= q * W
  BY <1>1, <1>2, Multiply
<1>4. ASSUME NEW k \in Nat, k * W < n PROVE (k + 1) * W <= q * W
  <2>1. k * W \in Nat /\ (q + 1) * W = q * W + 1 * W /\ 1 * W = W
    BY <1>1, <1>2, Multiply
  <2>2. ~(q <= k)
    <3> SUFFICES ASSUME q <= k PROVE FALSE
      OBVIOUS
    <3>1. q * W <= k * W
      BY <1>1, <1>2, Multiply
    <3> QED
      BY <1>1, <1>2, <1>3, <1>4, <2>1, <3>1
  <2>3. k + 1 <= q
    BY <1>2, <2>2
  <2> QED
    BY <1>1, <1>2, <2>3, Multiply
<1>5. MinArraySize(n) = q
  BY DEF MinArraySize, q
<1> QED
  BY <1>2, <1>3, <1>4, <1>5

\* A position is its place in its block.
LEMMA Position ==
  ASSUME NEW pos \in Nat
  PROVE  /\ BlockIndex(pos) \in Nat /\ BlockIndex(pos) * W \in Nat
         /\ BlockOffset(pos) \in 0 .. W - 1
         /\ pos = BlockIndex(pos) * W + BlockOffset(pos)
<1>1. W \in Nat \ {0}
  BY BitAssumption
<1>2. pos \div W \in Nat /\ pos % W \in 0 .. W - 1 /\ pos = (pos \div W) * W + (pos % W)
  BY <1>1, Divide
<1>3. (pos \div W) * W \in Nat
  BY <1>1, <1>2, Multiply
<1> QED
  BY <1>2, <1>3 DEF BlockIndex, BlockOffset

-----------------------------------------------------------------------------
(* The loop of slice                                                       *)

\* The turn that writes from position i of the slice on, and where the next
\* turn begins
Copied(start, i) ==
    {BlockIndex(i) * W + o :
        o \in Shifted(BlockIndex(start + i), BlockOffset(start + i), BlockOffset(i))}
After(start, i) == i + W - Larger(BlockOffset(start + i), BlockOffset(i))

\* A turn copies the bits up to where the next one begins, and no others.
LEMMA TurnCopies ==
  ASSUME NEW start \in Nat, NEW i \in Nat
  PROVE  /\ After(start, i) \in Nat /\ i < After(start, i)
         /\ After(start, i) <= (BlockIndex(i) + 1) * W
         /\ Copied(start, i) = {k \in i .. After(start, i) - 1 : start + k \in bits}
<1> DEFINE s == BlockOffset(start + i)
           d == BlockOffset(i)
           sPos == BlockIndex(start + i)
           base == BlockIndex(i) * W
           t == After(start, i)
<1>1. /\ W \in Nat \ {0}
      /\ d \in 0 .. W - 1 /\ base \in Nat /\ i = base + d
      /\ (BlockIndex(i) + 1) * W = base + W
  <2>1. BlockIndex(i) \in Nat /\ W \in Nat \ {0}
    BY Position, BitAssumption
  <2>2. (BlockIndex(i) + 1) * W = base + 1 * W /\ 1 * W = W
    BY <2>1, Multiply
  <2> QED
    BY <2>1, <2>2, Position
<1>2. /\ s \in 0 .. W - 1 /\ sPos * W \in Nat /\ start + i = sPos * W + s
  BY Position
<1>3. t = i + W - (IF s < d THEN d ELSE s)
  BY DEF After, Larger
<1>4. Copied(start, i) =
         {base + o : o \in {q - s + d : q \in {p \in Block(sPos) : p >= s}} \cap 0 .. W - 1}
  BY DEF Copied, Shifted
<1>5. Block(sPos) = {o \in 0 .. W - 1 : sPos * W + o \in bits}
  BY DEF Block
<1> HIDE DEF s, d, base, t
<1>6. t \in Nat /\ i < t /\ t <= base + W
  BY <1>1, <1>2, <1>3
<1> DEFINE b == sPos * W
<1> HIDE DEF b
<1>7. b \in Nat /\ start + i = b + s /\ Block(sPos) = {o \in 0 .. W - 1 : b + o \in bits}
  BY <1>2, <1>5 DEF b
<1> HIDE DEF sPos
<1>8. ASSUME NEW k \in Copied(start, i)
      PROVE  k \in i .. t - 1 /\ start + k \in bits
  <2>1. PICK o \in 0 .. W - 1, q \in 0 .. W - 1 :
           k = base + o /\ o = q - s + d /\ q >= s /\ b + q \in bits
    BY <1>4, <1>7
  <2>2. k \in i .. t - 1 /\ start + k = b + q
    BY <1>1, <1>2, <1>3, <1>7, <2>1
  <2> QED
    BY <2>1, <2>2
<1>9. ASSUME NEW k \in i .. t - 1, start + k \in bits
      PROVE  k \in Copied(start, i)
  <2> DEFINE q == k - i + s
             o == k - base
  <2>1. q \in 0 .. W - 1 /\ o \in 0 .. W - 1 /\ q >= s /\ o = q - s + d
        /\ b + q = start + k /\ k = base + o
    BY <1>1, <1>2, <1>3, <1>7, <1>9
  <2> HIDE DEF q, o
  <2>2. q \in {p \in Block(sPos) : p >= s}
    BY <1>7, <1>9, <2>1
  <2> QED
    BY <1>4, <2>1, <2>2
<1>10. Copied(start, i) = {k \in i .. t - 1 : start + k \in bits}
  BY <1>8, <1>9
<1> QED
  BY <1>1, <1>6, <1>10 DEF t, base

IsSlicing(f, start, len) ==
    f = [i \in Nat |-> IF i >= len THEN {} ELSE Copied(start, i) \cup f[After(start, i)]]
Slicing(start, len) == CHOOSE f : IsSlicing(f, start, len)

\* The positions at which turns begin, from i on
Turns(start, len, i) ==
    {m \in Nat : \A S \in SUBSET Nat :
                    i \in S /\ (\A x \in S : x < len => After(start, x) \in S) => m \in S}

LEMMA TurnsNext ==
  ASSUME NEW start \in Nat, NEW len \in Nat, NEW i \in Nat, i < len
  PROVE  Turns(start, len, i) = {i} \cup Turns(start, len, After(start, i))
<1>1. After(start, i) \in Nat
  BY TurnCopies
<1>2. ASSUME NEW m \in Turns(start, len, i), m # i
      PROVE  m \in Turns(start, len, After(start, i))
  <2>1. SUFFICES ASSUME NEW S \in SUBSET Nat, After(start, i) \in S,
                        \A x \in S : x < len => After(start, x) \in S
                 PROVE  m \in S
    BY DEF Turns
  <2>2. S \cup {i} \in SUBSET Nat /\ \A x \in S \cup {i} : x < len => After(start, x) \in S \cup {i}
    BY <2>1
  <2>3. m \in S \cup {i}
    BY <2>2 DEF Turns
  <2> QED
    BY <1>2, <2>3
<1>3. Turns(start, len, After(start, i)) \subseteq Turns(start, len, i) /\ i \in Turns(start, len, i)
  BY DEF Turns
<1> QED
  BY <1>2, <1>3

\* There is such a function: all that the turns copy.
LEMMA SlicingExists ==
  ASSUME NEW start \in Nat, NEW len \in Nat
  PROVE  IsSlicing(Slicing(start, len), start, len)
<1> DEFINE All(i) == UNION {Copied(start, j) : j \in {m \in Turns(start, len, i) : m < len}}
           f == [i \in Nat |-> All(i)]
<1>1. ASSUME NEW i \in Nat, i < len PROVE All(i) = Copied(start, i) \cup All(After(start, i))
  BY <1>1, TurnsNext
<1>2. ASSUME NEW i \in Nat, ~(i < len) PROVE All(i) = {}
  <2>1. Turns(start, len, i) \subseteq {i}
    BY <1>2 DEF Turns
  <2> QED
    BY <1>2, <2>1
<1> HIDE DEF All
<1>3. ASSUME NEW i \in Nat
      PROVE  All(i) = IF i >= len THEN {} ELSE Copied(start, i) \cup f[After(start, i)]
  <2>1. After(start, i) \in Nat
    BY TurnCopies
  <2>2. f[After(start, i)] = All(After(start, i))
    BY <2>1
  <2> HIDE DEF f
  <2>3. (i < len /\ ~(i >= len)) \/ (~(i < len) /\ i >= len)
    OBVIOUS
  <2> QED
    BY <1>1, <1>2, <2>2, <2>3
<1>4. f = [i \in Nat |-> IF i >= len THEN {} ELSE Copied(start, i) \cup f[After(start, i)]]
  BY <1>3
<1> HIDE DEF f
<1> QED
  BY <1>4 DEF IsSlicing, Slicing

\* The loop gives the bits of the source one by one, inside the new blocks.
LEMMA SliceIs ==
  ASSUME NEW start \in Nat, NEW len \in Nat
  PROVE  /\ Slicing(start, len)[0] \subseteq Memory(MinArraySize(len))
         /\ \A k \in 0 .. len - 1 : k \in Slicing(start, len)[0] <=> start + k \in bits
<1> DEFINE f == Slicing(start, len)
           Good(i) == /\ f[i] \subseteq Memory(MinArraySize(len))
                      /\ \A k \in 0 .. len - 1 : k \in f[i] <=> i <= k /\ start + k \in bits
           Bad == {i \in Nat : ~Good(i)}
           Left == {len - i : i \in Bad}
<1>1. \A i \in Nat : f[i] = IF i >= len THEN {} ELSE Copied(start, i) \cup f[After(start, i)]
  <2>1. f = [i \in Nat |-> IF i >= len THEN {} ELSE Copied(start, i) \cup f[After(start, i)]]
    BY SlicingExists DEF IsSlicing
  <2> HIDE DEF f
  <2> QED
    BY <2>1
<1> HIDE DEF f
<1>2. \A i \in Bad : i \in Nat /\ i < len /\ len - i \in Nat
  <2> SUFFICES ASSUME NEW i \in Nat, ~(i < len) PROVE Good(i)
    OBVIOUS
  <2>1. i >= len /\ \A k \in 0 .. len - 1 : ~(i <= k)
    OBVIOUS
  <2>2. f[i] = {}
    BY <1>1, <2>1
  <2> QED
    BY <2>1, <2>2
<1>3. ASSUME NEW i \in Nat, i < len, Good(After(start, i)) PROVE Good(i)
  <2> DEFINE t == After(start, i)
             M == MinArraySize(len) * W
  <2>1. /\ t \in Nat /\ i < t /\ t <= (BlockIndex(i) + 1) * W
        /\ Copied(start, i) = {k \in i .. t - 1 : start + k \in bits}
    BY TurnCopies
  <2>2. t <= M /\ M \in Nat
    <3>1. BlockIndex(i) \in Nat /\ BlockIndex(i) * W \in Nat /\ BlockIndex(i) * W <= i
      BY Position, BitAssumption
    <3>2. BlockIndex(i) * W < len
      BY <1>3, <3>1
    <3>3. (BlockIndex(i) + 1) * W <= M /\ M \in Nat
      BY <3>1, <3>2, EnoughBlocks
    <3>4. (BlockIndex(i) + 1) * W \in Nat
      <4>1. W \in Nat /\ BlockIndex(i) + 1 \in Nat
        BY <3>1, BitAssumption
      <4> QED
        BY <4>1, Multiply
    <3> HIDE DEF t, M
    <3> QED
      BY <2>1, <3>3, <3>4 DEF t
  <2>3. f[i] = Copied(start, i) \cup f[t]
    <3>1. ~(i >= len)
      BY <1>3
    <3> QED
      BY <1>1, <3>1
  <2>4. Memory(MinArraySize(len)) = 0 .. M - 1
    BY DEF Memory
  <2>5. Good(t)
    BY <1>3
  <2> HIDE DEF t, M
  <2>6. Copied(start, i) \subseteq 0 .. M - 1
    BY <2>1, <2>2 DEF t
  <2>7. f[i] \subseteq Memory(MinArraySize(len))
    BY <2>3, <2>4, <2>5, <2>6
  <2>8. ASSUME NEW k \in 0 .. len - 1
        PROVE  k \in f[i] <=> i <= k /\ start + k \in bits
    <3>1. k \in f[t] <=> t <= k /\ start + k \in bits
      BY <2>5
    <3>2. k \in Copied(start, i) <=> i <= k /\ k < t /\ start + k \in bits
      BY <2>1 DEF t
    <3>3. t \in Nat /\ i < t
      BY <2>1 DEF t
    <3> QED
      BY <2>3, <3>1, <3>2, <3>3
  <2> QED
    BY <2>7, <2>8
<1> HIDE DEF Good
<1>4. ASSUME Bad # {} PROVE FALSE
  <2>1. Left \in SUBSET Nat /\ Left # {}
    BY <1>2, <1>4
  <2>2. PICK m \in Left : \A k \in Left : m <= k
    BY <2>1, LeastNatural
  <2>3. PICK i \in Bad : m = len - i
    BY <2>2
  <2>4. i \in Nat /\ i < len /\ After(start, i) \in Nat /\ i < After(start, i)
    BY <1>2, TurnCopies
  <2>5. After(start, i) \notin Bad
    <3> SUFFICES ASSUME After(start, i) \in Bad PROVE FALSE
      OBVIOUS
    <3>1. len - After(start, i) \in Left
      OBVIOUS
    <3>2. len - i <= len - After(start, i)
      BY <2>2, <2>3, <3>1
    <3> QED
      BY <2>4, <3>2
  <2>6. Good(i)
    BY <1>3, <2>4, <2>5
  <2> QED
    BY <2>6
<1>5. Good(0)
  BY <1>4
<1> QED
  BY <1>5 DEF Good, f

-----------------------------------------------------------------------------
(* Sequences of bits                                                       *)

\* The first n bits of S
Bits(S, n) == [i \in 1 .. n |-> i - 1 \in S]

LEMMA BitsAre ==
  ASSUME NEW S, NEW n \in Nat
  PROVE  /\ Bits(S, n) \in Seq(BOOLEAN) /\ Len(Bits(S, n)) = n
         /\ \A i \in 1 .. n : Bits(S, n)[i] = (i - 1 \in S)
<1>1. Bits(S, n) \in [1 .. n -> BOOLEAN]
  BY DEF Bits
<1>2. \A i \in 1 .. n : Bits(S, n)[i] = (i - 1 \in S)
  BY DEF Bits
<1> HIDE DEF Bits
<1>3. Bits(S, n) \in Seq(BOOLEAN) /\ Len(Bits(S, n)) = n
  BY <1>1
<1> QED
  BY <1>2, <1>3

\* The same bits, the same sequence
LEMMA BitsSame ==
  ASSUME NEW S, NEW T, NEW n \in Nat, \A i \in 0 .. n - 1 : i \in S <=> i \in T
  PROVE  Bits(S, n) = Bits(T, n)
<1>1. \A i \in 1 .. n : (i - 1 \in S) = (i - 1 \in T)
  <2> SUFFICES ASSUME NEW i \in 1 .. n PROVE i - 1 \in S <=> i - 1 \in T
    OBVIOUS
  <2>1. i - 1 \in 0 .. n - 1
    OBVIOUS
  <2> QED
    BY <2>1
<1> QED
  BY <1>1 DEF Bits

LEMMA BitsAppend ==
  ASSUME NEW S, NEW T, NEW n \in Nat, NEW v \in BOOLEAN,
         \A i \in 0 .. n - 1 : i \in T <=> i \in S, n \in T <=> v
  PROVE  Bits(T, n + 1) = Append(Bits(S, n), v)
<1> DEFINE s == Bits(S, n)
           t == Bits(T, n + 1)
<1>1. /\ s \in Seq(BOOLEAN) /\ Len(s) = n
      /\ \A i \in 1 .. n : s[i] = (i - 1 \in S)
  BY BitsAre
<1>2. /\ t \in Seq(BOOLEAN) /\ Len(t) = n + 1
      /\ \A i \in 1 .. n + 1 : t[i] = (i - 1 \in T)
  BY BitsAre
<1> HIDE DEF s, t
<1>3. /\ Append(s, v) \in Seq(BOOLEAN) /\ Len(Append(s, v)) = n + 1
      /\ \A i \in 1 .. n + 1 : Append(s, v)[i] = IF i = n + 1 THEN v ELSE s[i]
  BY <1>1
<1>4. ASSUME NEW i \in 1 .. n + 1 PROVE t[i] = Append(s, v)[i]
  <2>1. CASE i = n + 1
    <3>1. t[i] = (n \in T) /\ Append(s, v)[i] = v
      BY <1>2, <1>3, <2>1
    <3> QED
      BY <3>1
  <2>2. CASE i # n + 1
    <3>1. i \in 1 .. n /\ i - 1 \in 0 .. n - 1
      BY <2>2
    <3>2. t[i] = (i - 1 \in T) /\ Append(s, v)[i] = (i - 1 \in S)
      BY <1>1, <1>2, <1>3, <2>2, <3>1
    <3>3. i - 1 \in T <=> i - 1 \in S
      BY <3>1
    <3> QED
      BY <3>2, <3>3
  <2> QED
    BY <2>1, <2>2
<1>5. t = Append(s, v)
  BY <1>2, <1>3, <1>4, SeqEqual
<1> QED
  BY <1>5 DEF s, t

\* A part of the bits is a part of the sequence.
LEMMA BitsPart ==
  ASSUME NEW S, NEW T, NEW n \in Nat, NEW a \in 0 .. n, NEW b \in a .. n,
         \A i \in 0 .. b - a - 1 : i \in T <=> a + i \in S
  PROVE  Bits(T, b - a) = SubSeq(Bits(S, n), a + 1, b)
<1> DEFINE s == Bits(S, n)
           t == Bits(T, b - a)
           u == SubSeq(s, a + 1, b)
<1>1. /\ s \in Seq(BOOLEAN) /\ Len(s) = n
      /\ \A i \in 1 .. n : s[i] = (i - 1 \in S)
  BY BitsAre
<1>2. b - a \in Nat
  OBVIOUS
<1>3. /\ t \in Seq(BOOLEAN) /\ Len(t) = b - a
      /\ \A i \in 1 .. b - a : t[i] = (i - 1 \in T)
  BY <1>2, BitsAre
<1> HIDE DEF s, t
<1>4. \A i \in a + 1 .. b : s[i] \in BOOLEAN
  BY <1>1
<1>5. /\ u \in Seq(BOOLEAN) /\ Len(u) = b - a
      /\ \A i \in 1 .. b - a : u[i] = s[a + i]
  <2>1. a + 1 \in Int /\ b \in Int
    OBVIOUS
  <2>2. /\ u \in Seq(BOOLEAN)
        /\ Len(u) = IF a + 1 <= b THEN b - (a + 1) + 1 ELSE 0
        /\ \A i \in 1 .. b - (a + 1) + 1 : u[i] = s[a + 1 + i - 1]
    BY <1>4, <2>1, SubSeqProperties
  <2> HIDE DEF u
  <2>3. \A i \in 1 .. b - a : u[i] = s[a + i]
    <3> SUFFICES ASSUME NEW i \in 1 .. b - a PROVE u[i] = s[a + i]
      OBVIOUS
    <3>1. i \in 1 .. b - (a + 1) + 1 /\ a + 1 + i - 1 = a + i
      OBVIOUS
    <3> QED
      BY <2>2, <3>1
  <2> QED
    BY <2>2, <2>3
<1> HIDE DEF u
<1>6. ASSUME NEW i \in 1 .. b - a PROVE t[i] = u[i]
  <2>1. i - 1 \in 0 .. b - a - 1 /\ a + i \in 1 .. n /\ a + i - 1 = a + (i - 1)
    OBVIOUS
  <2>2. t[i] = (i - 1 \in T) /\ u[i] = (a + (i - 1) \in S)
    BY <1>1, <1>3, <1>5, <2>1
  <2>3. i - 1 \in T <=> a + (i - 1) \in S
    BY <2>1
  <2> QED
    BY <2>2, <2>3
<1>7. t = u
  BY <1>3, <1>5, <1>6, SeqEqual
<1> QED
  BY <1>7 DEF s, t, u

-----------------------------------------------------------------------------
(* Growing                                                                 *)

\* What has been built fits a builder with room for n bits: the old bits are
\* where they were, in memory for all of the capacity.
RoomFor(b, n) ==
    /\ b.capacity \in Nat /\ b.blocks \in Nat /\ b.blocks * W \in Nat
    /\ n <= b.capacity /\ b.capacity <= b.blocks * W
    /\ b.bits \subseteq Memory(b.blocks)
    /\ \A i \in 0 .. numBits - 1 : i \in b.bits <=> i \in bits

\* The array is what its client wrote, in memory it has: the builder's capacity
\* never exceeds its blocks, and what is built never its capacity.
BitInv == /\ BitTypeOK
          /\ BitsHaveRoom
          /\ phase = "none" => bits = {} /\ blocks = 0 /\ numBits = 0 /\ capacity = 0

LEMMA ResizingKeeps ==
  ASSUME BitInv, phase = "building", NEW n \in Nat, numBits <= n
  PROVE  RoomFor(Resized(n), n)
<1>1. /\ MinArraySize(n) \in Nat /\ MinArraySize(n) * W \in Nat
      /\ n <= MinArraySize(n) * W
  BY EnoughBlocks
<1> DEFINE m == MinArraySize(n)
           kept == IF capacity > 0 THEN bits \cap Memory(m) ELSE {}
<1>2. Resized(n) = [bits |-> kept, blocks |-> m, capacity |-> n]
  BY DEF Resized
<1>3. Memory(m) = 0 .. m * W - 1
  BY DEF Memory
<1>4. numBits \in Nat /\ capacity \in Nat /\ numBits <= capacity
  BY BitAssumption DEF BitInv, BitTypeOK, BitsHaveRoom
<1>5. ASSUME NEW i \in 0 .. numBits - 1 PROVE i \in kept <=> i \in bits
  <2>1. capacity > 0
    BY <1>4
  <2>2. i \in Memory(m)
    BY <1>1, <1>3, <1>4
  <2> QED
    BY <2>1, <2>2
<1>6. kept \subseteq Memory(m)
  OBVIOUS
<1> HIDE DEF m, kept
<1> QED
  BY <1>1, <1>2, <1>5, <1>6 DEF RoomFor, m

LEMMA EnsuringKeeps ==
  ASSUME BitInv, phase = "building", NEW n \in Nat, numBits <= n, n > 0
  PROVE  RoomFor(EnsureBits(n), n)
<1> DEFINE base == IF capacity <= 1 THEN W ELSE 2 * capacity
           c == Grown(base, n)
<1>1. numBits \in Nat /\ capacity \in Nat /\ W \in Nat \ {0} /\ blocks \in Nat
  BY BitAssumption DEF BitInv, BitTypeOK
<1>2. CASE capacity < n \/ capacity = 0
  <2>1. base \in Nat \ {0}
    BY <1>1
  <2> HIDE DEF base
  <2>2. c = Doubling(n)[base]
    BY DEF Grown, Doubling, IsDoubling
  <2>3. c \in Nat /\ n <= c
    BY <2>1, <2>2, DoublingReaches
  <2>4. EnsureBits(n) = Resized(c)
    BY <1>2 DEF EnsureBits, base
  <2> HIDE DEF c
  <2>5. RoomFor(Resized(c), c)
    <3>1. numBits <= c
      BY <1>1, <2>3
    <3> QED
      BY <2>3, <3>1, ResizingKeeps
  <2>6. Resized(c).capacity = c
    BY DEF Resized
  <2> QED
    BY <2>3, <2>4, <2>5, <2>6 DEF RoomFor
<1>3. CASE ~(capacity < n \/ capacity = 0)
  <2>1. EnsureBits(n) = [bits |-> bits, blocks |-> blocks, capacity |-> capacity]
    BY <1>3 DEF EnsureBits
  <2>2. n <= capacity /\ capacity <= blocks * W
    BY <1>1, <1>3 DEF BitInv, BitsHaveRoom
  <2>3. blocks * W \in Nat
    BY <1>1, Multiply
  <2>4. bits \subseteq Memory(blocks)
    BY DEF BitInv, BitTypeOK
  <2> QED
    BY <1>1, <2>1, <2>2, <2>3, <2>4 DEF RoomFor
<1> QED
  BY <1>2, <1>3

-----------------------------------------------------------------------------
(* The steps: each keeps the invariant and is one of the sequence's.        *)

LEMMA ContentsAre == Contents = Bits(bits, numBits) /\ Contents' = Bits(bits', numBits')
BY DEF Contents, Bits

LEMMA ContentsType ==
  ASSUME BitInv
  PROVE  /\ numBits \in Nat /\ Contents \in Seq(BOOLEAN) /\ Len(Contents) = numBits
         /\ \A i \in 1 .. numBits : Contents[i] = (i - 1 \in bits)
<1>1. numBits \in Nat
  BY BitAssumption DEF BitInv, BitTypeOK
<1> QED
  BY <1>1, ContentsAre, BitsAre

LEMMA StepOfNew ==
  ASSUME BitInv, NEW n \in 0 .. MaxBits, NewBitArray(n)
  PROVE  BitInv' /\ Promise!Create
<1>1. n \in Nat /\ MaxBits \in Nat
  BY BitAssumption
<1>2. /\ MinArraySize(n) \in Nat /\ n <= MinArraySize(n) * W
  BY <1>1, EnoughBlocks
<1>3. /\ phase = "none" /\ phase' = "array" /\ numBits' = n /\ blocks' = MinArraySize(n)
      /\ bits' \in SUBSET Memory(blocks') /\ capacity' = capacity
  BY DEF NewBitArray
<1>4. BitInv'
  <2>1. BitTypeOK'
    BY <1>1, <1>2, <1>3 DEF BitInv, BitTypeOK, Memory
  <2>2. BitsHaveRoom'
    BY <1>2, <1>3 DEF BitsHaveRoom
  <2> QED
    BY <1>3, <2>1, <2>2 DEF BitInv
<1>5. Contents' \in Seq(BOOLEAN)
  BY <1>1, <1>3, ContentsAre, BitsAre
<1> QED
  BY <1>3, <1>4, <1>5 DEF Promise!Create

LEMMA StepOfBuilder ==
  ASSUME BitInv, NewBitBuilder
  PROVE  BitInv' /\ Promise!NewBuilder
<1>1. /\ phase = "none" /\ phase' = "building" /\ bits' = bits /\ blocks' = blocks
      /\ numBits' = numBits /\ capacity' = capacity
  BY DEF NewBitBuilder
<1>2. Contents' = Contents
  BY <1>1, ContentsAre
<1>3. BitTypeOK'
  BY <1>1 DEF BitInv, BitTypeOK, Memory
<1>4. numBits = 0 /\ capacity = 0
  BY <1>1 DEF BitInv
<1>5. BitsHaveRoom'
  BY <1>1, <1>4 DEF BitsHaveRoom
<1> QED
  BY <1>1, <1>2, <1>3, <1>5 DEF BitInv, Promise!NewBuilder

LEMMA StepOfAdd ==
  ASSUME BitInv, NEW v \in BOOLEAN, AddBit(v)
  PROVE  BitInv' /\ Promise!Add
<1> DEFINE b == EnsureBits(numBits + 1)
<1>1. /\ phase = "building" /\ phase' = phase /\ numBits < MaxBits
      /\ bits' = (IF v THEN b.bits \cup {numBits} ELSE b.bits \ {numBits})
      /\ blocks' = b.blocks /\ capacity' = b.capacity /\ numBits' = numBits + 1
  BY DEF AddBit
<1>2. numBits \in Nat /\ MaxBits \in Nat
  BY BitAssumption DEF BitInv, BitTypeOK
<1>3. RoomFor(b, numBits + 1)
  BY <1>1, <1>2, EnsuringKeeps
<1> HIDE DEF b
<1>4. /\ b.capacity \in Nat /\ b.blocks \in Nat /\ b.blocks * W \in Nat
      /\ numBits + 1 <= b.capacity /\ b.capacity <= b.blocks * W
      /\ b.bits \subseteq Memory(b.blocks)
      /\ \A i \in 0 .. numBits - 1 : i \in b.bits <=> i \in bits
  BY <1>3 DEF RoomFor
<1>5. BitInv'
  <2>1. numBits \in Memory(b.blocks)
    BY <1>2, <1>4 DEF Memory
  <2>2. bits' \subseteq Memory(b.blocks)
    BY <1>1, <1>4, <2>1
  <2>3. bits' \subseteq Memory(blocks)'
    BY <1>1, <2>2 DEF Memory
  <2>4. BitTypeOK'
    BY <1>1, <1>2, <1>4, <2>3 DEF BitTypeOK
  <2>5. BitsHaveRoom'
    BY <1>1, <1>4 DEF BitsHaveRoom
  <2> QED
    BY <1>1, <2>4, <2>5 DEF BitInv
<1>6. Contents' = Append(Contents, v)
  <2>1. \A i \in 0 .. numBits - 1 : i \in bits' <=> i \in bits
    <3> SUFFICES ASSUME NEW i \in 0 .. numBits - 1 PROVE i \in bits' <=> i \in bits
      OBVIOUS
    <3>1. i # numBits
      BY <1>2
    <3> QED
      BY <1>1, <1>4, <3>1
  <2>2. numBits \in bits' <=> v
    BY <1>1
  <2>3. Bits(bits', numBits + 1) = Append(Bits(bits, numBits), v)
    BY <1>2, <2>1, <2>2, BitsAppend
  <2> QED
    BY <1>1, <2>3, ContentsAre
<1> QED
  BY <1>1, <1>5, <1>6 DEF Promise!Add

LEMMA StepOfHint ==
  ASSUME BitInv, NEW n \in Hint, HintBits(n)
  PROVE  BitInv' /\ UNCHANGED <<phase, Contents>>
<1> DEFINE b == Resized(n)
<1>1. /\ phase = "building" /\ phase' = phase /\ capacity < n /\ numBits' = numBits
      /\ bits' = b.bits /\ blocks' = b.blocks /\ capacity' = b.capacity
  BY DEF HintBits
<1>2. numBits \in 0 .. MaxBits /\ MaxBits \in Nat /\ n \in Nat /\ capacity \in Nat
      /\ numBits <= capacity
  BY <1>1, BitAssumption DEF BitInv, BitTypeOK, BitsHaveRoom
<1>3. RoomFor(b, n)
  BY <1>1, <1>2, ResizingKeeps
<1> HIDE DEF b
<1>4. /\ b.capacity \in Nat /\ b.blocks \in Nat /\ b.blocks * W \in Nat
      /\ n <= b.capacity /\ b.capacity <= b.blocks * W
      /\ b.bits \subseteq Memory(b.blocks)
      /\ \A i \in 0 .. numBits - 1 : i \in b.bits <=> i \in bits
  BY <1>3 DEF RoomFor
<1>5. BitInv'
  <2>1. bits' \subseteq Memory(blocks)'
    BY <1>1, <1>4 DEF Memory
  <2>2. BitTypeOK'
    BY <1>1, <1>2, <1>4, <2>1 DEF BitTypeOK
  <2>3. BitsHaveRoom'
    BY <1>1, <1>2, <1>4 DEF BitsHaveRoom
  <2> QED
    BY <1>1, <2>2, <2>3 DEF BitInv
<1>6. Bits(bits', numBits) = Bits(bits, numBits)
  <2>1. numBits \in Nat /\ \A i \in 0 .. numBits - 1 : i \in bits' <=> i \in bits
    BY <1>1, <1>2, <1>4
  <2> QED
    BY <2>1, BitsSame
<1> QED
  BY <1>1, <1>5, <1>6, ContentsAre

LEMMA StepOfClear ==
  ASSUME BitInv, ClearBuilder
  PROVE  BitInv' /\ Promise!Reset
<1>1. /\ phase = "building" /\ phase' = phase /\ capacity' = 0 /\ numBits' = 0
      /\ bits' = bits /\ blocks' = blocks
  BY DEF ClearBuilder
<1>2. BitTypeOK'
  BY <1>1, BitAssumption DEF BitInv, BitTypeOK, Memory
<1>3. BitsHaveRoom'
  BY <1>1 DEF BitsHaveRoom
<1>4. Contents' = <<>>
  <2>1. Contents' \in Seq(BOOLEAN) /\ Len(Contents') = 0
    BY <1>1, ContentsAre, BitsAre
  <2> QED
    BY <2>1, EmptySeq
<1> QED
  BY <1>1, <1>2, <1>3, <1>4 DEF BitInv, Promise!Reset

\* The builder hands out its own array when its capacity, in bits, happens to
\* equal the number of blocks asked for: that array has room for the n bits, too.
LEMMA StepOfResult ==
  ASSUME BitInv, NEW n \in 0 .. MaxBits, BitResult(n)
  PROVE  BitInv' /\ Promise!Finish
<1> DEFINE s == MinArraySize(n)
           b == Resized(n)
<1>1. /\ phase = "building" /\ n <= numBits /\ phase' = "array" /\ numBits' = n
      /\ capacity' = capacity
      /\ \/ bits' = bits /\ blocks' = blocks
         \/ bits' = b.bits /\ blocks' = s
  BY DEF BitResult
<1>2. /\ MaxBits \in Nat /\ n \in Nat /\ numBits \in 0 .. MaxBits /\ capacity \in Nat
      /\ numBits <= capacity /\ blocks \in Nat /\ bits \subseteq Memory(blocks)
      /\ capacity > 0 => capacity <= blocks * W
  BY <1>1, BitAssumption DEF BitInv, BitTypeOK, BitsHaveRoom
<1>3. s \in Nat /\ n <= s * W /\ s * W \in Nat /\ blocks * W \in Nat
  <2>1. W \in Nat
    BY BitAssumption
  <2> QED
    BY <1>2, <2>1, EnoughBlocks, Multiply
<1>4. b.bits = IF capacity > 0 THEN bits \cap Memory(s) ELSE {}
  BY DEF Resized
<1> HIDE DEF b, s
<1>5. ASSUME NEW i \in 0 .. n - 1 PROVE i \in bits' <=> i \in bits
  <2>1. capacity > 0
    BY <1>1, <1>2
  <2>2. i \in Memory(s)
    BY <1>2, <1>3 DEF Memory
  <2> QED
    BY <1>1, <1>4, <2>1, <2>2
<1>6. bits' \subseteq Memory(blocks)' /\ blocks' \in Nat /\ n <= blocks' * W
  <2>1. CASE bits' = bits /\ blocks' = blocks
    <3>1. n <= blocks * W
      BY <1>1, <1>2, <1>3
    <3> QED
      BY <1>2, <2>1, <3>1 DEF Memory
  <2>2. CASE bits' = b.bits /\ blocks' = s
    <3>1. b.bits \subseteq Memory(s)
      BY <1>4
    <3> QED
      BY <1>3, <2>2, <3>1 DEF Memory
  <2> QED
    BY <1>1, <2>1, <2>2
<1>7. BitInv'
  <2>1. BitTypeOK'
    BY <1>1, <1>2, <1>6 DEF BitTypeOK
  <2>2. BitsHaveRoom'
    BY <1>1, <1>6 DEF BitsHaveRoom
  <2> QED
    BY <1>1, <2>1, <2>2 DEF BitInv
<1>8. Contents' = SubSeq(Contents, 1, n)
  <2>1. /\ numBits \in Nat /\ 0 \in 0 .. numBits /\ n \in 0 .. numBits
        /\ n - 0 = n /\ 0 + 1 = 1
    BY <1>1, <1>2
  <2>2. \A i \in 0 .. n - 0 - 1 : i \in bits' <=> 0 + i \in bits
    <3> SUFFICES ASSUME NEW i \in 0 .. n - 0 - 1 PROVE i \in bits' <=> 0 + i \in bits
      OBVIOUS
    <3>1. i \in 0 .. n - 1 /\ 0 + i = i
      BY <1>2
    <3> QED
      BY <1>5, <3>1
  <2>3. Bits(bits', n - 0) = SubSeq(Bits(bits, numBits), 0 + 1, n)
    BY <2>1, <2>2, BitsPart
  <2> QED
    BY <1>1, <2>1, <2>3, ContentsAre
<1>9. n \in 0 .. Len(Contents)
  BY <1>1, <1>2, ContentsType
<1> QED
  BY <1>1, <1>7, <1>8, <1>9 DEF Promise!Finish

LEMMA StepOfUpdate ==
  ASSUME BitInv, NEW i \in 0 .. MaxBits - 1, NEW v \in BOOLEAN, UpdateBit(i, v)
  PROVE  BitInv' /\ Promise!Assign
<1>1. /\ phase = "array" /\ i < numBits /\ phase' = phase /\ blocks' = blocks
      /\ numBits' = numBits /\ capacity' = capacity
      /\ bits' = (IF v THEN bits \cup {i} ELSE bits \ {i})
  BY DEF UpdateBit
<1>2. /\ MaxBits \in Nat /\ numBits \in 0 .. MaxBits /\ W \in Nat /\ blocks \in Nat
      /\ bits \subseteq Memory(blocks) /\ numBits <= blocks * W /\ i \in Nat
  BY <1>1, BitAssumption DEF BitInv, BitTypeOK, BitsHaveRoom
<1>3. blocks * W \in Nat
  BY <1>2, Multiply
<1>4. BitInv'
  <2>1. i \in Memory(blocks)
    BY <1>1, <1>2, <1>3 DEF Memory
  <2>2. bits' \subseteq Memory(blocks)'
    BY <1>1, <1>2, <2>1 DEF Memory
  <2>3. BitTypeOK'
    BY <1>1, <2>2 DEF BitInv, BitTypeOK
  <2>4. BitsHaveRoom'
    BY <1>1 DEF BitInv, BitsHaveRoom
  <2> QED
    BY <1>1, <2>3, <2>4 DEF BitInv
<1> DEFINE s == Contents
           t == [Contents EXCEPT ![i + 1] = v]
           u == Contents'
<1>5. /\ s \in Seq(BOOLEAN) /\ Len(s) = numBits /\ DOMAIN s = 1 .. numBits
      /\ \A j \in 1 .. numBits : s[j] = (j - 1 \in bits)
  BY ContentsType, LenProperties
<1>6. /\ u \in Seq(BOOLEAN) /\ Len(u) = numBits
      /\ \A j \in 1 .. numBits : u[j] = (j - 1 \in bits')
  <2>1. numBits \in Nat
    BY <1>2
  <2> QED
    BY <1>1, <2>1, ContentsAre, BitsAre
<1>7. i + 1 \in 1 .. numBits
  BY <1>1, <1>2
<1>8. /\ t \in Seq(BOOLEAN) /\ Len(t) = numBits
      /\ \A j \in 1 .. numBits : t[j] = IF j = i + 1 THEN v ELSE s[j]
  BY <1>5, <1>7, ExceptSeq
<1> HIDE DEF s, t, u
<1>9. ASSUME NEW j \in 1 .. numBits PROVE u[j] = t[j]
  <2>1. CASE j = i + 1
    <3>1. j - 1 = i /\ t[j] = v
      BY <1>2, <1>8, <2>1
    <3>2. i \in bits' <=> v
      BY <1>1
    <3> QED
      BY <1>6, <3>1, <3>2
  <2>2. CASE j # i + 1
    <3>1. j - 1 # i /\ t[j] = s[j]
      BY <1>2, <1>8, <2>2
    <3>2. j - 1 \in bits' <=> j - 1 \in bits
      BY <1>1, <3>1
    <3> QED
      BY <1>5, <1>6, <3>1, <3>2
  <2> QED
    BY <2>1, <2>2
<1>10. u = t
  BY <1>6, <1>8, <1>9, SeqEqual
<1>11. Contents' = [Contents EXCEPT ![i + 1] = v] /\ i + 1 \in DOMAIN Contents
  BY <1>5, <1>7, <1>10 DEF s, t, u
<1> QED
  BY <1>1, <1>4, <1>11 DEF Promise!Assign

LEMMA StepOfFill ==
  ASSUME BitInv, NEW v \in BOOLEAN, FillBits(v)
  PROVE  BitInv' /\ Promise!AssignAll
<1>1. /\ phase = "array" /\ phase' = phase /\ blocks' = blocks
      /\ numBits' = numBits /\ capacity' = capacity
      /\ bits' = (IF v THEN Memory(blocks) ELSE {})
  BY DEF FillBits
<1>2. /\ MaxBits \in Nat /\ numBits \in Nat /\ W \in Nat /\ blocks \in Nat
      /\ numBits <= blocks * W
  BY <1>1, BitAssumption DEF BitInv, BitTypeOK, BitsHaveRoom
<1>3. blocks * W \in Nat
  BY <1>2, Multiply
<1>4. BitInv'
  <2>1. bits' \subseteq Memory(blocks)'
    BY <1>1 DEF Memory
  <2>2. BitTypeOK'
    BY <1>1, <2>1 DEF BitInv, BitTypeOK
  <2>3. BitsHaveRoom'
    BY <1>1 DEF BitInv, BitsHaveRoom
  <2> QED
    BY <1>1, <2>2, <2>3 DEF BitInv
<1>5. \A j \in 1 .. numBits : (j - 1 \in bits') = v
  <2> SUFFICES ASSUME NEW j \in 1 .. numBits PROVE j - 1 \in bits' <=> v
    OBVIOUS
  <2>1. j - 1 \in Memory(blocks)
    BY <1>2, <1>3 DEF Memory
  <2> QED
    BY <1>1, <2>1
<1>6. DOMAIN Contents = 1 .. numBits
  BY DEF Contents
<1>7. Contents' = [j \in DOMAIN Contents |-> v]
  BY <1>1, <1>5, <1>6 DEF Contents
<1> QED
  BY <1>1, <1>4, <1>7 DEF Promise!AssignAll

LEMMA StepOfSlice ==
  ASSUME BitInv, NEW start \in 0 .. MaxBits, NEW end \in 0 .. MaxBits, SliceBits(start, end)
  PROVE  BitInv' /\ Promise!Cut
<1> DEFINE len == end - start
<1>1. /\ phase = "array" /\ start <= end /\ end <= numBits /\ phase' = phase
      /\ capacity' = capacity /\ blocks' = MinArraySize(len) /\ numBits' = len
  BY DEF SliceBits
<1>2. bits' = Slicing(start, len)[0]
  BY DEF SliceBits, Slicing, IsSlicing, Copied, After
<1>3. MaxBits \in Nat /\ numBits \in 0 .. MaxBits /\ start \in Nat /\ len \in Nat /\ len <= MaxBits
  BY <1>1, BitAssumption DEF BitInv, BitTypeOK
<1> HIDE DEF len
<1>4. /\ bits' \subseteq Memory(MinArraySize(len))
      /\ \A k \in 0 .. len - 1 : k \in bits' <=> start + k \in bits
  BY <1>2, <1>3, SliceIs
<1>5. MinArraySize(len) \in Nat /\ len <= MinArraySize(len) * W
  BY <1>3, EnoughBlocks
<1>6. BitInv'
  <2>1. bits' \subseteq Memory(blocks)'
    BY <1>1, <1>4 DEF Memory
  <2>2. BitTypeOK'
    BY <1>1, <1>3, <1>5, <2>1 DEF BitInv, BitTypeOK
  <2>3. BitsHaveRoom'
    BY <1>1, <1>5 DEF BitsHaveRoom
  <2> QED
    BY <1>1, <2>2, <2>3 DEF BitInv
<1>7. Contents' = SubSeq(Contents, start + 1, end)
  <2>1. numBits \in Nat /\ start \in 0 .. numBits /\ end \in start .. numBits
    BY <1>1, <1>3
  <2>2. \A k \in 0 .. end - start - 1 : k \in bits' <=> start + k \in bits
    BY <1>4 DEF len
  <2>3. Bits(bits', end - start) = SubSeq(Bits(bits, numBits), start + 1, end)
    BY <2>1, <2>2, BitsPart
  <2> QED
    BY <1>1, <2>3, ContentsAre DEF len
<1>8. start \in 0 .. Len(Contents) /\ end \in 0 .. Len(Contents)
  BY <1>1, <1>3, ContentsType
<1> QED
  BY <1>1, <1>6, <1>7, <1>8 DEF Promise!Cut

-----------------------------------------------------------------------------
(* Clients that do not append one sequence of bits to another              *)

LEMMA StepOfBits ==
  ASSUME ~Appends, BitInv, BitNext
  PROVE  BitInv' /\ [Promise!Next]_<<phase, Contents>>
<1>1. CASE \E n \in 0 .. MaxBits : NewBitArray(n)
  BY <1>1, StepOfNew DEF Promise!Next
<1>2. CASE NewBitBuilder
  BY <1>2, StepOfBuilder DEF Promise!Next
<1>3. CASE \E v \in BOOLEAN : AddBit(v) \/ FillBits(v)
  BY <1>3, StepOfAdd, StepOfFill DEF Promise!Next
<1>4. CASE \E n \in Hint : HintBits(n)
  BY <1>4, StepOfHint
<1>5. CASE ClearBuilder
  BY <1>5, StepOfClear DEF Promise!Next
<1>6. CASE \E n \in 0 .. MaxBits : BitResult(n)
  BY <1>6, StepOfResult DEF Promise!Next
<1>7. CASE \E i \in 0 .. MaxBits - 1, v \in BOOLEAN : UpdateBit(i, v)
  BY <1>7, StepOfUpdate DEF Promise!Next
<1>8. CASE \E s, e \in 0 .. MaxBits : SliceBits(s, e)
  BY <1>8, StepOfSlice DEF Promise!Next
<1> QED
  BY <1>1, <1>2, <1>3, <1>4, <1>5, <1>6, <1>7, <1>8 DEF BitNext

LEMMA BitsUntouched ==
  ASSUME BitInv, UNCHANGED bvars
  PROVE  BitInv' /\ UNCHANGED <<phase, Contents>>
<1>1. /\ phase' = phase /\ bits' = bits /\ blocks' = blocks
      /\ numBits' = numBits /\ capacity' = capacity
  BY DEF bvars
<1>2. BitTypeOK' /\ BitsHaveRoom'
  BY <1>1 DEF BitInv, BitTypeOK, BitsHaveRoom, Memory
<1> QED
  BY <1>1, <1>2, ContentsAre DEF BitInv

LEMMA BitInvStarts == BitInit => BitInv /\ Promise!Init
<1> SUFFICES ASSUME BitInit PROVE BitInv /\ Promise!Init
  OBVIOUS
<1>1. phase = "none" /\ bits = {} /\ blocks = 0 /\ numBits = 0 /\ capacity = 0
  BY DEF BitInit
<1>2. BitTypeOK /\ BitsHaveRoom
  BY <1>1, BitAssumption DEF BitTypeOK, BitsHaveRoom
<1>3. BitInv
  BY <1>1, <1>2 DEF BitInv
<1>4. Contents \in Seq(BOOLEAN) /\ Len(Contents) = 0
  BY <1>1, <1>3, ContentsType
<1>5. Contents = <<>>
  BY <1>4, EmptySeq
<1> QED
  BY <1>1, <1>3, <1>5 DEF Promise!Init

LEMMA EachStepOfBits ==
  ASSUME ~Appends, BitInv, [BitIterNext]_bitIterVars
  PROVE  BitInv' /\ [Promise!Next]_<<phase, Contents>>
<1>1. CASE BitNext
  BY <1>1, StepOfBits
<1>2. CASE UNCHANGED bvars
  BY <1>2, BitsUntouched
<1>3. BitNext \/ UNCHANGED bvars
  BY DEF BitIterNext, Use, StartIteration, Continue, bitIterVars
<1> QED
  BY <1>1, <1>2, <1>3

\* For clients that do not use append(LSeq): no access of LBitArray or its
\* builder leaves the memory, however it grows, is cut, cleared and sliced.
THEOREM BitsStayInside ==
  ASSUME ~Appends
  PROVE  BitIterSpec => []BitsHaveRoom
<1>1. BitIterInit => BitInv
  BY BitInvStarts DEF BitIterInit
<1>2. BitInv /\ [BitIterNext]_bitIterVars => BitInv'
  BY EachStepOfBits
<1>3. BitInv => BitsHaveRoom
  BY DEF BitInv
<1> QED
  BY <1>1, <1>2, <1>3, PTL DEF BitIterSpec

\* LBitArray implements a sequence of Booleans: the blocks, the bits behind the
\* end and the shifts of slice are never seen.  append(LSeq) is left out because
\* it counts what it appends twice.
THEOREM BitsAreASequence ==
  ASSUME ~Appends
  PROVE  BitIterSpec => IsBitSequence
<1>1. BitIterInit => BitInv /\ Promise!Init
  BY BitInvStarts DEF BitIterInit
<1>2. BitInv /\ [BitIterNext]_bitIterVars => BitInv' /\ [Promise!Next]_<<phase, Contents>>
  BY EachStepOfBits
<1>3. BitIterSpec => Promise!Init /\ [][Promise!Next]_<<phase, Contents>>
  BY <1>1, <1>2, PTL DEF BitIterSpec
<1> QED
  BY <1>3 DEF IsBitSequence, Promise!Spec, Promise!vars

-----------------------------------------------------------------------------
(* What the iterators are to deliver                                       *)

LEMMA Extremes ==
  ASSUME NEW a \in Int, NEW b \in Int
  PROVE  /\ Max({a, b}) = IF a >= b THEN a ELSE b
         /\ Min({a, b}) = IF a <= b THEN a ELSE b
<1>1. /\ \E x \in {a, b} : \A y \in {a, b} : x >= y
      /\ \E x \in {a, b} : \A y \in {a, b} : x <= y
  OBVIOUS
<1>2. /\ Max({a, b}) \in {a, b} /\ \A y \in {a, b} : Max({a, b}) >= y
      /\ Min({a, b}) \in {a, b} /\ \A y \in {a, b} : Min({a, b}) <= y
  BY <1>1 DEF Max, Min
<1> QED
  BY <1>2

LEMMA LeastOfAll ==
  ASSUME NEW S \in SUBSET Nat, S # {}
  PROVE  Min(S) \in S /\ \A y \in S : Min(S) <= y
BY LeastNatural DEF Min

\* Where a loop over elements that are not in P stops
LEMMA FirstIs ==
  ASSUME N \in Nat, NEW P \in SUBSET (0 .. N - 1), NEW i \in 0 .. N
  PROVE  /\ FirstOf(P, i) \in i .. N
         /\ FirstOf(P, i) < N => FirstOf(P, i) \in P
         /\ \A p \in P : i <= p => FirstOf(P, i) <= p
<1> DEFINE S == {p \in P : p >= i} \cup {N}
<1>1. Max({i, N}) = N
  BY Extremes
<1>2. FirstOf(P, i) = Min(S)
  BY <1>1 DEF FirstOf
<1>3. S \in SUBSET Nat /\ S # {}
  <2>1. \A p \in P : p \in Nat
    <3>1. \A k \in 0 .. N - 1 : k \in Nat
      OBVIOUS
    <3> QED
      BY <3>1
  <2> QED
    BY <2>1
<1>4. Min(S) \in S /\ \A y \in S : Min(S) <= y
  <2> HIDE DEF S
  <2> QED
    BY <1>3, LeastOfAll
<1>5. \A p \in P : p >= i => p \in S
  OBVIOUS
<1>6. N \in S /\ \A p \in S : p \in i .. N /\ (p = N \/ p \in P)
  OBVIOUS
<1> HIDE DEF S
<1>7. FirstOf(P, i) \in i .. N /\ (FirstOf(P, i) < N => FirstOf(P, i) \in P)
  <2>1. FirstOf(P, i) \in S
    BY <1>2, <1>4
  <2>2. FirstOf(P, i) \in i .. N /\ (FirstOf(P, i) = N \/ FirstOf(P, i) \in P)
    BY <1>6, <2>1
  <2> QED
    BY <2>2
<1>8. ASSUME NEW p \in P, i <= p PROVE FirstOf(P, i) <= p
  <2>1. p \in S
    BY <1>5, <1>8
  <2> QED
    BY <1>2, <1>4, <2>1
<1> QED
  BY <1>7, <1>8

\* The positions an iterator is for
Unfit == {i \in 0 .. N - 1 : ~Fits("first", i)}
Stop == FirstOf(Unfit, 0)
Mine(c) ==
    CASE kind = "partition" -> {i \in 0 .. N - 1 : Fits(c, i)}
      [] kind = "span" -> IF c = "first" THEN 0 .. Stop - 1 ELSE Stop .. N - 1
      [] kind = "filter" /\ c = "first" -> {i \in 0 .. N - 1 : Fits("first", i)}
      [] kind = "takeWhile" /\ c = "first" -> 0 .. Stop - 1
      [] kind = "slice" /\ c = "first" -> Max({from, 0}) .. Min({until, N}) - 1
      [] OTHER -> {}

Opened == /\ kind \in Kind \cup {"none"}
          /\ source \in Seq(BOOLEAN)
          /\ from \in Int /\ until \in Int

LEMMA StopIs ==
  ASSUME Opened
  PROVE  /\ N \in Nat /\ Stop \in 0 .. N
         /\ \A i \in 0 .. Stop - 1 : Fits("first", i)
         /\ Stop < N => ~Fits("first", Stop)
<1>1. N \in Nat
  BY LenProperties DEF Opened, N
<1>2. Unfit \in SUBSET (0 .. N - 1) /\ 0 \in 0 .. N
  BY <1>1 DEF Unfit
<1>3. /\ Stop \in 0 .. N
      /\ Stop < N => Stop \in Unfit
      /\ \A p \in Unfit : 0 <= p => Stop <= p
  BY <1>1, <1>2, FirstIs DEF Stop
<1>4. ASSUME NEW i \in 0 .. Stop - 1 PROVE Fits("first", i)
  <2>1. i \in 0 .. N - 1 /\ 0 <= i /\ ~(Stop <= i)
    BY <1>1, <1>3
  <2> QED
    BY <1>3, <2>1 DEF Unfit
<1> QED
  BY <1>1, <1>3, <1>4 DEF Unfit

\* An element fits one of the two.
LEMMA FitsOne ==
  ASSUME Opened, NEW i \in 0 .. N - 1
  PROVE  Fits("first", i) <=> ~Fits("second", i)
<1>1. N \in Nat /\ source[i + 1] \in BOOLEAN
  <2>1. N \in Nat /\ N = Len(source) /\ source \in Seq(BOOLEAN)
    BY LenProperties DEF Opened, N
  <2>2. i + 1 \in 1 .. Len(source)
    BY <2>1
  <2> QED
    BY <2>1, <2>2, ElementOfSeq
<1>2. /\ Fits("first", i) <=> (source[i + 1] = TRUE)
      /\ Fits("second", i) <=> (source[i + 1] = FALSE)
  BY DEF Fits
<1> QED
  BY <1>1, <1>2

LEMMA MineAre ==
  ASSUME Opened
  PROVE  /\ \A c \in Side : Mine(c) \in SUBSET (0 .. N - 1)
         /\ Mine("first") \cap Mine("second") = {}
<1>1. N \in Nat /\ Stop \in 0 .. N
  BY StopIs
<1>2. kind \in {"partition", "span", "filter", "takeWhile", "slice", "none"}
  BY DEF Opened, Kind
<1>3. Mine("first") \in SUBSET (0 .. N - 1)
  <2>1. CASE kind = "slice"
    <3>1. /\ Max({from, 0}) = IF from >= 0 THEN from ELSE 0
          /\ Min({until, N}) = IF until <= N THEN until ELSE N
          /\ from \in Int /\ until \in Int
      <4>1. from \in Int /\ until \in Int
        BY DEF Opened
      <4> QED
        BY <1>1, <4>1, Extremes
    <3>2. Mine("first") = Max({from, 0}) .. Min({until, N}) - 1
      BY <2>1 DEF Mine
    <3> QED
      BY <1>1, <3>1, <3>2
  <2>2. CASE kind # "slice"
    BY <1>1, <1>2, <2>2 DEF Mine
  <2> QED
    BY <2>1, <2>2
<1>4. Mine("second") \in SUBSET (0 .. N - 1)
  BY <1>1, <1>2 DEF Mine
<1>5. Mine("first") \cap Mine("second") = {}
  <2>1. CASE kind = "partition"
    BY <2>1, FitsOne DEF Mine
  <2>2. CASE kind = "span"
    BY <1>1, <2>2 DEF Mine
  <2>3. CASE kind \notin {"partition", "span"}
    BY <2>3 DEF Mine
  <2> QED
    BY <2>1, <2>2, <2>3
<1> QED
  BY <1>3, <1>4, <1>5 DEF Side

LEMMA SelectedIs ==
  ASSUME N \in Nat, NEW P \in SUBSET (0 .. N - 1)
  PROVE  Lists(Selected(P), P)
<1>1. P \in SUBSET Nat
  <2>1. 0 .. N - 1 \subseteq Nat
    OBVIOUS
  <2> QED
    BY <2>1
<1>2. Selected(P) = Listing(P)[N]
  BY DEF Selected, Listing
<1>3. Below(P, N) = P
  <2>1. \A p \in P : p < N
    OBVIOUS
  <2> QED
    BY <2>1 DEF Below
<1> QED
  BY <1>1, <1>2, <1>3, ListingIs

LEMMA RunIs ==
  ASSUME NEW a \in Nat, NEW b \in Int
  PROVE  Lists(Run(a, b), a .. b)
BY ListsRun DEF Run

\* Each iterator's share lists the positions it is for.
LEMMA ShareIs ==
  ASSUME Opened, NEW c \in Side
  PROVE  Lists(Share(c), Mine(c))
<1>1. N \in Nat /\ Stop \in 0 .. N
  BY StopIs
<1>2. kind \in {"partition", "span", "filter", "takeWhile", "slice", "none"}
  BY DEF Opened, Kind
<1>3. Prefix = Run(0, Stop - 1) /\ Lists(Prefix, 0 .. Stop - 1)
  BY <1>1, RunIs DEF Prefix, Stop, Unfit
<1>4. Mine(c) \in SUBSET (0 .. N - 1)
  BY MineAre
<1>5. CASE kind = "partition" \/ (kind = "filter" /\ c = "first")
  <2>1. Share(c) = Selected(Mine(c))
    BY <1>5 DEF Share, Mine
  <2> QED
    BY <1>1, <1>4, <2>1, SelectedIs
<1>6. CASE kind = "span" /\ c = "first"
  BY <1>3, <1>6 DEF Share, Mine
<1>7. CASE kind = "span" /\ c # "first"
  <2>1. Share(c) = Run(Len(Prefix), N - 1) /\ Mine(c) = Stop .. N - 1
    BY <1>7 DEF Share, Mine
  <2>2. Len(Prefix) = Stop
    BY <1>1, <1>3 DEF Run
  <2> QED
    BY <1>1, <2>1, <2>2, RunIs
<1>8. CASE kind = "takeWhile" /\ c = "first"
  BY <1>3, <1>8 DEF Share, Mine
<1>9. CASE kind = "slice" /\ c = "first"
  <2> DEFINE a == Max({from, 0})
             b == Min({until, N}) - 1
  <2>1. Share(c) = Run(a, b) /\ Mine(c) = a .. b
    BY <1>9 DEF Share, Mine
  <2>2. a \in Nat /\ b \in Int
    <3>1. from \in Int /\ until \in Int
      BY DEF Opened
    <3>2. a \in Int /\ a >= 0 /\ b \in Int
      BY <1>1, <3>1, Extremes
    <3> QED
      BY <3>2
  <2> HIDE DEF a, b
  <2> QED
    BY <2>1, <2>2, RunIs
<1>10. CASE kind = "none" \/ (kind \notin {"partition", "span"} /\ c # "first")
  <2>1. Share(c) = <<>> /\ Mine(c) = {}
    BY <1>10, <1>2 DEF Share, Mine
  <2> QED
    BY <2>1, ListsNone
<1> QED
  BY <1>2, <1>5, <1>6, <1>7, <1>8, <1>9, <1>10

-----------------------------------------------------------------------------
(* The iterators' state                                                    *)

ItType(s) ==
    /\ s \in [index : 0 .. N, hdDefined : BOOLEAN, lookahead : [Side -> Seq(0 .. N - 1)],
              ended : BOOLEAN, remaining : Int]
    /\ s.hdDefined => s.index > 0

\* The positions before p that iterator c is for
Passed(c, p) == {i \in Mine(c) : i < p}
\* What was taken from the source, was delivered or is in a queue, in order.
Held(s) == \A c \in Side : Lists(out[c] \o s.lookahead[c], Passed(c, Cursor(s)))
\* There is more to deliver.
Due(c, s) == s.lookahead[c] # <<>> \/ \E i \in Mine(c) : Cursor(s) <= i
More(c) == Len(out[c]) < Len(Share(c))

OfKind(s) ==
    /\ kind = "span" =>
         /\ s.lookahead["second"] = <<>>
         /\ IF s.ended THEN Stop <= Cursor(s) ELSE Cursor(s) <= Stop
    /\ kind \in {"filter", "takeWhile", "slice"} => s.lookahead["first"] = <<>>
    /\ kind = "takeWhile" =>
         /\ IF s.ended THEN ~s.hdDefined /\ Stop < Cursor(s) ELSE Cursor(s) <= Stop
         /\ s.hdDefined => Cursor(s) < Stop
    /\ kind = "slice" =>
         /\ ~s.hdDefined
         /\ s.index < N => s.remaining = until - s.index /\ Max({from, 0}) <= s.index

\* The elements taken from the source, and no others, have been delivered or
\* wait in the right queue, and "yes" was the truth and still is.
IterInv ==
    /\ Opened
    /\ ItType(it)
    /\ out \in [Side -> Seq(0 .. N - 1)] /\ says \in [Side -> {"yes", "no", "?"}]
    /\ kind = "none" => /\ source = <<>> /\ it = Fresh
                        /\ out = [c \in Side |-> <<>>] /\ says = [c \in Side |-> "?"]
    /\ Held(it) /\ OfKind(it)
    /\ \A c \in Side : says[c] = "yes" => c \in Used /\ More(c)
    /\ kind = "span" /\ says["first"] = "yes" => it.lookahead["first"] # <<>>

LEMMA CursorIs ==
  ASSUME Opened, NEW s, ItType(s)
  PROVE  /\ N \in Nat /\ Cursor(s) \in 0 .. N
         /\ BufferedHasNext(s) <=> Cursor(s) < N
         /\ s.hdDefined => Cursor(s) < N
<1>1. N \in Nat
  BY StopIs
<1>2. s.index \in 0 .. N /\ s.hdDefined \in BOOLEAN /\ (s.hdDefined => s.index > 0)
  BY DEF ItType
<1> QED
  BY <1>1, <1>2 DEF Cursor, BufferedHasNext

LEMMA Advanced ==
  ASSUME Opened, NEW s, ItType(s), NEW stop \in Cursor(s) .. N
  PROVE  LET r == AdvancedTo(stop, s)
         IN  /\ ItType(r) /\ Cursor(r) = stop
             /\ r.hdDefined <=> stop < N
             /\ r.lookahead = s.lookahead /\ r.ended = s.ended
<1> DEFINE r == AdvancedTo(stop, s)
           i == IF stop < N THEN stop + 1 ELSE stop
           h == stop < N
<1>1. N \in Nat /\ Cursor(s) \in 0 .. N /\ stop \in 0 .. N
  BY CursorIs
<1>2. r = [s EXCEPT !.index = i, !.hdDefined = h]
  <2>1. CASE stop < N
    <3>1. h = TRUE
      BY <2>1
    <3> HIDE DEF h
    <3> QED
      BY <2>1, <3>1 DEF AdvancedTo
  <2>2. CASE ~(stop < N)
    <3>1. h = FALSE
      BY <2>2
    <3> HIDE DEF h
    <3> QED
      BY <2>2, <3>1 DEF AdvancedTo
  <2> QED
    BY <2>1, <2>2
<1>3. s \in [index : 0 .. N, hdDefined : BOOLEAN, lookahead : [Side -> Seq(0 .. N - 1)],
             ended : BOOLEAN, remaining : Int]
  BY DEF ItType
<1>4. i \in 0 .. N /\ h \in BOOLEAN /\ (h => i > 0) /\ (h <=> stop < N)
      /\ (IF h THEN i - 1 ELSE i) = stop
  BY <1>1
<1> HIDE DEF i, h, r
<1>5. /\ r \in [index : 0 .. N, hdDefined : BOOLEAN, lookahead : [Side -> Seq(0 .. N - 1)],
                ended : BOOLEAN, remaining : Int]
      /\ r.index = i /\ r.hdDefined = h /\ r.lookahead = s.lookahead /\ r.ended = s.ended
  BY <1>2, <1>3, <1>4
<1>6. ItType(r) /\ Cursor(r) = stop
  BY <1>4, <1>5 DEF ItType, Cursor
<1> QED
  BY <1>4, <1>5, <1>6 DEF r

LEMMA Queued ==
  ASSUME Opened, NEW s, ItType(s), NEW stop \in Cursor(s) .. N, NEW d \in Side
  PROVE  LET r == QueuedTo(stop, d, s)
         IN  /\ ItType(r) /\ Cursor(r) = stop
             /\ r.hdDefined <=> stop < N
             /\ r.lookahead = [s.lookahead EXCEPT ![d] = @ \o Run(Cursor(s), stop - 1)]
             /\ r.ended = s.ended
<1> DEFINE q == AdvancedTo(stop, s)
           r == QueuedTo(stop, d, s)
           u == Run(Cursor(s), stop - 1)
<1>1. N \in Nat /\ Cursor(s) \in 0 .. N /\ stop \in 0 .. N
  BY CursorIs
<1>2. /\ ItType(q) /\ Cursor(q) = stop
      /\ q.hdDefined <=> stop < N
      /\ q.lookahead = s.lookahead /\ q.ended = s.ended
  BY Advanced
<1>3. u \in Seq(0 .. N - 1)
  <2>1. Lists(u, Cursor(s) .. stop - 1)
    BY <1>1, RunIs
  <2>2. Cursor(s) .. stop - 1 \subseteq 0 .. N - 1
    BY <1>1
  <2> QED
    BY <2>1, <2>2, SeqMonotonic DEF Lists
<1>4. r = [q EXCEPT !.lookahead[d] = @ \o u]
  BY DEF QueuedTo
<1> HIDE DEF q, r, u
<1>5. /\ q \in [index : 0 .. N, hdDefined : BOOLEAN, lookahead : [Side -> Seq(0 .. N - 1)],
                ended : BOOLEAN, remaining : Int]
      /\ q.hdDefined => q.index > 0
  BY <1>2 DEF ItType
<1> DEFINE la == [q.lookahead EXCEPT ![d] = @ \o u]
<1>6. la \in [Side -> Seq(0 .. N - 1)]
  <2>1. q.lookahead[d] \in Seq(0 .. N - 1)
    BY <1>5
  <2>2. q.lookahead[d] \o u \in Seq(0 .. N - 1)
    BY <1>3, <2>1, ConcatProperties
  <2> QED
    BY <1>5, <2>2
<1>7. r = [q EXCEPT !.lookahead = la]
  BY <1>4, <1>5
<1> HIDE DEF la
<1>8. /\ r \in [index : 0 .. N, hdDefined : BOOLEAN, lookahead : [Side -> Seq(0 .. N - 1)],
                ended : BOOLEAN, remaining : Int]
      /\ r.index = q.index /\ r.hdDefined = q.hdDefined /\ r.lookahead = la /\ r.ended = q.ended
  BY <1>5, <1>6, <1>7
<1>9. ItType(r) /\ Cursor(r) = Cursor(q)
  BY <1>5, <1>8 DEF ItType, Cursor
<1>10. r.lookahead = [s.lookahead EXCEPT ![d] = @ \o u]
  BY <1>2, <1>8 DEF la
<1> QED
  BY <1>2, <1>8, <1>9, <1>10 DEF r, u

\* Passing elements that are not for c changes nothing for c; a queue that
\* gets all the elements passed has what c is for, if they all are.
LEMMA PassedNone ==
  ASSUME Opened, NEW c \in Side, NEW p \in 0 .. N, NEW q \in p .. N,
         \A i \in p .. q - 1 : i \notin Mine(c)
  PROVE  Passed(c, q) = Passed(c, p)
<1>1. N \in Nat /\ Mine(c) \in SUBSET (0 .. N - 1)
  BY StopIs, MineAre
<1>2. \A i \in Mine(c) : i < q <=> i < p
  BY <1>1
<1> QED
  BY <1>2 DEF Passed

LEMMA PassedAll ==
  ASSUME Opened, NEW c \in Side, NEW p \in 0 .. N, NEW q \in p .. N,
         \A i \in p .. q - 1 : i \in Mine(c), NEW s, Lists(s, Passed(c, p)),
         NEW t, Lists(t, p .. q - 1)
  PROVE  Lists(s \o t, Passed(c, q))
<1>1. N \in Nat /\ Mine(c) \in SUBSET (0 .. N - 1)
  BY StopIs, MineAre
<1>2. Passed(c, q) = Passed(c, p) \cup (p .. q - 1)
  <2>1. \A i \in Mine(c) : i < q <=> i < p \/ i \in p .. q - 1
    BY <1>1
  <2> QED
    BY <2>1 DEF Passed
<1>3. Passed(c, p) \in SUBSET Nat /\ p .. q - 1 \in SUBSET Nat
      /\ \A i \in Passed(c, p), j \in p .. q - 1 : i < j
  <2>1. \A i \in Passed(c, p) : i \in 0 .. N - 1 /\ i < p
    BY <1>1 DEF Passed
  <2> QED
    BY <1>1, <2>1
<1> QED
  BY <1>2, <1>3, ListsConcat

-----------------------------------------------------------------------------
(* Looking ahead: hasNext of one iterator tells the truth about it and keeps *)
(* for the other what that is for.                                         *)

LookGood(c, s) ==
    /\ ItType(s) /\ Held(s) /\ OfKind(s)
    /\ HasNext(c, s) <=> Due(c, s)
    /\ Due(c, s) /\ s.lookahead[c] = <<>> => Cursor(s) \in Mine(c)
    /\ \A d \in Side : it.lookahead[d] # <<>> => s.lookahead[d] # <<>>

LEMMA SidesAre == /\ Side = {"first", "second"}
                  /\ \A c \in Side : Other(c) \in Side /\ Other(c) # c
                  /\ \A c, d \in Side : d = c \/ d = Other(c)
BY DEF Side, Other

LEMMA Regroup ==
  ASSUME NEW a \in Seq(Nat), NEW b \in Seq(Nat), NEW c \in Seq(Nat)
  PROVE  a \o (b \o c) = (a \o b) \o c
OBVIOUS

LEMMA LongerQueue ==
  ASSUME NEW a \in Seq(Nat), NEW b \in Seq(Nat), a # <<>>
  PROVE  a \o b # <<>>
OBVIOUS

\* A queue is extended by elements it is for, that were passed.
LEMMA HeldMore ==
  ASSUME IterInv, NEW d \in Side, NEW q \in Cursor(it) .. N,
         \A i \in Cursor(it) .. q - 1 : i \in Mine(d)
  PROVE  Lists(out[d] \o (it.lookahead[d] \o Run(Cursor(it), q - 1)), Passed(d, q))
<1> DEFINE p == Cursor(it)
           u == Run(p, q - 1)
<1>1. N \in Nat /\ p \in 0 .. N /\ q \in p .. N /\ p \in Nat /\ q - 1 \in Int
  BY CursorIs DEF IterInv
<1>2. Lists(u, p .. q - 1)
  BY <1>1, RunIs
<1>3. Lists(out[d] \o it.lookahead[d], Passed(d, p))
  BY DEF IterInv, Held
<1>4. Lists((out[d] \o it.lookahead[d]) \o u, Passed(d, q))
  <2> HIDE DEF p, u
  <2>1. \A i \in p .. q - 1 : i \in Mine(d)
    BY DEF p
  <2> QED
    BY <1>1, <1>2, <1>3, <2>1, PassedAll DEF IterInv
<1>5. out[d] \in Seq(Nat) /\ it.lookahead[d] \in Seq(Nat) /\ u \in Seq(Nat)
  <2>1. out[d] \in Seq(0 .. N - 1) /\ it.lookahead[d] \in Seq(0 .. N - 1)
    BY DEF IterInv, ItType
  <2>2. 0 .. N - 1 \subseteq Nat /\ p .. q - 1 \subseteq Nat
    BY <1>1
  <2>3. u \in Seq(p .. q - 1)
    BY <1>2 DEF Lists
  <2> HIDE DEF p, u
  <2> QED
    BY <2>1, <2>2, <2>3, SeqMonotonic
<1> HIDE DEF u
<1>6. out[d] \o (it.lookahead[d] \o u) = (out[d] \o it.lookahead[d]) \o u
  <2> DEFINE a == out[d]
             b == it.lookahead[d]
  <2>1. a \in Seq(Nat) /\ b \in Seq(Nat)
    BY <1>5
  <2> HIDE DEF a, b
  <2>2. a \o (b \o u) = (a \o b) \o u
    BY <1>5, <2>1, Regroup
  <2> QED
    BY <2>2 DEF a, b
<1> QED
  BY <1>4, <1>6 DEF u

LEMMA LookPartition ==
  ASSUME IterInv, kind = "partition", NEW c \in Side
  PROVE  LookGood(c, Looked(c))
<1> DEFINE P == {i \in 0 .. N - 1 : Fits(c, i)}
           stop == FirstOf(P, Cursor(it))
           d == Other(c)
           s == Skip(c, it)
<1>1. /\ Opened /\ ItType(it) /\ Held(it) /\ OfKind(it)
      /\ N \in Nat /\ Cursor(it) \in 0 .. N
      /\ BufferedHasNext(it) <=> Cursor(it) < N
  BY CursorIs DEF IterInv
<1>2. \A e \in Side : Mine(e) = {i \in 0 .. N - 1 : Fits(e, i)}
  BY DEF Mine
<1>3. d \in Side /\ d # c /\ \A e \in Side : e = c \/ e = d
  BY SidesAre
<1>4. CASE it.lookahead[c] # <<>>
  <2>1. Looked(c) = it /\ HasNext(c, it) /\ Due(c, it)
    BY <1>4 DEF Looked, HasNext, Due
  <2> QED
    BY <1>1, <1>4, <2>1 DEF LookGood
<1>5. CASE it.lookahead[c] = <<>>
  <2>1. /\ stop \in Cursor(it) .. N
        /\ stop < N => stop \in P
        /\ \A p \in P : Cursor(it) <= p => stop <= p
    BY <1>1, FirstIs
  <2>2. Looked(c) = s /\ s = QueuedTo(stop, d, it)
    BY <1>5 DEF Looked, Skip
  <2> HIDE DEF d, s, stop
  <2>3. /\ ItType(s) /\ Cursor(s) = stop
        /\ s.hdDefined <=> stop < N
        /\ s.lookahead = [it.lookahead EXCEPT ![d] = @ \o Run(Cursor(it), stop - 1)]
        /\ s.ended = it.ended
    <3>1. LET r == QueuedTo(stop, d, it)
          IN  /\ ItType(r) /\ Cursor(r) = stop
              /\ r.hdDefined <=> stop < N
              /\ r.lookahead = [it.lookahead EXCEPT ![d] = @ \o Run(Cursor(it), stop - 1)]
              /\ r.ended = it.ended
      BY <1>1, <1>3, <2>1, Queued
    <3> QED
      BY <2>2, <3>1
  <2>4. it.lookahead \in [Side -> Seq(0 .. N - 1)]
    BY <1>1 DEF ItType
  <2>5. /\ s.lookahead[c] = <<>>
        /\ s.lookahead[d] = it.lookahead[d] \o Run(Cursor(it), stop - 1)
    BY <1>3, <1>5, <2>3, <2>4
  <2>6. \A i \in Cursor(it) .. stop - 1 : i \notin Mine(c) /\ i \in Mine(d)
    <3> SUFFICES ASSUME NEW i \in Cursor(it) .. stop - 1 PROVE i \notin Mine(c) /\ i \in Mine(d)
      OBVIOUS
    <3>1. i \in 0 .. N - 1 /\ Cursor(it) <= i /\ ~(stop <= i)
      BY <1>1, <2>1
    <3>2. ~Fits(c, i)
      BY <2>1, <3>1
    <3>3. Fits(d, i)
      BY <1>1, <1>3, <3>1, <3>2, FitsOne, SidesAre
    <3> QED
      BY <1>2, <1>3, <3>1, <3>2, <3>3
  <2>7. Held(s)
    <3>1. Lists(out[c] \o s.lookahead[c], Passed(c, stop))
      <4>1. Passed(c, stop) = Passed(c, Cursor(it))
        BY <1>1, <2>1, <2>6, PassedNone
      <4> QED
        BY <1>1, <1>5, <2>5, <4>1 DEF Held
    <3>2. Lists(out[d] \o s.lookahead[d], Passed(d, stop))
      BY <1>3, <2>1, <2>5, <2>6, HeldMore
    <3> QED
      BY <1>3, <2>3, <3>1, <3>2 DEF Held
  <2>8. HasNext(c, s) <=> stop < N
    <3>1. BufferedHasNext(s) <=> stop < N
      BY <1>1, <2>3, CursorIs
    <3> QED
      BY <2>5, <3>1 DEF HasNext
  <2>9. /\ Due(c, s) <=> stop < N
        /\ stop < N => stop \in Mine(c)
    <3>1. P = Mine(c) /\ \A i \in P : i \in 0 .. N - 1
      BY <1>2
    <3>2. ASSUME NEW i \in Mine(c), stop <= i PROVE stop < N
      BY <1>1, <2>1, <3>1, <3>2
    <3>3. ASSUME stop < N PROVE stop \in Mine(c) /\ stop <= stop
      BY <1>1, <2>1, <3>1, <3>3
    <3> QED
      BY <2>3, <2>5, <3>2, <3>3 DEF Due
  <2>10. ASSUME it.lookahead[d] # <<>> PROVE s.lookahead[d] # <<>>
    <3> DEFINE u == Run(Cursor(it), stop - 1)
    <3>1. it.lookahead[d] \in Seq(0 .. N - 1)
      BY <1>3, <2>4
    <3>2. u \in Seq(0 .. N - 1)
      <4>1. Lists(u, Cursor(it) .. stop - 1)
        BY <1>1, <2>1, RunIs
      <4>2. Cursor(it) .. stop - 1 \subseteq 0 .. N - 1
        BY <1>1, <2>1
      <4> QED
        BY <4>1, <4>2, SeqMonotonic DEF Lists
    <3> HIDE DEF u
    <3> QED
      BY <2>5, <2>10, <3>1, <3>2, ConcatEqualIffEmpty, ConcatProperties, EmptySeq DEF u
  <2>11. OfKind(s)
    BY DEF OfKind
  <2> QED
    BY <1>3, <1>5, <2>2, <2>3, <2>5, <2>7, <2>8, <2>9, <2>10, <2>11 DEF LookGood
<1> QED
  BY <1>4, <1>5

LEMMA NowEnded ==
  ASSUME Opened, NEW s, ItType(s)
  PROVE  LET r == [s EXCEPT !.ended = TRUE]
         IN  /\ ItType(r) /\ Cursor(r) = Cursor(s) /\ r.ended = TRUE
             /\ r.lookahead = s.lookahead /\ r.hdDefined = s.hdDefined
<1> DEFINE r == [s EXCEPT !.ended = TRUE]
<1>1. s \in [index : 0 .. N, hdDefined : BOOLEAN, lookahead : [Side -> Seq(0 .. N - 1)],
             ended : BOOLEAN, remaining : Int]
  BY DEF ItType
<1>2. s.hdDefined => s.index > 0
  BY DEF ItType
<1>3. r = [s EXCEPT !.ended = TRUE]
  OBVIOUS
<1> HIDE DEF r
<1>4. /\ r \in [index : 0 .. N, hdDefined : BOOLEAN, lookahead : [Side -> Seq(0 .. N - 1)],
                ended : BOOLEAN, remaining : Int]
      /\ r.index = s.index /\ r.hdDefined = s.hdDefined /\ r.ended = TRUE
      /\ r.lookahead = s.lookahead
  BY <1>1, <1>3
<1>5. ItType(r) /\ Cursor(r) = Cursor(s)
  BY <1>2, <1>4 DEF ItType, Cursor
<1> QED
  BY <1>4, <1>5 DEF r

LEMMA ConsumedIs ==
  ASSUME Opened, NEW s, ItType(s), Cursor(s) < N
  PROVE  LET r == Consumed(s)
         IN  /\ ItType(r) /\ Cursor(r) = Cursor(s) + 1 /\ r.index = Cursor(s) + 1
             /\ ~r.hdDefined /\ r.ended = s.ended
             /\ r.lookahead = s.lookahead /\ r.remaining = s.remaining
<1> DEFINE r == Consumed(s)
           i == Cursor(s) + 1
<1>1. N \in Nat /\ i \in 0 .. N /\ i > 0
  BY CursorIs
<1>2. s \in [index : 0 .. N, hdDefined : BOOLEAN, lookahead : [Side -> Seq(0 .. N - 1)],
             ended : BOOLEAN, remaining : Int]
  BY DEF ItType
<1>3. r = [s EXCEPT !.index = i, !.hdDefined = FALSE]
  BY DEF Consumed
<1> HIDE DEF r, i
<1>4. /\ r \in [index : 0 .. N, hdDefined : BOOLEAN, lookahead : [Side -> Seq(0 .. N - 1)],
                ended : BOOLEAN, remaining : Int]
      /\ r.index = i /\ r.hdDefined = FALSE /\ r.ended = s.ended
      /\ r.lookahead = s.lookahead /\ r.remaining = s.remaining
  BY <1>1, <1>2, <1>3
<1>5. ItType(r) /\ Cursor(r) = i
  BY <1>1, <1>4 DEF ItType, Cursor
<1> QED
  BY <1>4, <1>5 DEF r, i

\* The trailing iterator of span stands on the first element that does not fit.
LEMMA LookTrailing ==
  ASSUME IterInv, kind = "span"
  PROVE  LookGood("second", Looked("second")) /\ Looked("second").ended
<1> DEFINE stop == FirstOf(Unfit, Cursor(it))
           s == Finish(it)
           q == QueuedTo(Stop, "first", it)
<1>1. /\ Opened /\ ItType(it) /\ Held(it)
      /\ N \in Nat /\ Cursor(it) \in 0 .. N
      /\ BufferedHasNext(it) <=> Cursor(it) < N
  BY CursorIs DEF IterInv
<1>2. /\ it.lookahead["second"] = <<>>
      /\ IF it.ended THEN Stop <= Cursor(it) ELSE Cursor(it) <= Stop
  BY DEF IterInv, OfKind
<1>3. Mine("first") = 0 .. Stop - 1 /\ Mine("second") = Stop .. N - 1
  BY DEF Mine
<1>4. /\ Stop \in 0 .. N
      /\ \A i \in 0 .. Stop - 1 : Fits("first", i)
      /\ Stop < N => ~Fits("first", Stop)
  BY <1>1, StopIs
<1>5. Looked("second") = s
  BY DEF Looked
<1>6. ASSUME NEW r, r.lookahead["second"] = <<>>, ItType(r), Stop <= Cursor(r)
      PROVE  /\ HasNext("second", r) <=> Due("second", r)
             /\ Due("second", r) => Cursor(r) \in Mine("second")
  <2>1. Cursor(r) \in 0 .. N /\ (BufferedHasNext(r) <=> Cursor(r) < N)
    BY <1>1, <1>6, CursorIs
  <2>2. HasNext("second", r) <=> Cursor(r) < N
    BY <2>1 DEF HasNext
  <2>3. Due("second", r) <=> \E i \in Stop .. N - 1 : Cursor(r) <= i
    BY <1>3, <1>6 DEF Due
  <2>4. Cursor(r) < N => Cursor(r) \in Stop .. N - 1 /\ Cursor(r) <= Cursor(r)
    BY <1>1, <1>4, <1>6, <2>1
  <2>5. ASSUME NEW i \in Stop .. N - 1, Cursor(r) <= i PROVE Cursor(r) < N
    BY <1>1, <1>4, <2>1, <2>5
  <2> QED
    BY <1>3, <2>2, <2>3, <2>4, <2>5
<1>7. CASE it.ended
  <2>1. s = it /\ Stop <= Cursor(it)
    BY <1>2, <1>7 DEF Finish
  <2>2. OfKind(it)
    BY DEF IterInv
  <2> QED
    BY <1>1, <1>2, <1>5, <1>6, <1>7, <2>1, <2>2 DEF LookGood
<1>8. CASE ~it.ended
  <2>1. Cursor(it) <= Stop
    BY <1>2, <1>8
  <2>2. stop = Stop
    <3>1. Unfit \in SUBSET (0 .. N - 1)
      BY DEF Unfit
    <3>2. /\ stop \in Cursor(it) .. N
          /\ stop < N => stop \in Unfit
          /\ \A p \in Unfit : Cursor(it) <= p => stop <= p
      BY <1>1, <3>1, FirstIs
    <3> HIDE DEF stop
    <3>3. stop <= Stop
      <4>1. CASE Stop < N
        <5>1. Stop \in Unfit
          BY <1>1, <1>4, <4>1 DEF Unfit
        <5> QED
          BY <2>1, <3>2, <5>1
      <4>2. CASE Stop = N
        BY <1>1, <3>2, <4>2
      <4> QED
        BY <1>1, <1>4, <4>1, <4>2
    <3>4. Stop <= stop
      <4>1. CASE stop < N
        <5>1. ~Fits("first", stop) /\ stop \in 0 .. N - 1
          BY <3>2, <4>1 DEF Unfit
        <5> QED
          BY <1>1, <1>4, <5>1
      <4>2. CASE ~(stop < N)
        BY <1>1, <1>4, <3>2, <4>2
      <4> QED
        BY <4>1, <4>2
    <3> QED
      BY <1>1, <1>4, <3>2, <3>3, <3>4
  <2>3. s = [q EXCEPT !.ended = TRUE]
    BY <1>8, <2>2 DEF Finish, Unfit
  <2>4. Stop \in Cursor(it) .. N
    BY <1>1, <1>4, <2>1
  <2>5. /\ ItType(q) /\ Cursor(q) = Stop
        /\ q.lookahead = [it.lookahead EXCEPT !["first"] = @ \o Run(Cursor(it), Stop - 1)]
    BY <1>1, <2>4, SidesAre, Queued
  <2> HIDE DEF q, s
  <2>6. ItType(s) /\ Cursor(s) = Stop /\ s.ended = TRUE /\ s.lookahead = q.lookahead
    BY <1>1, <2>3, <2>5, NowEnded
  <2>7. it.lookahead \in [Side -> Seq(0 .. N - 1)]
    BY <1>1 DEF ItType
  <2>8. /\ s.lookahead["second"] = <<>>
        /\ s.lookahead["first"] = it.lookahead["first"] \o Run(Cursor(it), Stop - 1)
    BY <1>2, <2>5, <2>6, <2>7, SidesAre
  <2>9. \A i \in Cursor(it) .. Stop - 1 : i \in Mine("first") /\ i \notin Mine("second")
    BY <1>1, <1>3, <1>4
  <2>10. Held(s)
    <3>1. Lists(out["first"] \o s.lookahead["first"], Passed("first", Stop))
      BY <2>4, <2>8, <2>9, HeldMore, SidesAre
    <3>2. Passed("second", Stop) = Passed("second", Cursor(it))
      BY <1>1, <2>4, <2>9, PassedNone, SidesAre
    <3>3. Lists(out["second"] \o it.lookahead["second"], Passed("second", Cursor(it)))
      BY <1>1, SidesAre DEF Held
    <3>4. Lists(out["second"] \o s.lookahead["second"], Passed("second", Stop))
      BY <1>2, <2>8, <3>2, <3>3
    <3> QED
      BY <2>6, <3>1, <3>4, SidesAre DEF Held
  <2>11. OfKind(s)
    BY <1>1, <1>4, <2>6, <2>8 DEF OfKind
  <2>12. it.lookahead["first"] # <<>> => s.lookahead["first"] # <<>>
    <3> DEFINE u == Run(Cursor(it), Stop - 1)
    <3>1. it.lookahead["first"] \in Seq(Nat) /\ u \in Seq(Nat)
      <4>1. it.lookahead["first"] \in Seq(0 .. N - 1)
        BY <2>7, SidesAre
      <4>2. u \in Seq(Cursor(it) .. Stop - 1)
        <5>1. Cursor(it) \in Nat /\ Stop - 1 \in Int
          BY <1>1, <1>4
        <5>2. Lists(u, Cursor(it) .. Stop - 1)
          BY <5>1, RunIs
        <5> QED
          BY <5>2 DEF Lists
      <4>3. Cursor(it) .. Stop - 1 \subseteq Nat /\ 0 .. N - 1 \subseteq Nat
        BY <1>1
      <4> HIDE DEF u
      <4> QED
        BY <4>1, <4>2, <4>3, SeqMonotonic
    <3> HIDE DEF u
    <3> QED
      BY <2>8, <3>1, LongerQueue DEF u
  <2>13. Stop <= Cursor(s)
    BY <1>1, <1>4, <2>6
  <2> QED
    BY <1>2, <1>5, <1>6, <2>6, <2>8, <2>10, <2>11, <2>12, <2>13, SidesAre DEF LookGood
<1> QED
  BY <1>1, <1>7, <1>8

\* The leading one, as long as the trailing one delivered nothing
LEMMA LookLeading ==
  ASSUME IterInv, kind = "span", out["second"] = <<>> \/ it.lookahead["first"] # <<>>
  PROVE  /\ LookGood("first", Looked("first"))
         /\ HasNext("first", Looked("first")) => Looked("first").lookahead["first"] # <<>>
<1> DEFINE s == Advance(it)
           p == Cursor(it)
<1>1. /\ Opened /\ ItType(it) /\ Held(it) /\ OfKind(it)
      /\ N \in Nat /\ p \in 0 .. N
      /\ BufferedHasNext(it) <=> p < N
  BY CursorIs DEF IterInv
<1>2. /\ it.lookahead["second"] = <<>>
      /\ IF it.ended THEN Stop <= p ELSE p <= Stop
  BY DEF IterInv, OfKind
<1>3. Mine("first") = 0 .. Stop - 1 /\ Mine("second") = Stop .. N - 1
  BY DEF Mine
<1>4. /\ Stop \in 0 .. N
      /\ \A i \in 0 .. Stop - 1 : Fits("first", i)
      /\ Stop < N => ~Fits("first", Stop)
  BY <1>1, StopIs
<1>5. ASSUME NEW r PROVE HasNext("first", r) <=> r.lookahead["first"] # <<>>
  BY DEF HasNext
<1>6. CASE it.lookahead["first"] # <<>>
  <2>1. Looked("first") = it
    BY <1>6 DEF Looked
  <2> QED
    BY <1>1, <1>5, <1>6, <2>1 DEF LookGood, Due
<1>7. CASE it.lookahead["first"] = <<>>
  <2>1. Looked("first") = s
    BY <1>7 DEF Looked
  <2>2. p <= Stop
    <3>1. Lists(<<>> \o <<>>, Passed("second", p))
      BY <1>1, <1>2, <1>7, SidesAre DEF Held
    <3>2. <<>> \o <<>> = <<>>
      OBVIOUS
    <3>3. Passed("second", p) = {}
      <4>1. \A i \in Passed("second", p) : \E k \in 1 .. Len(<<>>) : <<>>[k] = i
        BY <3>1, <3>2 DEF Lists
      <4> QED
        BY <4>1, EmptySeq
    <3>4. \A i \in Stop .. N - 1 : ~(i < p)
      BY <1>3, <3>3 DEF Passed
    <3> HIDE DEF p
    <3>5. Stop < p => Stop \in Stop .. N - 1
      BY <1>1, <1>4
    <3> QED
      BY <1>1, <1>4, <3>4, <3>5
  <2>3. it.lookahead \in [Side -> Seq(0 .. N - 1)]
    BY <1>1 DEF ItType
  <2>4. CASE ~(p < N)
    <3>1. s = it
      BY <1>1, <2>4 DEF Advance
    <3>2. ~Due("first", it)
      BY <1>1, <1>3, <1>4, <1>7, <2>4 DEF Due
    <3> QED
      BY <1>1, <1>5, <1>7, <2>1, <3>1, <3>2 DEF LookGood
  <2>5. CASE p < N /\ ~Fits("first", p)
    <3>1. s = AdvancedTo(p, it)
      BY <1>1, <2>5 DEF Advance
    <3>2. p = Stop
      BY <1>1, <1>4, <2>2, <2>5
    <3>3. p \in Cursor(it) .. N
      BY <1>1
    <3>4. ItType(s) /\ Cursor(s) = p /\ s.lookahead = it.lookahead /\ s.ended = it.ended
      BY <1>1, <3>1, <3>3, Advanced
    <3> HIDE DEF s
    <3>5. Held(s) /\ OfKind(s)
      BY <1>1, <1>2, <3>2, <3>4 DEF Held, OfKind
    <3>6. ~Due("first", s)
      BY <1>1, <1>3, <1>7, <3>2, <3>4 DEF Due
    <3> QED
      BY <1>5, <1>7, <2>1, <3>4, <3>5, <3>6 DEF LookGood
  <2>6. CASE p < N /\ Fits("first", p)
    <3> DEFINE q == Consumed(it)
    <3>1. s = [q EXCEPT !.lookahead["first"] = Append(@, p)]
      BY <1>1, <2>6 DEF Advance
    <3>2. /\ ItType(q) /\ Cursor(q) = p + 1 /\ q.lookahead = it.lookahead /\ q.ended = it.ended
      BY <1>1, <2>6, ConsumedIs
    <3>3. p + 1 <= Stop /\ ~it.ended /\ p + 1 \in 0 .. N /\ p + 1 \in p .. N
      BY <1>1, <1>2, <1>4, <2>2, <2>6
    <3> HIDE DEF q, s
    <3> DEFINE la == [it.lookahead EXCEPT !["first"] = <<p>>]
    <3>4. Append(<<>>, p) = <<p>>
      OBVIOUS
    <3>5. q \in [index : 0 .. N, hdDefined : BOOLEAN, lookahead : [Side -> Seq(0 .. N - 1)],
                 ended : BOOLEAN, remaining : Int]
          /\ (q.hdDefined => q.index > 0)
      BY <3>2 DEF ItType
    <3>6. s = [q EXCEPT !.lookahead = la]
      BY <1>7, <3>1, <3>2, <3>4, <3>5
    <3>7. la \in [Side -> Seq(0 .. N - 1)] /\ la["first"] = <<p>> /\ la["second"] = <<>>
      <4>1. <<p>> \in Seq(0 .. N - 1)
        <5>1. p \in 0 .. N - 1
          BY <1>1, <2>6
        <5> HIDE DEF p
        <5> QED
          BY <5>1
      <4> HIDE DEF p
      <4> QED
        BY <1>2, <2>3, <4>1, SidesAre
    <3> HIDE DEF la
    <3>8. /\ s \in [index : 0 .. N, hdDefined : BOOLEAN, lookahead : [Side -> Seq(0 .. N - 1)],
                    ended : BOOLEAN, remaining : Int]
          /\ s.index = q.index /\ s.hdDefined = q.hdDefined /\ s.lookahead = la /\ s.ended = q.ended
      BY <3>5, <3>6, <3>7
    <3>9. ItType(s) /\ Cursor(s) = p + 1
      <4>1. ItType(s) /\ Cursor(s) = Cursor(q)
        BY <3>5, <3>8 DEF ItType, Cursor
      <4> QED
        BY <3>2, <4>1
    <3>10. \A i \in p .. p + 1 - 1 : i \in Mine("first") /\ i \notin Mine("second")
      BY <1>1, <1>3, <1>4, <3>3
    <3>11. Run(p, p + 1 - 1) = <<p>>
      <4>1. p + 1 - 1 = p /\ p - p + 1 = 1
        BY <1>1
      <4>2. Run(p, p) = [k \in 1 .. 1 |-> p + k - 1]
        BY <4>1 DEF Run
      <4>3. p + 1 - 1 = p
        BY <1>1
      <4> HIDE DEF p
      <4>4. [k \in 1 .. 1 |-> p + k - 1] = <<p>>
        BY <1>1, <4>3
      <4> QED
        BY <4>1, <4>2, <4>4
    <3>12. Held(s)
      <4>1. Lists(out["first"] \o (it.lookahead["first"] \o <<p>>), Passed("first", p + 1))
        <5>1. PICK m : m = p + 1
          OBVIOUS
        <5>2. m \in Cursor(it) .. N /\ m - 1 = p /\ m \in Nat
          BY <1>1, <3>3, <5>1
        <5>3. \A i \in Cursor(it) .. m - 1 : i \in Mine("first")
          <6>1. Stop \in Nat /\ Cursor(it) \in Nat /\ m - 1 = Cursor(it) /\ m <= Stop
            BY <1>1, <1>4, <3>3, <5>1
          <6> QED
            BY <1>3, <5>2, <6>1
        <5>4. Lists(out["first"] \o (it.lookahead["first"] \o Run(Cursor(it), m - 1)),
                    Passed("first", m))
          BY <5>2, <5>3, HeldMore, SidesAre
        <5>5. Run(Cursor(it), m - 1) = <<p>>
          BY <1>1, <3>11, <5>1
        <5> QED
          BY <5>1, <5>4, <5>5
      <4>2. it.lookahead["first"] \o <<p>> = <<p>>
        BY <1>7
      <4>3. Passed("second", p + 1) = Passed("second", p)
        BY <1>1, <3>3, <3>10, PassedNone, SidesAre
      <4>4. Lists(out["second"] \o it.lookahead["second"], Passed("second", p))
        BY <1>1, SidesAre DEF Held
      <4> QED
        BY <1>2, <3>7, <3>8, <3>9, <4>1, <4>2, <4>3, <4>4, SidesAre DEF Held
    <3>13. OfKind(s)
      BY <1>1, <3>2, <3>3, <3>7, <3>8, <3>9 DEF OfKind
    <3>14. s.lookahead["first"] # <<>>
      <4> HIDE DEF p
      <4>1. <<p>> # <<>>
        OBVIOUS
      <4> QED
        BY <3>7, <3>8, <4>1
    <3> QED
      BY <1>2, <1>5, <2>1, <3>9, <3>12, <3>13, <3>14, SidesAre DEF LookGood, Due
  <2> QED
    BY <2>4, <2>5, <2>6
<1> QED
  BY <1>6, <1>7

LEMMA LookForFit ==
  ASSUME IterInv, kind = "filter"
  PROVE  LookGood("first", Looked("first"))
<1> DEFINE P == {i \in 0 .. N - 1 : Fits("first", i)}
           stop == FirstOf(P, Cursor(it))
           s == AdvancedTo(stop, it)
<1>1. /\ Opened /\ ItType(it) /\ Held(it)
      /\ N \in Nat /\ Cursor(it) \in 0 .. N
      /\ it.lookahead["first"] = <<>>
  BY CursorIs DEF IterInv, OfKind
<1>2. Mine("first") = P /\ Mine("second") = {}
  BY DEF Mine
<1>3. /\ stop \in Cursor(it) .. N
      /\ stop < N => stop \in P
      /\ \A p \in P : Cursor(it) <= p => stop <= p
  BY <1>1, FirstIs
<1>4. Looked("first") = s
  BY DEF Looked, LookFilter
<1> HIDE DEF stop
<1>5. /\ ItType(s) /\ Cursor(s) = stop /\ (s.hdDefined <=> stop < N)
      /\ s.lookahead = it.lookahead
  BY <1>1, <1>3, Advanced
<1> HIDE DEF s
<1>6. \A i \in Cursor(it) .. stop - 1 : \A c \in Side : i \notin Mine(c)
  <2> SUFFICES ASSUME NEW i \in Cursor(it) .. stop - 1 PROVE i \notin P
    BY <1>2, SidesAre
  <2>1. Cursor(it) <= i /\ ~(stop <= i)
    BY <1>1, <1>3
  <2> QED
    BY <1>3, <2>1
<1>7. Held(s)
  <2>1. \A c \in Side : Passed(c, stop) = Passed(c, Cursor(it))
    BY <1>1, <1>3, <1>6, PassedNone
  <2> QED
    BY <1>1, <1>5, <2>1 DEF Held
<1>8. OfKind(s)
  BY <1>1, <1>5 DEF OfKind
<1>9. HasNext("first", s) <=> stop < N
  BY <1>5 DEF HasNext
<1>10. Due("first", s) <=> stop < N
  <2>1. \A i \in P : i < N
    BY <1>1
  <2>2. ASSUME NEW i \in P, stop <= i PROVE stop < N
    BY <1>1, <1>3, <2>1, <2>2
  <2>3. ASSUME stop < N PROVE stop \in P /\ stop <= stop
    BY <1>1, <1>3, <2>3
  <2> QED
    BY <1>1, <1>2, <1>5, <2>2, <2>3 DEF Due
<1> QED
  BY <1>2, <1>3, <1>4, <1>5, <1>7, <1>8, <1>9, <1>10 DEF LookGood

LEMMA LookForPrefix ==
  ASSUME IterInv, kind = "takeWhile"
  PROVE  LookGood("first", Looked("first"))
<1> DEFINE s == LookWhile(it)
           p == Cursor(it)
<1>1. /\ Opened /\ ItType(it) /\ Held(it) /\ OfKind(it)
      /\ N \in Nat /\ p \in 0 .. N
      /\ it.hdDefined => p < N
      /\ it.lookahead["first"] = <<>>
      /\ IF it.ended THEN ~it.hdDefined /\ Stop < p ELSE p <= Stop
      /\ it.hdDefined => p < Stop
  BY CursorIs DEF IterInv, OfKind
<1>2. Mine("first") = 0 .. Stop - 1 /\ Mine("second") = {}
  BY DEF Mine
<1>3. /\ Stop \in 0 .. N
      /\ \A i \in 0 .. Stop - 1 : Fits("first", i)
      /\ Stop < N => ~Fits("first", Stop)
  BY <1>1, StopIs
<1>4. Looked("first") = s
  BY DEF Looked
<1>5. \A r : HasNext("first", r) <=> r.hdDefined
  BY DEF HasNext
<1>6. it \in [index : 0 .. N, hdDefined : BOOLEAN, lookahead : [Side -> Seq(0 .. N - 1)],
              ended : BOOLEAN, remaining : Int]
  BY <1>1 DEF ItType
<1>7. CASE it.hdDefined
  <2>1. s = it
    BY <1>7 DEF LookWhile
  <2>2. p \in Mine("first")
    BY <1>1, <1>2, <1>3, <1>7
  <2>3. p <= p
    BY <1>1
  <2> QED
    BY <1>1, <1>4, <1>5, <1>7, <2>1, <2>2, <2>3 DEF LookGood, Due
<1>8. CASE ~it.hdDefined /\ (it.ended \/ it.index >= N)
  <2>1. s = it
    BY <1>8 DEF LookWhile
  <2>2. p >= Stop
    BY <1>1, <1>3, <1>6, <1>8 DEF Cursor
  <2>3. ~Due("first", it)
    BY <1>1, <1>2, <1>3, <2>2 DEF Due
  <2> QED
    BY <1>1, <1>4, <1>5, <1>8, <2>1, <2>3 DEF LookGood
<1>9. CASE ~it.hdDefined /\ ~(it.ended \/ it.index >= N)
  <2> DEFINE h == Fits("first", it.index)
             e == ~Fits("first", it.index)
             k == it.index + 1
  <2>1. s = [it EXCEPT !.index = k, !.hdDefined = h, !.ended = e]
    BY <1>6, <1>9 DEF LookWhile
  <2>2. /\ p = it.index /\ p < N /\ k \in 0 .. N /\ k > 0 /\ p <= Stop /\ k - 1 = p /\ k = p + 1
    BY <1>1, <1>6, <1>9 DEF Cursor
  <2>3. h \in BOOLEAN /\ e \in BOOLEAN /\ (e <=> ~h) /\ (h <=> Fits("first", p))
    BY <2>2 DEF Fits
  <2> HIDE DEF h, e, k, s, p
  <2>4. /\ s \in [index : 0 .. N, hdDefined : BOOLEAN, lookahead : [Side -> Seq(0 .. N - 1)],
                  ended : BOOLEAN, remaining : Int]
        /\ s.index = k /\ s.hdDefined = h /\ s.ended = e /\ s.lookahead = it.lookahead
    BY <1>6, <2>1, <2>2, <2>3
  <2>5. ItType(s) /\ Cursor(s) = IF h THEN p ELSE p + 1
    BY <2>2, <2>4 DEF ItType, Cursor
  <2>6. (h <=> p < Stop) /\ (~h <=> p = Stop)
    BY <1>1, <1>3, <2>2, <2>3
  <2>7. OfKind(s)
    BY <1>1, <1>3, <2>2, <2>3, <2>4, <2>5, <2>6 DEF OfKind
  <2>8. Held(s)
    <3>1. CASE h
      BY <1>1, <2>4, <2>5, <3>1 DEF Held, p
    <3>2. CASE ~h
      <4>1. \A i \in p .. (p + 1) - 1 : \A c \in Side : i \notin Mine(c)
        BY <1>1, <1>2, <1>3, <2>6, <3>2, SidesAre
      <4>2. p + 1 \in p .. N
        BY <1>1, <2>2
      <4>3. \A c \in Side : Passed(c, p + 1) = Passed(c, p)
        BY <1>1, <4>1, <4>2, PassedNone
      <4> QED
        BY <1>1, <2>4, <2>5, <3>2, <4>3 DEF Held, p
    <3> QED
      BY <3>1, <3>2
  <2>9. Due("first", s) <=> h
    <3>1. CASE h
      <4>1. p \in Mine("first") /\ p <= p
        BY <1>1, <1>2, <1>3, <2>6, <3>1
      <4> QED
        BY <2>5, <3>1, <4>1 DEF Due
    <3>2. CASE ~h
      <4>1. \A i \in 0 .. Stop - 1 : ~(p + 1 <= i)
        BY <1>1, <1>3, <2>6, <3>2
      <4> QED
        BY <1>1, <1>2, <2>4, <2>5, <3>2, <4>1 DEF Due
    <3> QED
      BY <3>1, <3>2
  <2>10. h => Cursor(s) \in Mine("first")
    BY <1>1, <1>2, <1>3, <2>5, <2>6
  <2> QED
    BY <1>4, <1>5, <2>4, <2>5, <2>7, <2>8, <2>9, <2>10 DEF LookGood
<1> QED
  BY <1>7, <1>8, <1>9

LEMMA LookSlice ==
  ASSUME IterInv, kind = "slice"
  PROVE  LookGood("first", Looked("first"))
<1> DEFINE a == Max({from, 0})
           b == Min({until, N})
<1>1. /\ Opened /\ ItType(it) /\ Held(it) /\ OfKind(it)
      /\ N \in Nat /\ Cursor(it) \in 0 .. N
      /\ it.lookahead["first"] = <<>> /\ ~it.hdDefined
      /\ it.index < N => it.remaining = until - it.index /\ a <= it.index
      /\ from \in Int /\ until \in Int
  BY CursorIs DEF IterInv, OfKind, Opened
<1>2. Cursor(it) = it.index /\ it.index \in 0 .. N
  BY <1>1 DEF Cursor
<1>3. Mine("first") = a .. b - 1
  BY DEF Mine
<1>4. /\ b = IF until <= N THEN until ELSE N
      /\ a = IF from >= 0 THEN from ELSE 0
  <2>1. until \in Int /\ from \in Int /\ N \in Int
    BY <1>1
  <2> QED
    BY <2>1, Extremes
<1>5. Looked("first") = it /\ (HasNext("first", it) <=> it.remaining > 0 /\ it.index < N)
  BY DEF Looked, HasNext
<1> HIDE DEF a, b
<1>6. ASSUME it.remaining > 0, it.index < N
      PROVE  it.index \in a .. b - 1 /\ it.index <= it.index
  BY <1>1, <1>2, <1>4, <1>6
<1>7. ASSUME NEW i \in a .. b - 1, it.index <= i
      PROVE  it.remaining > 0 /\ it.index < N
  BY <1>1, <1>2, <1>4, <1>7
<1>8. Due("first", it) <=> it.remaining > 0 /\ it.index < N
  BY <1>1, <1>2, <1>3, <1>6, <1>7 DEF Due
<1> QED
  BY <1>1, <1>2, <1>3, <1>5, <1>6, <1>8 DEF LookGood

\* The shares are settled when the iterators are made.
LEMMA SharesStay ==
  ASSUME UNCHANGED <<kind, source, from, until>>
  PROVE  /\ N' = N /\ Stop' = Stop
         /\ \A c : Mine(c)' = Mine(c) /\ Share(c)' = Share(c)
<1>1. N' = N /\ kind' = kind /\ from' = from /\ until' = until /\ source' = source
  BY DEF N
<1>2. \A c, i : Fits(c, i)' = Fits(c, i)
  BY <1>1 DEF Fits
<1>3. Unfit' = Unfit
  BY <1>1, <1>2 DEF Unfit
<1>4. \A P, i : FirstOf(P, i)' = FirstOf(P, i)
  BY <1>1 DEF FirstOf
<1>5. Stop' = Stop
  BY <1>3, <1>4 DEF Stop
<1>6. \A P : Selected(P)' = Selected(P)
  BY <1>1 DEF Selected
<1>7. \A c : Mine(c)' = Mine(c)
  BY <1>1, <1>2, <1>5 DEF Mine
<1>8. Prefix' = Prefix
  BY <1>3, <1>4 DEF Prefix, Unfit
<1>9. \A c : Share(c)' = Share(c)
  BY <1>1, <1>2, <1>6, <1>8 DEF Share
<1> QED
  BY <1>1, <1>5, <1>7, <1>9

LEMMA InvStays ==
  ASSUME IterInv, UNCHANGED <<kind, source, from, until>>,
         NEW s, it' = s, ItType(s), OfKind(s),
         \A c \in Side : Lists(out'[c] \o s.lookahead[c], Passed(c, Cursor(s)))
  PROVE  Opened' /\ ItType(it)' /\ Held(it)' /\ OfKind(it)'
<1>1. /\ N' = N /\ Stop' = Stop
      /\ \A c : Mine(c)' = Mine(c) /\ Share(c)' = Share(c)
  BY SharesStay
<1>2. Opened'
  BY DEF IterInv, Opened
<1>3. ItType(it)'
  BY <1>1 DEF ItType
<1>4. Cursor(it)' = Cursor(s)
  BY DEF Cursor
<1>5. Held(it)'
  BY <1>1, <1>4 DEF Held, Passed
<1>6. OfKind(it)'
  BY <1>1, <1>4 DEF OfKind
<1> QED
  BY <1>2, <1>3, <1>5, <1>6

\* What was delivered begins the share, and more of it is due until it ends.
LEMMA DueIsMore ==
  ASSUME IterInv, NEW s, ItType(s), NEW c \in Side, NEW o \in Seq(0 .. N - 1),
         Lists(o \o s.lookahead[c], Passed(c, Cursor(s)))
  PROVE  /\ Len(o) <= Len(Share(c)) /\ \A i \in 1 .. Len(o) : o[i] = Share(c)[i]
         /\ Len(o) < Len(Share(c)) <=> Due(c, s)
<1> DEFINE t == s.lookahead[c]
           P == Mine(c)
           Q == Passed(c, Cursor(s))
           u == Share(c)
<1>1. Opened /\ N \in Nat /\ Cursor(s) \in 0 .. N
  BY CursorIs DEF IterInv
<1>2. P \in SUBSET (0 .. N - 1) /\ Lists(u, P)
  BY <1>1, MineAre, ShareIs
<1>3. Q \in SUBSET P /\ \A q \in Q, p \in P \ Q : q < p
  BY <1>1, <1>2 DEF Passed
<1>4. o \in Seq(Nat) /\ t \in Seq(Nat) /\ o \o t \in Seq(Nat)
  <2>1. o \in Seq(0 .. N - 1) /\ t \in Seq(0 .. N - 1)
    BY DEF ItType
  <2>2. 0 .. N - 1 \subseteq Nat
    BY <1>1
  <2> HIDE DEF t
  <2>3. o \in Seq(Nat) /\ t \in Seq(Nat)
    BY <2>1, <2>2, SeqMonotonic
  <2> QED
    BY <2>3, ConcatProperties
<1>5. Q # P <=> \E i \in P : Cursor(s) <= i
  BY <1>1, <1>2 DEF Passed
<1>6. Due(c, s) <=> t # <<>> \/ Q # P
  BY <1>5 DEF Due
<1>7. Lists(o \o t, Q)
  OBVIOUS
<1> HIDE DEF t, P, Q, u
<1>8. /\ Len(o) <= Len(u) /\ \A i \in 1 .. Len(o) : o[i] = u[i]
      /\ Len(o) < Len(u) <=> t # <<>> \/ Q # P
  BY <1>1, <1>2, <1>3, <1>4, <1>7, ListsPrefix
<1> QED
  BY <1>6, <1>8 DEF u

LEMMA LooksGood ==
  ASSUME IterInv, kind # "none", NEW c \in Used,
         kind = "span" /\ c = "first" => out["second"] = <<>> \/ it.lookahead["first"] # <<>>
  PROVE  /\ LookGood(c, Looked(c))
         /\ kind = "span" /\ c = "first" /\ HasNext(c, Looked(c))
              => Looked(c).lookahead["first"] # <<>>
         /\ kind = "span" /\ c = "second" => Looked(c).ended
<1>1. kind \in {"partition", "span", "filter", "takeWhile", "slice"}
  BY DEF IterInv, Opened, Kind
<1>2. c \in Side /\ (kind \notin {"partition", "span"} => c = "first")
  BY DEF Used, Side
<1>3. CASE kind = "partition"
  BY <1>2, <1>3, LookPartition
<1>4. CASE kind = "span" /\ c = "first"
  BY <1>4, LookLeading
<1>5. CASE kind = "span" /\ c = "second"
  BY <1>5, LookTrailing
<1>6. CASE kind = "filter"
  BY <1>2, <1>6, LookForFit
<1>7. CASE kind = "takeWhile"
  BY <1>2, <1>7, LookForPrefix
<1>8. CASE kind = "slice"
  BY <1>2, <1>8, LookSlice
<1> QED
  BY <1>1, <1>2, <1>3, <1>4, <1>5, <1>6, <1>7, <1>8 DEF Side

LEMMA StepOfAsk ==
  ASSUME ~LateLeading, IterInv, NEW c \in Side, AskNext(c)
  PROVE  /\ IterInv'
         /\ UNCHANGED <<kind, source, from, until, out>>
         /\ says' = [says EXCEPT ![c] = IF More(c) THEN "yes" ELSE "no"]
<1>1. /\ kind # "none" /\ c \in Used
      /\ kind = "span" /\ c = "first" => out["second"] = <<>>
      /\ it' = Looked(c)
      /\ says' = [says EXCEPT ![c] = IF HasNext(c, Looked(c)) THEN "yes" ELSE "no"]
      /\ kind' = kind /\ source' = source /\ from' = from /\ until' = until /\ out' = out
  BY DEF AskNext
<1> DEFINE s == Looked(c)
<1>2. /\ LookGood(c, s)
      /\ kind = "span" /\ c = "first" /\ HasNext(c, s) => s.lookahead["first"] # <<>>
  BY <1>1, LooksGood
<1> HIDE DEF s
<1>3. /\ ItType(s) /\ Held(s) /\ OfKind(s) /\ (HasNext(c, s) <=> Due(c, s))
      /\ \A d \in Side : it.lookahead[d] # <<>> => s.lookahead[d] # <<>>
  BY <1>2 DEF LookGood
<1>4. HasNext(c, s) <=> More(c)
  <2>1. out[c] \in Seq(0 .. N - 1)
    BY DEF IterInv
  <2>2. Lists(out[c] \o s.lookahead[c], Passed(c, Cursor(s)))
    BY <1>3 DEF Held
  <2> QED
    BY <1>3, <2>1, <2>2, DueIsMore DEF More
<1>5. says' = [says EXCEPT ![c] = IF More(c) THEN "yes" ELSE "no"]
  <2>1. (IF HasNext(c, s) THEN "yes" ELSE "no") = (IF More(c) THEN "yes" ELSE "no")
    BY <1>4
  <2> QED
    BY <1>1, <2>1 DEF s
<1>6. Opened' /\ ItType(it)' /\ Held(it)' /\ OfKind(it)'
  <2>1. it' = s
    BY <1>1 DEF s
  <2>2. \A d \in Side : Lists(out'[d] \o s.lookahead[d], Passed(d, Cursor(s)))
    BY <1>1, <1>3 DEF Held
  <2> QED
    BY <1>1, <1>3, <2>1, <2>2, InvStays
<1>7. N' = N /\ \A d : Share(d)' = Share(d)
  BY <1>1, SharesStay
<1>8. out' \in [Side -> Seq(0 .. N' - 1)] /\ says' \in [Side -> {"yes", "no", "?"}]
  BY <1>1, <1>5, <1>7 DEF IterInv
<1>9. \A d \in Side : says'[d] = "yes" => d \in Used' /\ More(d)'
  <2> SUFFICES ASSUME NEW d \in Side, says'[d] = "yes" PROVE d \in Used' /\ More(d)'
    OBVIOUS
  <2>1. says \in [Side -> {"yes", "no", "?"}]
    BY DEF IterInv
  <2>2. d \in Used /\ More(d)
    <3>1. CASE d = c
      <4>1. says'[c] = IF More(c) THEN "yes" ELSE "no"
        BY <1>5, <2>1
      <4>2. More(c)
        BY <3>1, <4>1
      <4> QED
        BY <1>1, <3>1, <4>2
    <3>2. CASE d # c
      <4>1. says[d] = "yes"
        BY <1>5, <2>1, <3>2
      <4> QED
        BY <4>1 DEF IterInv
    <3> QED
      BY <3>1, <3>2
  <2>3. Used' = Used
    BY <1>1 DEF Used
  <2>4. More(d)' <=> More(d)
    BY <1>1, <1>7 DEF More
  <2> QED
    BY <2>2, <2>3, <2>4
<1>10. kind' = "span" /\ says'["first"] = "yes" => it'.lookahead["first"] # <<>>
  <2> SUFFICES ASSUME kind = "span", says'["first"] = "yes" PROVE s.lookahead["first"] # <<>>
    BY <1>1 DEF s
  <2>1. says \in [Side -> {"yes", "no", "?"}]
    BY DEF IterInv
  <2>2. CASE c = "first"
    <3>1. says'["first"] = IF More(c) THEN "yes" ELSE "no"
      BY <1>5, <2>1, <2>2
    <3>2. HasNext(c, s)
      BY <1>4, <3>1
    <3> QED
      BY <1>2, <2>2, <3>2
  <2>3. CASE c # "first"
    <3>1. says["first"] = "yes"
      BY <1>5, <2>1, <2>3, SidesAre
    <3>2. it.lookahead["first"] # <<>>
      BY <3>1 DEF IterInv
    <3> QED
      BY <1>3, <3>2, SidesAre
  <2> QED
    BY <2>2, <2>3
<1>11. IterInv'
  BY <1>1, <1>6, <1>8, <1>9, <1>10 DEF IterInv
<1> QED
  BY <1>1, <1>5, <1>11

LEMMA TakenFromQueue ==
  ASSUME NEW a \in Seq(Nat), NEW b \in Seq(Nat), b # <<>>
  PROVE  /\ Append(a, Head(b)) \o Tail(b) = a \o b
         /\ Head(b) \in Nat /\ Tail(b) \in Seq(Nat)
<1> DEFINE h == Head(b)
           t == Tail(b)
<1>1. h \in Nat /\ t \in Seq(Nat) /\ b = <<h>> \o t
  OBVIOUS
<1> HIDE DEF h, t
<1>2. Append(a, h) = a \o <<h>> /\ <<h>> \in Seq(Nat)
  BY <1>1
<1>3. a \o (<<h>> \o t) = (a \o <<h>>) \o t
  BY <1>1, <1>2, Regroup
<1> QED
  BY <1>1, <1>2, <1>3 DEF h, t

\* The state after next: from the queue,
LEMMA TakeQueued ==
  ASSUME IterInv, NEW c \in Side, NEW s, LookGood(c, s), s.lookahead[c] # <<>>,
         NEW w, w = [s EXCEPT !.lookahead[c] = Tail(@)],
         NEW x, x = Head(s.lookahead[c])
  PROVE  /\ x \in 0 .. N - 1 /\ ItType(w) /\ OfKind(w)
         /\ \A d \in Side : d # c => w.lookahead[d] = s.lookahead[d]
         /\ Cursor(w) = Cursor(s)
         /\ Lists(Append(out[c], x) \o w.lookahead[c], Passed(c, Cursor(w)))
<1>1. /\ ItType(s) /\ Held(s) /\ OfKind(s)
  BY DEF LookGood
<1>2. /\ s \in [index : 0 .. N, hdDefined : BOOLEAN, lookahead : [Side -> Seq(0 .. N - 1)],
                ended : BOOLEAN, remaining : Int]
  BY <1>1 DEF ItType
<1>3. s.hdDefined => s.index > 0
  BY <1>1 DEF ItType
<1>4. N \in Nat
  BY CursorIs, <1>1 DEF IterInv
<1> DEFINE b == s.lookahead[c]
           la == [s.lookahead EXCEPT ![c] = Tail(b)]
<1>5. b \in Seq(0 .. N - 1) /\ b # <<>> /\ s.lookahead \in [Side -> Seq(0 .. N - 1)]
  BY <1>2
<1>6. w = [s EXCEPT !.lookahead = la] /\ x = Head(b)
  BY <1>2
<1> HIDE DEF b
<1>7. Tail(b) \in Seq(0 .. N - 1) /\ Head(b) \in 0 .. N - 1
  BY <1>5, HeadTailProperties
<1>8. /\ la \in [Side -> Seq(0 .. N - 1)] /\ la[c] = Tail(b)
      /\ \A d \in Side : d # c => la[d] = s.lookahead[d]
  BY <1>5, <1>7
<1> HIDE DEF la
<1>9. /\ w \in [index : 0 .. N, hdDefined : BOOLEAN, lookahead : [Side -> Seq(0 .. N - 1)],
                ended : BOOLEAN, remaining : Int]
      /\ w.index = s.index /\ w.hdDefined = s.hdDefined /\ w.lookahead = la
      /\ w.ended = s.ended /\ w.remaining = s.remaining
  BY <1>2, <1>6, <1>8
<1>10. ItType(w) /\ Cursor(w) = Cursor(s)
  BY <1>3, <1>9 DEF ItType, Cursor
<1>11. Lists(Append(out[c], x) \o w.lookahead[c], Passed(c, Cursor(w)))
  <2> DEFINE a == out[c]
  <2>1. a \in Seq(Nat) /\ b \in Seq(Nat)
    <3>1. a \in Seq(0 .. N - 1) /\ 0 .. N - 1 \subseteq Nat
      BY <1>4 DEF IterInv
    <3> HIDE DEF a
    <3> QED
      BY <1>5, <3>1, SeqMonotonic
  <2>2. Lists(a \o b, Passed(c, Cursor(s)))
    BY <1>1 DEF Held, b
  <2> HIDE DEF a
  <2>3. Append(a, x) \o w.lookahead[c] = a \o b
    <3>1. Append(a, Head(b)) \o Tail(b) = a \o b
      BY <1>5, <2>1, TakenFromQueue
    <3>2. w.lookahead[c] = Tail(b) /\ x = Head(b)
      BY <1>6, <1>8, <1>9
    <3> QED
      BY <3>1, <3>2
  <2> QED
    BY <1>10, <2>2, <2>3 DEF a
<1>12. OfKind(w)
  <2>1. CASE kind \in {"none", "partition"}
    BY <2>1 DEF OfKind
  <2>2. CASE kind = "span"
    BY <1>1, <1>5, <1>8, <1>9, <1>10, <2>2, SidesAre DEF OfKind, b
  <2>3. CASE kind \in {"filter", "takeWhile", "slice"}
    <3>1. c # "first"
      BY <1>1, <1>5, <2>3 DEF OfKind, b
    <3>2. w.lookahead["first"] = <<>>
      BY <1>1, <1>8, <1>9, <2>3, <3>1, SidesAre DEF OfKind
    <3> QED
      BY <1>1, <1>9, <1>10, <2>3, <3>2 DEF OfKind
  <2> QED
    BY <2>1, <2>2, <2>3 DEF IterInv, Opened, Kind
<1> QED
  BY <1>6, <1>7, <1>8, <1>9, <1>10, <1>11, <1>12

\* or from the source.
Counted(q, m) == [q EXCEPT !.remaining = m]

LEMMA TakeNew ==
  ASSUME IterInv, NEW c \in Used, NEW s, LookGood(c, s), Due(c, s), s.lookahead[c] = <<>>,
         kind = "span" => c = "second" /\ s.ended,
         NEW q, q = Consumed(s),
         NEW m, m = IF kind = "slice" THEN q.remaining - 1 ELSE q.remaining,
         NEW w, w = Counted(q, m),
         NEW x, x = Cursor(s)
  PROVE  /\ x \in 0 .. N - 1 /\ ItType(w) /\ OfKind(w)
         /\ \A d \in Side : w.lookahead[d] = s.lookahead[d]
         /\ \A d \in Side : d # c => Passed(d, Cursor(w)) = Passed(d, Cursor(s))
         /\ Lists(Append(out[c], x) \o w.lookahead[c], Passed(c, Cursor(w)))
<1>1. /\ ItType(s) /\ Held(s) /\ OfKind(s) /\ x \in Mine(c) /\ Opened
      /\ c \in Side /\ (kind \notin {"partition", "span"} => c = "first")
  BY DEF LookGood, IterInv, Used, Side
<1>2. N \in Nat /\ x \in 0 .. N - 1 /\ x < N
  <2>1. N \in Nat /\ Mine(c) \in SUBSET (0 .. N - 1)
    BY <1>1, CursorIs, MineAre
  <2> QED
    BY <1>1, <2>1
<1>3. /\ ItType(q) /\ Cursor(q) = x + 1 /\ q.index = x + 1 /\ ~q.hdDefined
      /\ q.ended = s.ended /\ q.lookahead = s.lookahead /\ q.remaining = s.remaining
  BY <1>1, <1>2, ConsumedIs
<1>4. /\ q \in [index : 0 .. N, hdDefined : BOOLEAN, lookahead : [Side -> Seq(0 .. N - 1)],
                ended : BOOLEAN, remaining : Int]
  BY <1>3 DEF ItType
<1>5. m \in Int
  <2>1. q.remaining \in Int
    BY <1>4
  <2> QED
    BY <2>1
<1>6. /\ w \in [index : 0 .. N, hdDefined : BOOLEAN, lookahead : [Side -> Seq(0 .. N - 1)],
                ended : BOOLEAN, remaining : Int]
      /\ w.index = q.index /\ w.hdDefined = q.hdDefined /\ w.lookahead = q.lookahead
      /\ w.ended = q.ended /\ w.remaining = m
  BY <1>4, <1>5 DEF Counted
<1>7. ItType(w) /\ Cursor(w) = x + 1 /\ w.index = x + 1 /\ ~w.hdDefined
      /\ w.lookahead = s.lookahead /\ w.ended = s.ended
  BY <1>2, <1>3, <1>6 DEF ItType, Cursor
<1>8. ASSUME NEW d \in Side, d # c PROVE Passed(d, x + 1) = Passed(d, x)
  <2>1. x \notin Mine(d)
    BY <1>1, <1>8, MineAre, SidesAre
  <2>2. \A i \in Mine(d) : i < x + 1 <=> i < x
    <3>1. Mine(d) \in SUBSET (0 .. N - 1)
      BY <1>1, MineAre
    <3> QED
      BY <1>2, <2>1, <3>1
  <2> QED
    BY <2>2 DEF Passed
<1>9. Lists(Append(out[c], x) \o w.lookahead[c], Passed(c, x + 1))
  <2> DEFINE a == out[c]
  <2>1. a \in Seq(Nat)
    <3>1. a \in Seq(0 .. N - 1) /\ 0 .. N - 1 \subseteq Nat
      BY <1>1, <1>2 DEF IterInv
    <3> HIDE DEF a
    <3> QED
      BY <3>1, SeqMonotonic
  <2>2. Lists(a \o <<>>, Passed(c, x))
    BY <1>1 DEF Held
  <2> HIDE DEF a
  <2>3. Lists(a, Passed(c, x))
    BY <2>1, <2>2, ConcatEmptySeq
  <2>4. Passed(c, x) \in SUBSET Nat /\ \A i \in Passed(c, x) : i < x
    <3>1. Mine(c) \in SUBSET (0 .. N - 1)
      BY <1>1, MineAre
    <3> QED
      BY <1>2, <3>1 DEF Passed
  <2>5. Passed(c, x + 1) = Passed(c, x) \cup {x}
    <3>1. \A i \in Mine(c) : i < x + 1 <=> i < x \/ i = x
      <4>1. Mine(c) \in SUBSET (0 .. N - 1)
        BY <1>1, MineAre
      <4> QED
        BY <1>2, <4>1
    <3> QED
      BY <1>1, <3>1 DEF Passed
  <2>6. Lists(Append(a, x), Passed(c, x + 1))
    BY <1>2, <2>3, <2>4, <2>5, ListsAppend
  <2>7. Append(a, x) \o w.lookahead[c] = Append(a, x)
    <3>1. Append(a, x) \in Seq(Nat) /\ w.lookahead[c] = <<>>
      BY <1>2, <1>7, <2>1
    <3> QED
      BY <3>1, ConcatEmptySeq
  <2> QED
    BY <2>6, <2>7 DEF a
<1>10. OfKind(w)
  <2>1. CASE kind \in {"none", "partition"}
    BY <2>1 DEF OfKind
  <2>2. CASE kind = "span"
    <3>1. Stop <= x /\ Stop \in Nat
      <4>1. x \in Stop .. N - 1 /\ Stop \in 0 .. N
        BY <1>1, <2>2, StopIs DEF Mine
      <4> QED
        BY <1>2, <4>1
    <3> QED
      BY <1>1, <1>2, <1>7, <2>2, <3>1 DEF OfKind
  <2>3. CASE kind = "filter"
    BY <1>1, <1>7, <2>3 DEF OfKind
  <2>4. CASE kind = "takeWhile"
    <3>1. x \in 0 .. Stop - 1 /\ Stop \in 0 .. N
      BY <1>1, <2>4, StopIs DEF Mine
    <3>2. ~s.ended
      BY <1>1, <1>2, <2>4, <3>1 DEF OfKind
    <3> QED
      BY <1>1, <1>2, <1>7, <2>4, <3>1, <3>2 DEF OfKind
  <2>5. CASE kind = "slice"
    <3>1. ~s.hdDefined /\ x = s.index
      BY <1>1, <2>5 DEF OfKind, Cursor
    <3>2. s.remaining = until - x /\ Max({from, 0}) <= x
      BY <1>1, <1>2, <2>5, <3>1 DEF OfKind
    <3>3. w.remaining = until - (x + 1)
      BY <1>1, <1>2, <1>3, <1>6, <2>5, <3>2 DEF Opened
    <3>4. Max({from, 0}) \in Int
      <4>1. from \in Int
        BY <1>1 DEF Opened
      <4> QED
        BY <4>1, Extremes
    <3> QED
      BY <1>1, <1>2, <1>7, <2>5, <3>2, <3>3, <3>4 DEF OfKind
  <2> QED
    BY <1>1, <2>1, <2>2, <2>3, <2>4, <2>5 DEF Opened, Kind
<1> QED
  BY <1>2, <1>7, <1>8, <1>9, <1>10
\* Either way it is the next of what is due to the iterator, and the other one
\* is not disturbed.
LEMMA Delivered ==
  ASSUME IterInv, NEW c \in Used, says[c] = "yes", UNCHANGED <<kind, source, from, until>>,
         NEW s, LookGood(c, s), NEW w, it' = w, NEW x \in 0 .. N - 1, ItType(w), OfKind(w),
         out' = [out EXCEPT ![c] = Append(@, x)], says' = [says EXCEPT ![c] = "?"],
         \A d \in Side : d # c => w.lookahead[d] = s.lookahead[d],
         \A d \in Side : d # c => Passed(d, Cursor(w)) = Passed(d, Cursor(s)),
         Lists(Append(out[c], x) \o w.lookahead[c], Passed(c, Cursor(w)))
  PROVE  IterInv' /\ x = Share(c)[Len(out[c]) + 1]
<1>1. /\ Held(s) /\ c \in Side /\ out \in [Side -> Seq(0 .. N - 1)]
      /\ says \in [Side -> {"yes", "no", "?"}]
      /\ \A d \in Side : it.lookahead[d] # <<>> => s.lookahead[d] # <<>>
  BY DEF LookGood, IterInv, Used, Side
<1> DEFINE o == Append(out[c], x)
<1>2. /\ o \in Seq(0 .. N - 1) /\ Len(o) = Len(out[c]) + 1 /\ o[Len(o)] = x
      /\ Len(out[c]) \in Nat
  <2>1. out[c] \in Seq(0 .. N - 1)
    BY <1>1
  <2> DEFINE b == out[c]
  <2> HIDE DEF b
  <2>2. b \in Seq(0 .. N - 1) /\ Len(b) \in Nat
    BY <2>1, LenProperties DEF b
  <2>3. Append(b, x) \in Seq(0 .. N - 1) /\ Len(Append(b, x)) = Len(b) + 1
        /\ Append(b, x)[Len(b) + 1] = x
    BY <2>2, AppendProperties
  <2> QED
    BY <2>2, <2>3 DEF b
<1>3. out'[c] = o /\ \A d \in Side : d # c => out'[d] = out[d]
  BY <1>1
<1>4. x = Share(c)[Len(out[c]) + 1]
  <2>1. Lists(o \o w.lookahead[c], Passed(c, Cursor(w)))
    OBVIOUS
  <2> HIDE DEF o
  <2>2. \A i \in 1 .. Len(o) : o[i] = Share(c)[i]
    BY <1>1, <1>2, <2>1, DueIsMore
  <2>3. Len(o) \in 1 .. Len(o)
    BY <1>2
  <2> QED
    BY <1>2, <2>2, <2>3
<1>5. \A d \in Side : Lists(out'[d] \o w.lookahead[d], Passed(d, Cursor(w)))
  BY <1>1, <1>3 DEF Held
<1>6. Opened' /\ ItType(it)' /\ Held(it)' /\ OfKind(it)'
  BY <1>5, InvStays
<1>7. N' = N /\ Used' = Used /\ \A d : Share(d)' = Share(d)
  BY SharesStay DEF Used
<1>8. out' \in [Side -> Seq(0 .. N' - 1)] /\ says' \in [Side -> {"yes", "no", "?"}]
  <2>1. out' \in [Side -> Seq(0 .. N - 1)]
    BY <1>1, <1>2
  <2> QED
    BY <1>1, <1>7, <2>1
<1>9. \A d \in Side : says'[d] = "yes" => d # c /\ says[d] = "yes"
  BY <1>1
<1>10. \A d \in Side : says'[d] = "yes" => d \in Used' /\ More(d)'
  <2> SUFFICES ASSUME NEW d \in Side, says'[d] = "yes" PROVE d \in Used' /\ More(d)'
    OBVIOUS
  <2>1. d # c /\ d \in Used /\ More(d)
    BY <1>9 DEF IterInv
  <2>2. More(d)' <=> More(d)
    BY <1>3, <1>7, <2>1 DEF More
  <2> QED
    BY <1>7, <2>1, <2>2
<1>11. kind' = "span" /\ says'["first"] = "yes" => it'.lookahead["first"] # <<>>
  <2> SUFFICES ASSUME kind = "span", says'["first"] = "yes" PROVE w.lookahead["first"] # <<>>
    OBVIOUS
  <2>1. "first" # c /\ says["first"] = "yes" /\ "first" \in Side
    BY <1>9, SidesAre
  <2>2. it.lookahead["first"] # <<>>
    BY <2>1 DEF IterInv
  <2> QED
    BY <1>1, <2>1, <2>2
<1>12. kind' # "none"
  BY DEF IterInv, Used, Side
<1> QED
  BY <1>4, <1>6, <1>8, <1>10, <1>11, <1>12 DEF IterInv

LEMMA StepOfTake ==
  ASSUME IterInv, NEW c \in Side, TakeNext(c)
  PROVE  /\ IterInv'
         /\ UNCHANGED <<kind, source, from, until>>
         /\ says[c] = "yes"
         /\ out' = [out EXCEPT ![c] = Append(@, Share(c)[Len(@) + 1])]
         /\ says' = [says EXCEPT ![c] = "?"]
<1> DEFINE s == Looked(c)
           b == s.lookahead[c]
           u == [s EXCEPT !.lookahead[c] = Tail(@)]
           q == Consumed(s)
           m == IF kind = "slice" THEN q.remaining - 1 ELSE q.remaining
           v == [q EXCEPT !.remaining = m]
<1>1. /\ c \in Used /\ says[c] = "yes" /\ says' = [says EXCEPT ![c] = "?"]
      /\ UNCHANGED <<kind, source, from, until>>
      /\ out \in [Side -> Seq(0 .. N - 1)] /\ More(c)
  BY DEF TakeNext, IterInv
<1>2. /\ b # <<>> => out' = [out EXCEPT ![c] = Append(@, Head(b))] /\ it' = u
      /\ b = <<>> => out' = [out EXCEPT ![c] = Append(@, Cursor(s))] /\ it' = v
  BY DEF TakeNext
<1>3. kind # "none" /\ (kind = "span" /\ c = "first" => it.lookahead["first"] # <<>>)
  BY <1>1 DEF IterInv
<1>4. /\ LookGood(c, s)
      /\ kind = "span" /\ c = "first" /\ HasNext(c, s) => s.lookahead["first"] # <<>>
      /\ kind = "span" /\ c = "second" => s.ended
  BY <1>1, <1>3, LooksGood
<1> HIDE DEF s
<1>5. ItType(s) /\ Held(s) /\ (HasNext(c, s) <=> Due(c, s))
  BY <1>4 DEF LookGood
<1>6. Due(c, s)
  <2>1. out[c] \in Seq(0 .. N - 1)
    BY <1>1
  <2>2. Lists(out[c] \o s.lookahead[c], Passed(c, Cursor(s)))
    BY <1>5 DEF Held
  <2> QED
    BY <1>1, <1>5, <2>1, <2>2, DueIsMore DEF More
<1>7. kind = "span" /\ b = <<>> => c = "second" /\ s.ended
  BY <1>4, <1>5, <1>6 DEF Side
<1>8. CASE b # <<>>
  <2> DEFINE x == Head(b)
  <2>1. out' = [out EXCEPT ![c] = Append(@, x)] /\ it' = u
    BY <1>2, <1>8
  <2>2. /\ x \in 0 .. N - 1 /\ ItType(u) /\ OfKind(u)
        /\ \A d \in Side : d # c => u.lookahead[d] = s.lookahead[d]
        /\ Cursor(u) = Cursor(s)
        /\ Lists(Append(out[c], x) \o u.lookahead[c], Passed(c, Cursor(u)))
    BY <1>4, <1>8, TakeQueued
  <2> HIDE DEF b, u, x
  <2>3. IterInv' /\ x = Share(c)[Len(out[c]) + 1]
    BY <1>1, <1>4, <2>1, <2>2, Delivered
  <2> QED
    BY <1>1, <2>1, <2>3
<1>9. CASE b = <<>>
  <2> DEFINE x == Cursor(s)
  <2>1. out' = [out EXCEPT ![c] = Append(@, x)] /\ it' = v
    BY <1>2, <1>9
  <2>2. /\ q = Consumed(s) /\ m = IF kind = "slice" THEN q.remaining - 1 ELSE q.remaining
        /\ x = Cursor(s) /\ s.lookahead[c] = <<>>
        /\ kind = "span" => c = "second" /\ s.ended
    BY <1>7, <1>9
  <2> HIDE DEF q, m
  <2>3. v = Counted(q, m)
    BY DEF Counted
  <2> HIDE DEF b, u, v, x
  <2>4. /\ x \in 0 .. N - 1 /\ ItType(v) /\ OfKind(v)
        /\ \A d \in Side : v.lookahead[d] = s.lookahead[d]
        /\ \A d \in Side : d # c => Passed(d, Cursor(v)) = Passed(d, Cursor(s))
        /\ Lists(Append(out[c], x) \o v.lookahead[c], Passed(c, Cursor(v)))
    BY <1>1, <1>4, <1>6, <2>2, <2>3, TakeNew
  <2>5. IterInv' /\ x = Share(c)[Len(out[c]) + 1]
    BY <1>1, <1>4, <2>1, <2>4, Delivered
  <2> QED
    BY <1>1, <2>1, <2>5
<1> QED
  BY <1>8, <1>9

-----------------------------------------------------------------------------
(* The beginning, and the invariant                                        *)

\* Nothing was delivered yet.
Begun ==
    /\ Opened
    /\ kind = "none" => source = <<>>
    /\ kind # "slice" => it = Fresh
    /\ kind = "slice" => it = [Fresh EXCEPT !.index = Min({Max({from, 0}), N}),
                                            !.remaining = until - Max({from, 0})]
    /\ out = [c \in Side |-> <<>>] /\ says = [c \in Side |-> "?"]

LEMMA BegunWell == Begun => IterInv /\ \A c \in Side : Share(c) \in Seq(Nat)
<1> SUFFICES ASSUME Begun PROVE IterInv /\ \A c \in Side : Share(c) \in Seq(Nat)
  OBVIOUS
<1> DEFINE a == Max({from, 0})
           i == IF kind = "slice" THEN Min({a, N}) ELSE 0
           r == IF kind = "slice" THEN until - a ELSE 0
           e == [c \in Side |-> <<>>]
<1>1. /\ Opened /\ N \in Nat /\ Stop \in 0 .. N
      /\ \A c \in Side : Mine(c) \in SUBSET (0 .. N - 1)
      /\ Mine("first") \cap Mine("second") = {}
      /\ from \in Int /\ until \in Int /\ kind \in Kind \cup {"none"}
  BY StopIs, MineAre DEF Begun, Opened
<1>2. /\ a \in Nat
      /\ kind = "slice" => i \in 0 .. N /\ i <= a /\ (i < N => i = a)
  <2>1. a = IF from >= 0 THEN from ELSE 0
    BY <1>1, Extremes
  <2>2. a \in Nat
    BY <1>1, <2>1
  <2> HIDE DEF a
  <2>3. a \in Int /\ N \in Int
    BY <1>1, <2>2
  <2>4. Min({a, N}) = IF a <= N THEN a ELSE N
    BY <2>3, Extremes
  <2> QED
    BY <1>1, <2>2, <2>4
<1>3. i \in 0 .. N /\ r \in Int
  BY <1>1, <1>2
<1>4. it = [index |-> i, hdDefined |-> FALSE, lookahead |-> e, ended |-> FALSE, remaining |-> r]
  <2>1. Fresh = [index |-> 0, hdDefined |-> FALSE, lookahead |-> e,
                 ended |-> FALSE, remaining |-> 0]
    BY DEF Fresh
  <2>2. CASE kind = "slice"
    <3>1. i = Min({a, N}) /\ r = until - a
      BY <2>2
    <3>2. it = [Fresh EXCEPT !.index = i, !.remaining = r]
      BY <2>2, <3>1 DEF Begun
    <3> HIDE DEF e, i, r
    <3> QED
      BY <2>1, <3>2
  <2>3. CASE kind # "slice"
    <3>1. i = 0 /\ r = 0 /\ it = Fresh
      BY <2>3 DEF Begun
    <3> HIDE DEF e, i, r
    <3> QED
      BY <2>1, <3>1
  <2> QED
    BY <2>2, <2>3
<1>5. e \in [Side -> Seq(0 .. N - 1)] /\ \A c \in Side : e[c] = <<>>
  <2>1. <<>> \in Seq(0 .. N - 1)
    BY EmptySeq
  <2> QED
    BY <2>1
<1>6. /\ it \in [index : 0 .. N, hdDefined : BOOLEAN, lookahead : [Side -> Seq(0 .. N - 1)],
                 ended : BOOLEAN, remaining : Int]
      /\ it.index = i /\ it.hdDefined = FALSE /\ it.lookahead = e
      /\ it.ended = FALSE /\ it.remaining = r
  <2> HIDE DEF e, i, r
  <2> QED
    BY <1>3, <1>4, <1>5
<1>7. ItType(it) /\ Cursor(it) = i
  BY <1>6 DEF ItType, Cursor
<1>8. Held(it)
  <2> SUFFICES ASSUME NEW c \in Side
               PROVE  Lists(out[c] \o it.lookahead[c], Passed(c, Cursor(it)))
    BY DEF Held
  <2>1. out[c] = <<>> /\ it.lookahead[c] = <<>> /\ <<>> \o <<>> = <<>>
    BY <1>5, <1>6, EmptySeq, ConcatEmptySeq DEF Begun
  <2>2. Passed(c, i) = {}
    <3>1. ASSUME kind # "slice" PROVE \A j \in Mine(c) : ~(j < i)
      BY <1>1, <3>1
    <3>2. ASSUME kind = "slice" PROVE \A j \in Mine(c) : ~(j < i)
      <4>1. Mine(c) \in SUBSET (a .. Min({until, N}) - 1)
        BY <3>2 DEF Mine, Side
      <4> HIDE DEF a, i
      <4> QED
        BY <1>1, <1>2, <1>3, <3>2, <4>1
    <3> QED
      BY <3>1, <3>2 DEF Passed
  <2> HIDE DEF i
  <2> QED
    BY <1>7, <2>1, <2>2, ListsNone
<1>9. OfKind(it)
  <2>1. it.lookahead["first"] = <<>> /\ it.lookahead["second"] = <<>>
    BY <1>5, <1>6, SidesAre
  <2>2. kind = "slice" /\ it.index < N => it.remaining = until - it.index /\ a <= it.index
    <3> HIDE DEF a
    <3>1. kind = "slice" => r = until - a
      OBVIOUS
    <3> HIDE DEF i, r
    <3> QED
      BY <1>1, <1>2, <1>3, <1>6, <3>1
  <2>3. Cursor(it) <= Stop \/ kind = "slice"
    BY <1>1, <1>7
  <2> HIDE DEF i, r, e
  <2> QED
    BY <1>6, <2>1, <2>2, <2>3 DEF OfKind
<1>10. /\ out \in [Side -> Seq(0 .. N - 1)] /\ says \in [Side -> {"yes", "no", "?"}]
       /\ \A c \in Side : says[c] # "yes"
       /\ says["first"] # "yes"
  BY <1>5, SidesAre DEF Begun
<1>11. IterInv
  BY <1>1, <1>7, <1>8, <1>9, <1>10 DEF IterInv, Begun
<1>12. ASSUME NEW c \in Side PROVE Share(c) \in Seq(Nat)
  <2>1. Share(c) \in Seq(Mine(c)) /\ Mine(c) \subseteq Nat
    BY <1>1, ShareIs DEF Lists
  <2> QED
    BY <2>1, SeqMonotonic
<1> QED
  BY <1>11, <1>12
Shares == [c \in Side |-> Share(c)]

LEMMA StepOfOpen ==
  ASSUME IterInv, numBits \in Nat, StartIteration
  PROVE  IterInv' /\ [Streams!Next]_<<Shares, out, says>>
<1>1. Contents \in Seq(BOOLEAN)
  <2>1. Bits(bits, numBits) \in Seq(BOOLEAN)
    BY BitsAre
  <2> QED
    BY <2>1, ContentsAre
<1>2. kind = "none" /\ source' = Contents /\ out' = out /\ says' = says
      /\ \/ kind' \in Kind \ {"slice"} /\ UNCHANGED <<from, until, it>>
         \/ /\ kind' = "slice" /\ from' \in Int /\ until' \in Int
            /\ it' = [Fresh EXCEPT !.index = Min({Max({from', 0}), Len(source')}),
                                   !.remaining = until' - Max({from', 0})]
  <2>1. CASE \E k \in Kind \ {"slice"} : Iterate(k, Contents)
    BY <2>1 DEF Iterate
  <2>2. CASE \E a, b \in -1 .. numBits + 1 : IterateSlice(Contents, a, b)
    <3>1. PICK a \in -1 .. numBits + 1, b \in -1 .. numBits + 1 : IterateSlice(Contents, a, b)
      BY <2>2
    <3>2. a \in Int /\ b \in Int
      OBVIOUS
    <3> QED
      BY <3>1, <3>2 DEF IterateSlice
  <2> QED
    BY <2>1, <2>2 DEF StartIteration
<1>3. /\ it = Fresh /\ out = [c \in Side |-> <<>>] /\ says = [c \in Side |-> "?"]
      /\ from \in Int /\ until \in Int
  BY <1>2 DEF IterInv, Opened
<1>4. Begun'
  <2>1. Opened' /\ kind' # "none"
    BY <1>1, <1>2, <1>3 DEF Opened, Kind
  <2>2. Fresh' = Fresh /\ N' = Len(source')
    BY DEF Fresh, N
  <2>3. kind' # "slice" => it' = Fresh'
    BY <1>2, <1>3, <2>2 DEF Kind
  <2>4. kind' = "slice" => it' = [Fresh' EXCEPT !.index = Min({Max({from', 0}), N'}),
                                                !.remaining = until' - Max({from', 0})]
    BY <1>2, <2>2 DEF Kind
  <2> QED
    BY <1>2, <1>3, <2>1, <2>3, <2>4 DEF Begun
<1>5. (IterInv /\ \A c \in Side : Share(c) \in Seq(Nat))'
  BY <1>4, BegunWell, PTL
<1>6. Shares = [c \in Side |-> <<>>] /\ Shares' \in [Side -> Seq(Nat)]
  BY <1>2, <1>5 DEF Share, Shares
<1>7. Streams!Open
  BY <1>2, <1>3, <1>6 DEF Streams!Open, Shares
<1> QED
  BY <1>5, <1>7 DEF Streams!Next

LEMMA IterStays ==
  ASSUME IterInv, UNCHANGED ivars
  PROVE  IterInv' /\ UNCHANGED <<Shares, out, says>>
<1>1. UNCHANGED <<kind, source, from, until>> /\ it' = it /\ out' = out /\ says' = says
  BY DEF ivars
<1>2. N' = N /\ \A c : Share(c)' = Share(c)
  BY <1>1, SharesStay
<1>3. Opened' /\ ItType(it)' /\ Held(it)' /\ OfKind(it)'
  <2>1. /\ ItType(it) /\ OfKind(it)
        /\ \A c \in Side : Lists(out'[c] \o it.lookahead[c], Passed(c, Cursor(it)))
    BY <1>1 DEF IterInv, Held
  <2> QED
    BY <1>1, <2>1, InvStays
<1>4. Fresh' = Fresh /\ Used' = Used /\ \A c : More(c)' <=> More(c)
  BY <1>1, <1>2 DEF Fresh, Used, More
<1> QED
  BY <1>1, <1>2, <1>3, <1>4 DEF IterInv, Shares
LEMMA StepOfUse ==
  ASSUME ~LateLeading, IterInv, UseNext
  PROVE  IterInv' /\ [Streams!Next]_<<Shares, out, says>>
<1>1. PICK c \in Side : AskNext(c) \/ TakeNext(c)
  BY DEF UseNext
<1>2. ASSUME UNCHANGED <<kind, source, from, until>> PROVE Shares' = Shares
  BY <1>2, SharesStay DEF Shares
<1>3. CASE AskNext(c)
  <2>1. /\ IterInv' /\ UNCHANGED <<kind, source, from, until, out>>
        /\ says' = [says EXCEPT ![c] = IF More(c) THEN "yes" ELSE "no"]
    BY <1>3, StepOfAsk
  <2>2. Streams!Ask(c)
    BY <1>2, <2>1 DEF Streams!Ask, More, Shares
  <2> QED
    BY <2>1, <2>2 DEF Streams!Next
<1>4. CASE TakeNext(c)
  <2>1. /\ IterInv' /\ UNCHANGED <<kind, source, from, until>>
        /\ says[c] = "yes" /\ says' = [says EXCEPT ![c] = "?"]
        /\ out' = [out EXCEPT ![c] = Append(@, Share(c)[Len(@) + 1])]
    BY <1>4, StepOfTake
  <2>2. Shares[c] = Share(c) /\ Shares' = Shares
    BY <1>2, <2>1 DEF Shares
  <2>3. Streams!Take(c)
    BY <2>1, <2>2 DEF Streams!Take, Shares
  <2> QED
    BY <2>1, <2>3 DEF Streams!Next
<1> QED
  BY <1>1, <1>3, <1>4

\* The array's part in it
LEMMA LengthStays ==
  ASSUME numBits \in Nat, BitNext \/ UNCHANGED bvars
  PROVE  numBits' \in Nat
<1>1. CASE \E n \in 0 .. MaxBits : NewBitArray(n) \/ BitResult(n)
  BY <1>1, BitAssumption DEF NewBitArray, BitResult
<1>2. CASE NewBitBuilder \/ (\E n \in Hint : HintBits(n)) \/ ClearBuilder \/ UNCHANGED bvars
  BY <1>2 DEF NewBitBuilder, HintBits, ClearBuilder, bvars
<1>3. CASE \E v \in BOOLEAN : AddBit(v) \/ FillBits(v)
  BY <1>3 DEF AddBit, FillBits
<1>4. CASE \E v \in BOOLEAN : AppendBits(<<v>>)
  <2>1. PICK v \in BOOLEAN : numBits' = numBits + 2 * Len(<<v>>)
    BY <1>4 DEF AppendBits
  <2> QED
    BY <2>1
<1>5. CASE \E i \in 0 .. MaxBits - 1, v \in BOOLEAN : UpdateBit(i, v)
  BY <1>5 DEF UpdateBit
<1>6. CASE \E s, e \in 0 .. MaxBits : SliceBits(s, e)
  <2>1. PICK s \in 0 .. MaxBits, e \in 0 .. MaxBits : s <= e /\ numBits' = e - s
    BY <1>6 DEF SliceBits
  <2> QED
    BY <2>1, BitAssumption
<1> QED
  BY <1>1, <1>2, <1>3, <1>4, <1>5, <1>6 DEF BitNext

LEMMA IterInvStarts == IterInit => IterInv /\ Streams!Init
<1> SUFFICES ASSUME IterInit PROVE IterInv /\ Streams!Init
  OBVIOUS
<1>1. Begun /\ kind = "none"
  BY EmptySeq DEF IterInit, Begun, Opened
<1>2. IterInv
  BY <1>1, BegunWell
<1>3. Streams!Init
  BY <1>1 DEF Streams!Init, Share, Begun
<1> QED
  BY <1>2, <1>3

LEMMA EachStepOfIterators ==
  ASSUME ~LateLeading, numBits \in Nat, IterInv, [BitIterNext]_bitIterVars
  PROVE  numBits' \in Nat /\ IterInv' /\ [Streams!Next]_<<Shares, out, says>>
<1>1. CASE Use
  BY <1>1, LengthStays, IterStays DEF Use
<1>2. CASE StartIteration
  BY <1>2, LengthStays, StepOfOpen DEF StartIteration
<1>3. CASE Continue
  BY <1>3, LengthStays, StepOfUse DEF Continue
<1>4. CASE UNCHANGED bitIterVars
  BY <1>4, LengthStays, IterStays DEF bitIterVars
<1> QED
  BY <1>1, <1>2, <1>3, <1>4 DEF BitIterNext

LEMMA IterInvHolds ==
  ASSUME ~LateLeading
  PROVE  BitIterSpec => []IterInv
<1>1. BitIterInit => numBits \in Nat /\ IterInv
  BY IterInvStarts DEF BitIterInit, BitInit
<1>2. numBits \in Nat /\ IterInv /\ [BitIterNext]_bitIterVars => (numBits \in Nat /\ IterInv)'
  BY EachStepOfIterators
<1> QED
  BY <1>1, <1>2, PTL DEF BitIterSpec

\* Every array and iterator keeps its shape: indexes and queues stay inside the
\* source, answers are answers.
THEOREM BitsAndIteratorTypes ==
  ASSUME ~Appends, ~LateLeading
  PROVE  BitIterSpec => []BitIterTypeOK
<1>1. BitIterInit => BitInv
  BY BitInvStarts DEF BitIterInit
<1>2. BitInv /\ [BitIterNext]_bitIterVars => BitInv'
  BY EachStepOfBits
<1>3. BitInv /\ IterInv => BitIterTypeOK
  <2> SUFFICES ASSUME BitInv, IterInv PROVE BitTypeOK /\ IterTypeOK
    BY DEF BitIterTypeOK
  <2>1. BitTypeOK
    BY DEF BitInv
  <2>2. IterTypeOK
    BY DEF IterInv, ItType, Opened, IterTypeOK
  <2> QED
    BY <2>1, <2>2
<1>4. BitIterSpec => []IterInv
  BY IterInvHolds
<1> QED
  BY <1>1, <1>2, <1>3, <1>4, PTL DEF BitIterSpec

\* The iterators of partition, span, filter, takeWhile and slice keep the promise
\* of ElementStreams for every source and every predicate: hasNext tells the
\* truth, next delivers the next element of the iterator's share, in whatever
\* order the two are used.  Clients do not go back to the leading iterator of
\* span after the trailing one has delivered.
THEOREM IteratorsAreStreams ==
  ASSUME ~LateLeading
  PROVE  BitIterSpec => EachIsAStream
<1>1. BitIterInit => numBits \in Nat /\ IterInv /\ Streams!Init
  BY IterInvStarts DEF BitIterInit, BitInit
<1>2. numBits \in Nat /\ IterInv /\ [BitIterNext]_bitIterVars
        => (numBits \in Nat /\ IterInv)' /\ [Streams!Next]_(Streams!vars)
  <2>1. Streams!vars = <<Shares, out, says>>
    BY DEF Streams!vars, Shares
  <2>2. UNCHANGED <<Shares, out, says>> => UNCHANGED Streams!vars
    BY DEF Streams!vars, Shares
  <2> QED
    BY <2>2, EachStepOfIterators
<1> QED
  BY <1>1, <1>2, PTL DEF BitIterSpec, EachIsAStream, Streams!Spec

\* What each iterator delivered begins its share: the elements it is for, in
\* their order.
THEOREM EachHasItsShare ==
  ASSUME ~LateLeading
  PROVE  BitIterSpec => []EachGetsItsShare
<1>1. ASSUME IterInv PROVE EachGetsItsShare
  <2> SUFFICES ASSUME NEW c \in Side PROVE IsPrefix(out[c], Share(c))
    BY DEF EachGetsItsShare
  <2> DEFINE o == out[c]
             u == Share(c)
  <2>1. o \in Seq(0 .. N - 1) /\ Lists(o \o it.lookahead[c], Passed(c, Cursor(it)))
    BY <1>1 DEF IterInv, Held
  <2>2. u \in Seq(Mine(c))
    BY <1>1, ShareIs DEF IterInv, Lists
  <2>3. Len(o) <= Len(u) /\ \A i \in 1 .. Len(o) : o[i] = u[i]
    <3>1. ItType(it)
      BY <1>1 DEF IterInv
    <3> HIDE DEF o
    <3> QED
      BY <1>1, <2>1, <3>1, DueIsMore DEF u
  <2> HIDE DEF o, u
  <2>4. Len(o) \in Nat /\ Len(u) \in Nat
    BY <2>1, <2>2, LenProperties
  <2>5. /\ SubSeq(o, 1, Len(o)) = [i \in 1 .. Len(o) |-> o[i]]
        /\ SubSeq(u, 1, Len(o)) = [i \in 1 .. Len(o) |-> u[i]]
    BY <2>1, <2>2, <2>3, <2>4
  <2> QED
    BY <2>3, <2>5 DEF IsPrefix, o, u
<1>2. BitIterSpec => []IterInv
  BY IterInvHolds
<1> QED
  BY <1>1, <1>2, PTL

\* While partition and span run, no element of the source is lost, delivered to
\* the wrong iterator or put in the wrong place.
THEOREM NoElementIsLost ==
  ASSUME ~LateLeading
  PROVE  BitIterSpec => []NothingIsLost
<1>1. ASSUME IterInv PROVE NothingIsLost
  <2> SUFFICES ASSUME NEW c \in Side
               PROVE  out[c] \o it.lookahead[c]
                        \o Selected({i \in Cursor(it) .. N - 1 : Contains(Share(c), i)})
                        = Share(c)
    BY DEF NothingIsLost
  <2> DEFINE a == out[c] \o it.lookahead[c]
             Rest == {i \in Cursor(it) .. N - 1 : Contains(Share(c), i)}
             u == Share(c)
  <2>1. /\ N \in Nat /\ Cursor(it) \in 0 .. N /\ Mine(c) \in SUBSET (0 .. N - 1)
        /\ Lists(u, Mine(c)) /\ Lists(a, Passed(c, Cursor(it)))
    BY <1>1, CursorIs, MineAre, ShareIs DEF IterInv, Held
  <2>2. \A i : Contains(u, i) <=> i \in Mine(c)
    <3>1. u \in Seq(Mine(c)) /\ \A i \in 1 .. Len(u) : u[i] \in Mine(c)
      BY <2>1, ElementOfSeq DEF Lists
    <3> QED
      BY <2>1, <3>1 DEF Contains, Lists
  <2>3. Rest = {i \in Mine(c) : Cursor(it) <= i}
    BY <2>1, <2>2
  <2> HIDE DEF a, Rest, u
  <2>4. Rest \in SUBSET (0 .. N - 1) /\ Lists(Selected(Rest), Rest)
    <3>1. Rest \in SUBSET (0 .. N - 1)
      BY <2>1, <2>3
    <3> QED
      BY <2>1, <3>1, SelectedIs
  <2>5. /\ Passed(c, Cursor(it)) \in SUBSET Nat /\ Rest \in SUBSET Nat
        /\ \A p \in Passed(c, Cursor(it)), q \in Rest : p < q
        /\ Passed(c, Cursor(it)) \cup Rest = Mine(c) /\ Mine(c) \in SUBSET Nat
    BY <2>1, <2>3 DEF Passed
  <2>6. Lists(a \o Selected(Rest), Mine(c))
    BY <2>1, <2>4, <2>5, ListsConcat
  <2> QED
    BY <2>1, <2>5, <2>6, ListsOnce DEF a, Rest, u
<1>2. BitIterSpec => []IterInv
  BY IterInvHolds
<1> QED
  BY <1>1, <1>2, PTL

=============================================================================

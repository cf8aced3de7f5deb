---------------------------- MODULE BuilderProofs ----------------------------
(***************************************************************************)
(* What TLAPS proves of LArrayBuilder, of the files loaded through it and  *)
(* of the streams over what was loaded: for any sizes of elements, chunks, *)
(* files and transfers and any number of arrays.                           *)
(***************************************************************************)
EXTENDS LArrayInputStream, DataLemmas

\* Clients add whole elements.
WholeElements == ~SplitsElements

Cell == [state : {"unused", "live", "freed", "freed twice"}, size : Nat, good : SUBSET Nat]
Memory == [Array -> Cell]

\* The bytes from 0 to n - 1
First(n) == 0 .. n - 1

\* No array has bytes outside, and results exist.
Sound(m) == /\ m \in Memory
            /\ \A a \in Array : m[a].good \subseteq First(m[a].size)
            /\ \A a \in results : m[a].state # "unused"

\* Memory m differs from mem in nothing that clients have, and no array was
\* released twice on the way.
Careful(m) == /\ \A a \in results : m[a] = mem[a]
              /\ \A a \in Array : m[a].state = "freed twice" => mem[a].state = "freed twice"

\* The array of builder state b is the builder's own and has all bytes.
Holds(b) == /\ b.elems \in Array \ results
            /\ b.mem[b.elems].state = "live"
            /\ b.mem[b.elems].size = b.capacity * elementSize
            /\ cursor <= b.capacity * elementSize
            /\ First(cursor) \subseteq b.mem[b.elems].good

Ready(b) == b.capacity \in Nat \ {0} /\ Sound(b.mem) /\ Careful(b.mem) /\ Holds(b)

\* While it is being filled, a builder is empty or has an array; elems of an
\* empty one may point to anything.
Filling == /\ cursor = added
           /\ IF capacity = 0 THEN cursor = 0 ELSE Holds(Current)

\* After result() a client has the builder's array only if it was exactly full.
Handed == NumElems > 0 =>
              /\ elems \in Array
              /\ elems \in results => mem[elems].state = "live" /\ capacity = NumElems

BuilderInv == /\ TypeOK /\ Sound(mem)
              /\ IF finished THEN Handed ELSE Filling

\* What a step may do to the results that clients get and have, and which
\* arrays it may release again
ResultStep == \A a \in results' \ results : /\ mem'[a].size = added - (added % elementSize)
                                           /\ mem'[a].good = 0 .. mem'[a].size - 1
KeepStep == \A a \in results' :
                \/ a \in results /\ (mem'[a] = mem[a] \/ TakesBack(a))
                \/ a \notin results /\ mem'[a].state = "live"
ReleaseStep == \A a \in Array :
                  (mem[a].state # "freed twice" /\ mem'[a].state = "freed twice") =>
                      \/ a = elems /\ finished /\ ~finished'
                      \/ a \in results \ results'
BuilderStep == ResultStep /\ KeepStep /\ ReleaseStep

-----------------------------------------------------------------------------
(* Arithmetic                                                              *)

LEMMA CeilFacts ==
  ASSUME NEW n \in Nat, NEW d \in Nat \ {0}
  PROVE  /\ CeilDiv(n, d) \in Nat /\ n <= CeilDiv(n, d) * d
         /\ CeilDiv(n, d) * d <= n + d - 1
<1> DEFINE s == n + d - 1
<1>1. s \in Nat
  OBVIOUS
<1>2. s \div d \in Nat /\ s % d \in 0 .. d - 1 /\ s = (s \div d) * d + (s % d)
  BY <1>1, Divide
<1>3. (s \div d) * d \in Nat
  BY <1>2, Multiply
<1>4. n <= (s \div d) * d /\ (s \div d) * d <= n + d - 1
  BY <1>2, <1>3
<1> QED
  BY <1>2, <1>4 DEF CeilDiv

\* Rounding down what is there and up what comes needs no more elements than
\* both together - if both together are whole elements.
LEMMA FloorCeil ==
  ASSUME NEW c \in Nat, NEW n \in Nat, NEW k \in Nat, NEW d \in Nat \ {0}, c + n <= k * d
  PROVE  (c \div d) + CeilDiv(n, d) <= k
<1> DEFINE a == c \div d
           b == CeilDiv(n, d)
<1>1. a \in Nat /\ a * d \in Nat /\ a * d <= c
  BY Divide, Multiply
<1>2. b \in Nat /\ b * d \in Nat /\ b * d <= n + d - 1
  BY CeilFacts, Multiply
<1> HIDE DEF a, b
<1>3. (a + b) * d = a * d + b * d
  BY <1>1, <1>2, Multiply
<1>4. ASSUME k + 1 <= a + b PROVE FALSE
  <2>1. (k + 1) * d <= (a + b) * d /\ (k + 1) * d = k * d + 1 * d
    BY <1>1, <1>2, <1>4, Multiply
  <2>2. k * d \in Nat /\ 1 * d = d
    BY Multiply
  <2> QED
    BY <1>1, <1>2, <1>3, <2>1, <2>2
<1>5. a + b <= k
  BY <1>1, <1>2, <1>4
<1> QED
  BY <1>5 DEF a, b

\* Whole elements and whole elements are whole elements.
LEMMA WholeSum ==
  ASSUME NEW c \in Nat, NEW n \in Nat, NEW d \in Nat \ {0}, c % d = 0, n % d = 0
  PROVE  (c + n) % d = 0
<1> DEFINE a == c \div d
           b == n \div d
<1>1. a \in Nat /\ b \in Nat /\ c = a * d /\ n = b * d
  BY Divide
<1> HIDE DEF a, b
<1>2. c + n = (a + b) * d + 0
  BY <1>1, Multiply
<1>3. ((a + b) * d + 0) % d = 0
  BY <1>1, Quotient
<1> QED
  BY <1>2, <1>3

LEMMA WholeProduct == \A n \in Nat, d \in Nat \ {0} : (n * d) % d = 0 /\ (n * d) \div d = n
<1> SUFFICES ASSUME NEW n \in Nat, NEW d \in Nat \ {0}
             PROVE  (n * d) % d = 0 /\ (n * d) \div d = n
  OBVIOUS
<1>1. n * d + 0 = n * d /\ 0 \in 0 .. d - 1
  BY Multiply
<1> QED
  BY <1>1, Quotient

LEMMA NoneIsWhole == \A d \in Nat \ {0} : 0 % d = 0
<1> SUFFICES ASSUME NEW d \in Nat \ {0} PROVE 0 % d = 0
  OBVIOUS
<1>1. (0 * d) % d = 0 /\ 0 * d = 0
  BY WholeProduct
<1> QED
  BY <1>1

LEMMA Elements ==
  ASSUME TypeOK
  PROVE  /\ elementSize \in Nat \ {0} /\ NumElems \in Nat
         /\ NumElems * elementSize <= cursor /\ cursor < (NumElems + 1) * elementSize
         /\ cursor % elementSize = 0 => cursor = NumElems * elementSize
<1>1. elementSize \in Nat \ {0} /\ cursor \in Nat
  BY SizeAssumption DEF TypeOK
<1>2. /\ NumElems \in Nat /\ cursor % elementSize \in 0 .. elementSize - 1
      /\ cursor = NumElems * elementSize + (cursor % elementSize)
  BY <1>1, Divide DEF NumElems
<1>3. NumElems * elementSize \in Nat
      /\ (NumElems + 1) * elementSize = NumElems * elementSize + elementSize
  BY <1>1, <1>2, Multiply
<1> QED
  BY <1>1, <1>2, <1>3

-----------------------------------------------------------------------------
(* Growing                                                                 *)

LEMMA FreshIsUnused ==
  ASSUME FreshArrays # {}
  PROVE  Fresh \in Array /\ mem[Fresh].state = "unused"
  BY DEF Fresh, FreshArrays

\* Releasing an array leaves all others alone.
LEMMA ReleaseOne ==
  ASSUME NEW m \in Memory, NEW a \in Array
  PROVE  /\ Released(m, a) \in Memory
         /\ \A c \in Array : c # a => Released(m, a)[c] = m[c]
         /\ Released(m, a)[a].good = {} /\ Released(m, a)[a].state # "unused"
         /\ m[a].state = "live" => Released(m, a)[a].state = "freed"
<1> DEFINE r == [state |-> IF m[a].state = "live" THEN "freed" ELSE "freed twice",
                 size |-> 0, good |-> {}]
<1>1. Released(m, a) = [m EXCEPT ![a] = r]
  BY DEF Released
<1>2. /\ r \in Cell /\ r.good = {} /\ r.state # "unused"
      /\ m[a].state = "live" => r.state = "freed"
  BY DEF Cell
<1> HIDE DEF r
<1> QED
  BY <1>1, <1>2 DEF Memory

\* mkArray moves whole elements to an array of its own, and releases nothing
\* but the builder's old array.
LEMMA MkArrayFacts ==
  ASSUME BuilderInv, ~finished, FreshArrays # {}, NEW n \in Nat,
         cursor % elementSize = 0, cursor <= n * elementSize
  PROVE  /\ Sound(MkArray(n)) /\ Careful(MkArray(n)) /\ Fresh \in Array \ results
         /\ MkArray(n)[Fresh].state = "live"
         /\ MkArray(n)[Fresh].size = n * elementSize
         /\ First(cursor) \subseteq MkArray(n)[Fresh].good
<1> DEFINE bytes == n * elementSize
           kept == IF NumElems > 0 THEN mem[elems].good \cap First(bytes) ELSE {}
           cell == [state |-> "live", size |-> bytes, good |-> kept]
           new == [mem EXCEPT ![Fresh] = cell]
<1>1. /\ elementSize \in Nat \ {0} /\ bytes \in Nat /\ cursor \in Nat /\ cursor <= bytes
      /\ NumElems \in Nat /\ cursor = NumElems * elementSize
  BY Elements, Multiply DEF BuilderInv, TypeOK
<1>2. /\ mem \in Memory /\ results \subseteq Array
      /\ \A a \in Array : mem[a].good \subseteq First(mem[a].size)
      /\ \A a \in results : mem[a].state # "unused"
  BY DEF BuilderInv, Sound, TypeOK
<1>3. Fresh \in Array \ results /\ mem[Fresh].state = "unused"
  BY <1>2, FreshIsUnused
<1>4. ASSUME NumElems > 0
      PROVE  /\ elems \in Array \ results /\ elems # Fresh /\ mem[elems].state = "live"
             /\ mem[elems].good \subseteq Nat /\ First(cursor) \subseteq mem[elems].good
  <2>1. cursor > 0
    BY <1>1, <1>4, Multiply
  <2>2. Holds(Current)
    BY <2>1 DEF BuilderInv, Filling
  <2> QED
    BY <1>2, <1>3, <2>2 DEF Holds, Current, Memory, Cell
<1>5. kept \subseteq Nat /\ kept \subseteq First(bytes) /\ First(cursor) \subseteq kept
  <2>1. First(bytes) \subseteq Nat
    BY <1>1 DEF First
  <2>2. CASE NumElems > 0
    <3>1. First(cursor) \subseteq First(bytes)
      BY <1>1 DEF First
    <3> QED
      BY <1>4, <2>1, <2>2, <3>1
  <2>3. CASE ~(NumElems > 0)
    <3>1. NumElems = 0 /\ cursor = 0
      BY <1>1, <2>3
    <3> QED
      BY <2>3, <3>1 DEF First
  <2> QED
    BY <2>2, <2>3
<1> HIDE DEF kept, bytes
<1>6. cell \in Cell
  BY <1>1, <1>5 DEF Cell
<1> HIDE DEF cell
<1>7. cell.state = "live" /\ cell.size = bytes /\ cell.good = kept
  BY DEF cell
<1>8. /\ new \in Memory /\ new[Fresh] = cell
      /\ \A a \in Array : /\ a # Fresh => new[a] = mem[a]
                          /\ new[a].good \subseteq First(new[a].size)
  BY <1>2, <1>3, <1>5, <1>6, <1>7 DEF Memory
<1>9. MkArray(n) = IF NumElems > 0 THEN Released(new, elems) ELSE new
  BY DEF MkArray, kept, bytes, cell, First
<1> HIDE DEF new
<1>10. /\ MkArray(n) \in Memory /\ MkArray(n)[Fresh] = cell
       /\ \A a \in Array : MkArray(n)[a].good \subseteq First(MkArray(n)[a].size)
       /\ \A a \in results : MkArray(n)[a] = mem[a]
       /\ \A a \in Array : MkArray(n)[a].state = "freed twice" => mem[a].state = "freed twice"
  <2>1. \A a \in results : a \in Array /\ new[a] = mem[a]
    BY <1>2, <1>3, <1>8
  <2>2. \A a \in Array : new[a].state = "freed twice" => mem[a].state = "freed twice"
    BY <1>7, <1>8
  <2>3. CASE NumElems > 0
    <3>1. new[elems].state = "live" /\ elems \notin results /\ elems # Fresh /\ elems \in Array
      BY <1>4, <1>8, <2>3
    <3>2. /\ Released(new, elems) \in Memory
          /\ \A c \in Array : c # elems => Released(new, elems)[c] = new[c]
          /\ Released(new, elems)[elems].good = {}
          /\ Released(new, elems)[elems].state = "freed"
      BY <1>8, <3>1, ReleaseOne
    <3> QED
      BY <1>3, <1>8, <1>9, <2>1, <2>2, <2>3, <3>1, <3>2
  <2>4. CASE ~(NumElems > 0)
    BY <1>8, <1>9, <2>1, <2>2, <2>4
  <2> QED
    BY <2>3, <2>4
<1>11. \A a \in results : MkArray(n)[a].state # "unused"
  BY <1>2, <1>10
<1> QED
  BY <1>3, <1>5, <1>7, <1>10, <1>11 DEF Sound, Careful, bytes

LEMMA ResizedReady ==
  ASSUME BuilderInv, ~finished, FreshArrays # {}, NEW n \in Nat \ {0},
         cursor % elementSize = 0, cursor <= n * elementSize
  PROVE  Ready(Resized(n))
<1>1. /\ Sound(MkArray(n)) /\ Careful(MkArray(n)) /\ Fresh \in Array \ results
      /\ MkArray(n)[Fresh].state = "live"
      /\ MkArray(n)[Fresh].size = n * elementSize
      /\ First(cursor) \subseteq MkArray(n)[Fresh].good
  BY MkArrayFacts
<1>2. Resized(n).mem = MkArray(n) /\ Resized(n).elems = Fresh /\ Resized(n).capacity = n
  BY DEF Resized
<1> HIDE DEF Resized
<1> QED
  BY <1>1, <1>2 DEF Ready, Holds

\* The loop of ensureSize ends with room for what was there and for n elements.
LEMMA DoubledFacts ==
  ASSUME NEW base \in Nat \ {0}, NEW n \in Nat
  PROVE  Doubled(base, n) \in Nat \ {0} /\ n <= Doubled(base, n) /\ base <= Doubled(base, n)
<1>1. Doubled(base, n) = Doubling(n)[base]
  BY DEF Doubled, Doubling
<1>2. Doubling(n)[base] \in Nat /\ n <= Doubling(n)[base] /\ base <= Doubling(n)[base]
  BY DoublingReaches
<1> QED
  BY <1>1, <1>2

\* ensureSize makes room for n elements: a builder with whole elements in it
\* can grow, any other has the room already.
LEMMA EnsureReady ==
  ASSUME BuilderInv, ~finished, FreshArrays # {}, NEW n \in Nat,
         cursor % elementSize = 0 \/ (capacity # 0 /\ n <= capacity)
  PROVE  Ready(EnsureSize(n)) /\ n <= EnsureSize(n).capacity
<1>1. capacity \in Nat /\ cursor \in Nat /\ elementSize \in Nat \ {0}
  BY Elements DEF BuilderInv, TypeOK
<1>2. CASE capacity < n \/ capacity = 0
  <2> DEFINE base == IF capacity <= 1 THEN DEFAULT_CAPACITY ELSE capacity * 2
             m == Doubled(base, n)
  <2>1. base \in Nat \ {0} /\ capacity <= base
    BY <1>1 DEF DEFAULT_CAPACITY
  <2>2. m \in Nat \ {0} /\ n <= m /\ base <= m
    <3> HIDE DEF base
    <3> QED
      BY <2>1, DoubledFacts
  <2>3. EnsureSize(n) = Resized(m)
    BY <1>2 DEF EnsureSize
  <2> HIDE DEF m, base
  <2>4. capacity <= m
    BY <1>1, <2>1, <2>2
  <2>5. cursor <= m * elementSize
    <3>1. m * elementSize \in Nat /\ capacity * elementSize \in Nat
          /\ capacity * elementSize <= m * elementSize
      BY <1>1, <2>2, <2>4, Multiply
    <3>2. cursor = 0 \/ cursor <= capacity * elementSize
      BY DEF BuilderInv, Filling, Holds, Current
    <3> QED
      BY <1>1, <3>1, <3>2
  <2>6. cursor % elementSize = 0
    BY <1>1, <1>2
  <2>7. Ready(Resized(m))
    BY <2>2, <2>5, <2>6, ResizedReady
  <2> QED
    BY <2>2, <2>3, <2>7 DEF Resized
<1>3. CASE ~(capacity < n \/ capacity = 0)
  <2>1. EnsureSize(n) = Current /\ Current.capacity = capacity /\ Current.mem = mem
    BY <1>3 DEF EnsureSize, Current
  <2>2. Ready(Current)
    <3> HIDE DEF Current
    <3> QED
      BY <1>1, <1>3, <2>1 DEF Ready, BuilderInv, Filling, Careful
  <2> QED
    BY <1>1, <1>3, <2>1, <2>2
<1> QED
  BY <1>2, <1>3

\* A step that is careful with memory and returns nothing is allowed.
LEMMA CarefulSteps ==
  ASSUME Careful(mem'), results' = results
  PROVE  BuilderStep
  BY DEF Careful, BuilderStep, ResultStep, KeepStep, ReleaseStep

\* What is stored inside a builder's array is added to what it holds.
LEMMA StoreKeeps ==
  ASSUME BuilderInv, ~finished, NEW b, Ready(b), NEW len \in Nat,
         cursor + len <= b.capacity * elementSize,
         Store(b, len, len), added' = added + len, UNCHANGED <<elementSize, finished, results>>
  PROVE  BuilderInv' /\ BuilderStep /\ capacity' = b.capacity /\ cursor' = cursor + len
<1>1. /\ elementSize \in Nat \ {0} /\ cursor \in Nat /\ cursor = added /\ finished \in BOOLEAN
      /\ elementSize \in ElementSize /\ results \subseteq Array
  BY Elements DEF BuilderInv, TypeOK, Filling
<1>2. b.elems \in Array \ results /\ b.capacity \in Nat \ {0} /\ b.mem \in Memory
  BY DEF Ready, Holds, Sound
<1> DEFINE old == b.mem[b.elems]
           P == Positions(b.mem, b.elems, cursor, len)
           new == [old EXCEPT !.good = @ \cup P]
<1>3. /\ old \in Cell /\ old.state = "live" /\ old.size = b.capacity * elementSize
      /\ First(cursor) \subseteq old.good /\ old.good \subseteq First(old.size)
  BY <1>2 DEF Ready, Holds, Sound, Memory
<1>4. P = (cursor .. cursor + len - 1) \cap First(old.size)
  BY DEF Positions, First
<1>5. /\ mem' = [b.mem EXCEPT ![b.elems] = new] /\ elems' = b.elems
      /\ capacity' = b.capacity /\ cursor' = cursor + len
  BY DEF Store
<1> HIDE DEF old, P
<1>6. b.capacity * elementSize \in Nat /\ First(old.size) \subseteq Nat
  BY <1>1, <1>2, <1>3, Multiply DEF First
<1>7. P \subseteq First(old.size) /\ First(cursor + len) \subseteq First(cursor) \cup P
  <2>1. First(cursor + len) \subseteq First(cursor) \cup (cursor .. cursor + len - 1)
    BY <1>1 DEF First
  <2>2. First(cursor + len) \subseteq First(old.size)
    BY <1>1, <1>3, <1>6 DEF First
  <2> QED
    BY <1>4, <2>1, <2>2
<1>8. /\ new \in Cell /\ new.state = "live" /\ new.size = old.size
      /\ new.good = old.good \cup P
  BY <1>3, <1>6, <1>7 DEF Cell
<1> HIDE DEF new
<1>9. /\ mem' \in Memory /\ mem'[b.elems] = new
      /\ \A a \in Array : a # b.elems => mem'[a] = b.mem[a]
  BY <1>2, <1>5, <1>8 DEF Memory
<1>10. Sound(mem)' /\ Careful(mem')
  <2>1. \A a \in Array : mem'[a].good \subseteq First(mem'[a].size)
    BY <1>3, <1>7, <1>8, <1>9 DEF Ready, Sound
  <2>2. \A a \in results : mem'[a].state # "unused" /\ mem'[a] = mem[a]
    BY <1>1, <1>2, <1>9 DEF Ready, Sound, Careful
  <2>3. \A a \in Array : mem'[a].state = "freed twice" => mem[a].state = "freed twice"
    BY <1>8, <1>9 DEF Ready, Careful
  <2> QED
    BY <1>9, <2>1, <2>2, <2>3 DEF Sound, Careful
<1>11. Filling'
  <2>1. Holds(Current)'
    <3>1. /\ Current'.mem = mem' /\ Current'.elems = b.elems
          /\ Current'.capacity = b.capacity
      BY <1>5 DEF Current
    <3> HIDE DEF Current
    <3>2. First(cursor + len) \subseteq new.good
      BY <1>3, <1>7, <1>8
    <3> QED
      BY <1>2, <1>3, <1>5, <1>8, <1>9, <3>1, <3>2 DEF Holds
  <2> QED
    BY <1>1, <1>2, <1>5, <2>1 DEF Filling
<1>12. TypeOK'
  <2>1. capacity' \in Nat /\ cursor' \in Nat /\ added' \in Nat
    BY <1>1, <1>2, <1>5
  <2>2. elems' \in Array \cup {None}
    BY <1>2, <1>5
  <2>3. mem' \in [Array -> [state : {"unused", "live", "freed", "freed twice"},
                           size : Nat, good : SUBSET Nat]]
    BY <1>9 DEF Memory, Cell
  <2> QED
    BY <1>1, <2>1, <2>2, <2>3 DEF TypeOK
<1>13. BuilderStep
  BY <1>10, CarefulSteps
<1> QED
  BY <1>5, <1>10, <1>11, <1>12, <1>13 DEF BuilderInv

-----------------------------------------------------------------------------
(* The steps of a builder                                                  *)

LEMMA InitBuilder == Init => BuilderInv
<1> SUFFICES ASSUME Init PROVE BuilderInv
  OBVIOUS
<1>1. Unused \in Cell /\ Unused.good = {} /\ Unused.state = "unused"
  BY DEF Unused, Cell
<1>2. mem \in Memory /\ \A a \in Array : mem[a] = Unused
  BY <1>1 DEF Init, Memory
<1>3. Sound(mem) /\ Filling
  BY <1>1, <1>2, ArrayAssumption DEF Init, Sound, Filling
<1> QED
  BY <1>2, <1>3 DEF Init, BuilderInv, TypeOK, Memory, Cell

\* Bytes that make whole elements, added to a builder that has whole elements.
LEMMA AppendWhole ==
  ASSUME BuilderInv, ~finished, FreshArrays # {}, cursor % elementSize = 0,
         NEW n \in Nat, NEW len \in Nat, len <= n * elementSize
  PROVE  Ready(EnsureSize(NumElems + n))
         /\ cursor + len <= EnsureSize(NumElems + n).capacity * elementSize
<1>1. /\ elementSize \in Nat \ {0} /\ cursor \in Nat /\ NumElems \in Nat
      /\ cursor = NumElems * elementSize
  BY Elements DEF BuilderInv, TypeOK
<1> DEFINE k == EnsureSize(NumElems + n).capacity
<1>2. Ready(EnsureSize(NumElems + n)) /\ k \in Nat /\ NumElems + n <= k
  BY <1>1, EnsureReady DEF Ready
<1> HIDE DEF k
<1>3. (NumElems + n) * elementSize = NumElems * elementSize + n * elementSize
      /\ (NumElems + n) * elementSize <= k * elementSize
  BY <1>1, <1>2, Multiply
<1>4. n * elementSize \in Nat /\ k * elementSize \in Nat
  BY <1>1, <1>2, Multiply
<1>5. cursor + len <= k * elementSize
  BY <1>1, <1>3, <1>4
<1> QED
  BY <1>2, <1>5 DEF k

LEMMA AddElementInv ==
  ASSUME BuilderInv, cursor % elementSize = 0, AddElement
  PROVE  BuilderInv' /\ BuilderStep /\ cursor' % elementSize = 0
<1>1. elementSize \in Nat \ {0} /\ cursor \in Nat /\ ~finished /\ FreshArrays # {}
  BY Elements DEF BuilderInv, TypeOK, AddElement, Adding
<1> DEFINE b == EnsureSize(NumElems + 1)
<1>2. Ready(b) /\ cursor + elementSize <= b.capacity * elementSize
  BY <1>1, AppendWhole, Multiply
<1>3. /\ Store(b, elementSize, elementSize) /\ added' = added + elementSize
      /\ UNCHANGED <<elementSize, finished, results>>
  BY DEF AddElement
<1> HIDE DEF b
<1>4. BuilderInv' /\ BuilderStep /\ cursor' = cursor + elementSize
  BY <1>1, <1>2, <1>3, StoreKeeps
<1>5. elementSize % elementSize = 0
  BY <1>1, WholeProduct
<1> QED
  BY <1>1, <1>4, <1>5, WholeSum

LEMMA AppendSeqInv ==
  ASSUME BuilderInv, cursor % elementSize = 0, NEW n \in Count, AppendSeq(n)
  PROVE  BuilderInv' /\ BuilderStep /\ cursor' % elementSize = 0
<1>1. /\ elementSize \in Nat \ {0} /\ cursor \in Nat /\ ~finished /\ FreshArrays # {}
      /\ n \in Nat
  BY Elements, SizeAssumption DEF BuilderInv, TypeOK, AppendSeq, Adding
<1> DEFINE len == n * elementSize
           b == EnsureSize(NumElems + n)
<1>2. len \in Nat /\ len % elementSize = 0
  BY <1>1, Multiply, WholeProduct
<1>3. Ready(b) /\ cursor + len <= b.capacity * elementSize
  BY <1>1, <1>2, AppendWhole
<1>4. Store(b, len, len) /\ added' = added + len /\ UNCHANGED <<elementSize, finished, results>>
  BY DEF AppendSeq
<1> HIDE DEF b, len
<1>5. BuilderInv' /\ BuilderStep /\ cursor' = cursor + len
  BY <1>1, <1>2, <1>3, <1>4, StoreKeeps
<1> QED
  BY <1>1, <1>2, <1>4, <1>5, WholeSum

LEMMA AppendBytesInv ==
  ASSUME BuilderInv, cursor % elementSize = 0, NEW len \in Chunk, len % elementSize = 0,
         AppendBytes(len) \/ \E direct \in BOOLEAN : Write(len, direct)
  PROVE  BuilderInv' /\ BuilderStep /\ cursor' % elementSize = 0
<1>1. /\ elementSize \in Nat \ {0} /\ cursor \in Nat /\ ~finished /\ FreshArrays # {}
      /\ len \in Nat
  BY Elements, SizeAssumption DEF BuilderInv, TypeOK, AppendBytes, Write, Adding
<1> DEFINE n == CeilDiv(len, elementSize)
           b == EnsureSize(NumElems + n)
<1>2. n \in Nat /\ len <= n * elementSize
  BY <1>1, CeilFacts
<1>3. Ready(b) /\ cursor + len <= b.capacity * elementSize
  <2> HIDE DEF n
  <2> QED
    BY <1>1, <1>2, AppendWhole
<1>4. b.mem[b.elems].size = b.capacity * elementSize /\ b.capacity * elementSize \in Nat
  BY <1>1, <1>3, Multiply DEF Ready, Holds
<1>5. Store(b, len, len) /\ added' = added + len /\ UNCHANGED <<elementSize, finished, results>>
  <2>1. CASE AppendBytes(len)
    BY <2>1 DEF AppendBytes
  <2>2. ASSUME NEW direct \in BOOLEAN, Write(len, direct)
        PROVE  Store(b, len, len) /\ added' = added + len
               /\ UNCHANGED <<elementSize, finished, results>>
    <3> DEFINE fits == b.mem[b.elems].size - cursor
               writeLen == IF direct \/ len <= fits THEN len ELSE fits
    <3>1. /\ Store(b, writeLen, writeLen) /\ added' = added + writeLen
          /\ UNCHANGED <<elementSize, finished, results>>
      BY <2>2 DEF Write
    <3>2. len <= fits
      <4> HIDE DEF b
      <4> QED
        BY <1>1, <1>3, <1>4
    <3> QED
      BY <3>1, <3>2
  <2> QED
    BY <2>1, <2>2
<1> HIDE DEF b
<1>6. BuilderInv' /\ BuilderStep /\ cursor' = cursor + len
  BY <1>1, <1>3, <1>5, StoreKeeps
<1> QED
  BY <1>1, <1>5, <1>6, WholeSum
LEMMA SizeHintInv ==
  ASSUME BuilderInv, cursor % elementSize = 0, NEW n \in Nat, SizeHint(n)
  PROVE  BuilderInv' /\ BuilderStep /\ ~finished' /\ cursor' = cursor /\ capacity' = n
<1>1. /\ ~finished /\ FreshArrays # {} /\ capacity < n
      /\ mem' = MkArray(n) /\ elems' = Fresh /\ capacity' = n
      /\ UNCHANGED <<elementSize, cursor, added, finished, results>>
  BY DEF SizeHint
<1>2. capacity \in Nat /\ cursor \in Nat /\ elementSize \in Nat \ {0}
  BY Elements DEF BuilderInv, TypeOK
<1>3. n \in Nat \ {0} /\ cursor <= n * elementSize
  <2>1. n * elementSize \in Nat /\ capacity * elementSize <= n * elementSize
        /\ capacity * elementSize \in Nat
    BY <1>1, <1>2, Multiply
  <2>2. cursor = 0 \/ cursor <= capacity * elementSize
    BY <1>1 DEF BuilderInv, Filling, Holds, Current
  <2> QED
    BY <1>1, <1>2, <2>1, <2>2
<1>4. /\ Sound(mem') /\ Careful(mem') /\ elems' \in Array \ results
      /\ mem'[elems'].state = "live" /\ mem'[elems'].size = n * elementSize
      /\ First(cursor) \subseteq mem'[elems'].good
  BY <1>1, <1>3, MkArrayFacts
<1>5. Filling'
  <2>1. Current'.mem = mem' /\ Current'.elems = elems' /\ Current'.capacity = n
    BY <1>1 DEF Current
  <2> HIDE DEF Current
  <2> QED
    BY <1>1, <1>3, <1>4, <2>1 DEF BuilderInv, Filling, Holds
<1>6. TypeOK'
  <2>1. mem' \in [Array -> [state : {"unused", "live", "freed", "freed twice"},
                           size : Nat, good : SUBSET Nat]]
    BY <1>4 DEF Sound, Memory, Cell
  <2> QED
    BY <1>1, <1>4, <2>1 DEF BuilderInv, TypeOK
<1> QED
  BY <1>1, <1>4, <1>5, <1>6, CarefulSteps DEF BuilderInv, Sound

\* An array that is released or forgotten, and that nobody is filling.
LEMMA OthersStay ==
  ASSUME BuilderInv, NEW a \in Array, mem' \in Memory,
         \A e \in Array : e # a => mem'[e] = mem[e],
         mem'[a].good = {}, results' \subseteq results,
         a \in results' => mem'[a].state # "unused"
  PROVE  /\ Sound(mem)'
         /\ mem' \in [Array -> [state : {"unused", "live", "freed", "freed twice"},
                                size : Nat, good : SUBSET Nat]]
<1>1. mem \in Memory /\ results \subseteq Array
  BY DEF BuilderInv, Sound, TypeOK
<1>2. \A e \in Array : mem'[e].good \subseteq First(mem'[e].size)
  BY DEF BuilderInv, Sound
<1>3. \A e \in results' : mem'[e].state # "unused"
  BY <1>1 DEF BuilderInv, Sound
<1> QED
  BY <1>2, <1>3 DEF Sound, Memory, Cell

\* clear, before result() or after it
LEMMA ClearInv ==
  ASSUME BuilderInv, Clear
  PROVE  BuilderInv' /\ BuilderStep /\ cursor' = 0
<1>1. /\ mem' = IF NumElems > 0 THEN Released(mem, elems) ELSE mem
      /\ capacity' = 0 /\ cursor' = 0 /\ added' = 0 /\ finished' = FALSE
      /\ UNCHANGED <<elementSize, elems, results>>
  BY DEF Clear
<1>2. Filling'
  BY <1>1 DEF Filling
<1>3. mem \in Memory /\ results \subseteq Array /\ finished \in BOOLEAN
  BY DEF BuilderInv, Sound, TypeOK
<1>4. CASE NumElems > 0
  <2>1. /\ elems \in Array
        /\ ~finished => elems \notin results /\ mem[elems].state = "live"
        /\ elems \in results => mem[elems].state = "live" /\ capacity = NumElems
    <3>1. CASE finished
      BY <1>4, <3>1 DEF BuilderInv, Handed
    <3>2. CASE ~finished
      <4>1. elementSize \in Nat \ {0} /\ cursor \in Nat /\ NumElems \in Nat
            /\ NumElems * elementSize <= cursor
        BY Elements DEF BuilderInv, TypeOK
      <4>2. 1 * elementSize <= NumElems * elementSize /\ 1 * elementSize = elementSize
            /\ NumElems * elementSize \in Nat
        BY <1>4, <4>1, Multiply
      <4>3. cursor > 0
        BY <4>1, <4>2
      <4>4. Holds(Current) /\ Current.elems = elems /\ Current.mem = mem
        BY <3>2, <4>3 DEF BuilderInv, Filling, Current
      <4> QED
        BY <3>2, <4>4 DEF Holds
    <3> QED
      BY <1>3, <3>1, <3>2
  <2>2. /\ mem' \in Memory /\ \A c \in Array : c # elems => mem'[c] = mem[c]
        /\ mem'[elems].good = {} /\ mem'[elems].state # "unused"
        /\ mem[elems].state = "live" => mem'[elems].state = "freed"
    BY <1>1, <1>3, <1>4, <2>1, ReleaseOne
  <2>3. /\ Sound(mem)'
        /\ mem' \in [Array -> [state : {"unused", "live", "freed", "freed twice"},
                               size : Nat, good : SUBSET Nat]]
    BY <1>1, <2>1, <2>2, OthersStay
  <2>4. KeepStep
    BY <1>1, <1>3, <2>1, <2>2 DEF KeepStep, TakesBack
  <2>5. ReleaseStep
    BY <1>1, <1>3, <2>1, <2>2 DEF ReleaseStep
  <2> QED
    BY <1>1, <1>2, <2>3, <2>4, <2>5 DEF BuilderInv, TypeOK, BuilderStep, ResultStep
<1>5. CASE ~(NumElems > 0)
  <2>1. BuilderStep
    BY <1>1, <1>5, CarefulSteps DEF Careful
  <2> QED
    BY <1>1, <1>2, <1>5, <2>1 DEF BuilderInv, Sound, TypeOK
<1> QED
  BY <1>4, <1>5

\* result() hands out whole elements, all of them, in an array of their own.
LEMMA ResultInv ==
  ASSUME BuilderInv, cursor % elementSize = 0, Result
  PROVE  /\ BuilderInv' /\ BuilderStep /\ finished' /\ cursor' = cursor
         /\ \E a \in Array : /\ results' = results \cup {a}
                             /\ mem'[a].size = cursor /\ mem'[a].good = First(cursor)
<1>1. /\ ~finished /\ FreshArrays # {} /\ finished' = TRUE
      /\ UNCHANGED <<elementSize, elems, capacity, cursor, added>>
      /\ added = cursor
  BY DEF Result, BuilderInv, Filling
<1>2. /\ elementSize \in Nat \ {0} /\ cursor \in Nat /\ capacity \in Nat /\ NumElems \in Nat
      /\ cursor = NumElems * elementSize
  BY Elements DEF BuilderInv, TypeOK
<1>3. NumElems > 0 => elems \in Array \ results /\ mem[elems].state = "live"
  <2> SUFFICES ASSUME NumElems > 0 PROVE elems \in Array \ results /\ mem[elems].state = "live"
    OBVIOUS
  <2>1. cursor > 0
    BY <1>2, Multiply
  <2>2. Holds(Current) /\ Current.elems = elems /\ Current.mem = mem
    BY <1>1, <2>1 DEF BuilderInv, Filling, Current
  <2> QED
    BY <2>2 DEF Holds
<1>4. \E a \in Array \ results :
          /\ results' = results \cup {a} /\ Sound(mem') /\ Careful(mem') /\ mem'[a].state = "live"
          /\ mem'[a].size = cursor /\ First(cursor) \subseteq mem'[a].good
          /\ NumElems > 0 /\ a = elems => mem' = mem /\ capacity = NumElems
  <2>1. CASE capacity # 0 /\ capacity = NumElems
    <3>1. results' = results \cup {elems} /\ mem' = mem
      BY <2>1 DEF Result
    <3>2. /\ elems \in Array \ results /\ mem[elems].state = "live"
          /\ mem[elems].size = capacity * elementSize
          /\ First(cursor) \subseteq mem[elems].good
      <4>1. Holds(Current) /\ Current.elems = elems /\ Current.mem = mem /\ Current.capacity = capacity
        BY <1>1, <2>1 DEF BuilderInv, Filling, Current
      <4> QED
        BY <4>1 DEF Holds
    <3> QED
      BY <1>2, <2>1, <3>1, <3>2 DEF BuilderInv, Careful
  <2>2. CASE ~(capacity # 0 /\ capacity = NumElems)
    <3>1. results' = results \cup {Fresh} /\ mem' = MkArray(NumElems)
      BY <2>2 DEF Result
    <3>2. /\ Sound(MkArray(NumElems)) /\ Careful(MkArray(NumElems)) /\ Fresh \in Array \ results
          /\ MkArray(NumElems)[Fresh].state = "live"
          /\ MkArray(NumElems)[Fresh].size = NumElems * elementSize
          /\ First(cursor) \subseteq MkArray(NumElems)[Fresh].good
      <4>1. cursor <= NumElems * elementSize
        BY <1>2
      <4> QED
        BY <1>1, <1>2, <4>1, MkArrayFacts
    <3>3. NumElems > 0 => Fresh # elems
      BY <1>1, <1>3, FreshIsUnused
    <3> QED
      BY <1>2, <3>1, <3>2, <3>3
  <2> QED
    BY <2>1, <2>2
<1>5. PICK a \in Array \ results :
          /\ results' = results \cup {a} /\ Sound(mem') /\ Careful(mem') /\ mem'[a].state = "live"
          /\ mem'[a].size = cursor /\ First(cursor) \subseteq mem'[a].good
          /\ NumElems > 0 /\ a = elems => mem' = mem /\ capacity = NumElems
  BY <1>4
<1>6. mem'[a].good = First(cursor)
  BY <1>5 DEF Sound
<1>7. Sound(mem)' /\ mem' \in [Array -> [state : {"unused", "live", "freed", "freed twice"},
                                        size : Nat, good : SUBSET Nat]]
  <2>1. \A e \in results' : mem'[e].state # "unused"
    BY <1>5 DEF Sound
  <2> QED
    BY <1>5, <2>1 DEF Sound, Memory, Cell
<1>8. Handed'
  <2>1. NumElems' = NumElems
    BY <1>1 DEF NumElems
  <2>2. elems \in results' => elems = a \/ elems \in results
    BY <1>5
  <2> QED
    BY <1>1, <1>3, <1>5, <2>1, <2>2 DEF Handed
<1>9. BuilderStep
  <2>1. ResultStep
    <3>1. added - (added % elementSize) = cursor
      BY <1>1, <1>2
    <3> QED
      BY <1>5, <1>6, <3>1 DEF ResultStep, First
  <2>2. KeepStep
    BY <1>5 DEF KeepStep, Careful
  <2>3. ReleaseStep
    BY <1>5 DEF ReleaseStep, Careful
  <2> QED
    BY <2>1, <2>2, <2>3 DEF BuilderStep
<1> QED
  BY <1>1, <1>5, <1>6, <1>7, <1>8, <1>9 DEF BuilderInv, TypeOK

LEMMA OtherInv ==
  ASSUME BuilderInv, NewBuilder \/ \E a \in Array : FreeResult(a) \/ Sweep(a)
  PROVE  BuilderInv' /\ BuilderStep /\ (cursor' = cursor \/ cursor' = 0)
<1>1. CASE NewBuilder
  <2>1. /\ elems' = None /\ capacity' = 0 /\ cursor' = 0 /\ added' = 0 /\ finished' = FALSE
        /\ UNCHANGED <<elementSize, mem, results>>
    BY <1>1 DEF NewBuilder
  <2>2. BuilderStep
    BY <2>1, CarefulSteps DEF Careful
  <2> QED
    BY <2>1, <2>2, ArrayAssumption DEF BuilderInv, TypeOK, Sound, Filling
<1>2. ASSUME NEW a \in Array, FreeResult(a) \/ Sweep(a)
      PROVE  BuilderInv' /\ BuilderStep /\ cursor' = cursor
  <2>1. /\ UNCHANGED <<elementSize, elems, capacity, cursor, added, finished>>
        /\ results' \subseteq results /\ a \notin results' /\ results' = results \ {a}
        /\ mem \in Memory
    BY <1>2 DEF FreeResult, Sweep, BuilderInv, Sound
  <2>2. /\ mem' \in Memory /\ \A e \in Array : e # a => mem'[e] = mem[e]
        /\ mem'[a].good = {}
        /\ a \in results \/ (mem'[a].state = "unused" /\ a # elems)
    <3>1. CASE FreeResult(a)
      <4>1. a \in results /\ mem' = Released(mem, a)
        BY <3>1 DEF FreeResult
      <4> QED
        BY <2>1, <4>1, ReleaseOne
    <3>2. CASE Sweep(a)
      <4>1. mem' = [mem EXCEPT ![a] = Unused] /\ a # elems
        BY <3>2 DEF Sweep
      <4>2. Unused \in Cell /\ Unused.good = {} /\ Unused.state = "unused"
        BY DEF Unused, Cell
      <4> QED
        BY <2>1, <4>1, <4>2 DEF Memory
    <3> QED
      BY <1>2, <3>1, <3>2
  <2>3. /\ Sound(mem)'
        /\ mem' \in [Array -> [state : {"unused", "live", "freed", "freed twice"},
                               size : Nat, good : SUBSET Nat]]
    BY <2>1, <2>2, OthersStay
  <2>4. BuilderStep
    <3>1. ResultStep /\ KeepStep
      BY <2>1, <2>2 DEF ResultStep, KeepStep, BuilderInv, TypeOK
    <3>2. ReleaseStep
      BY <2>1, <2>2 DEF ReleaseStep
    <3> QED
      BY <3>1, <3>2 DEF BuilderStep
  <2>5. ASSUME ~finished' PROVE Filling'
    <3>1. ~finished /\ Filling
      BY <2>1, <2>5 DEF BuilderInv
    <3>2. CASE capacity = 0
      BY <2>1, <3>1, <3>2 DEF Filling
    <3>3. CASE capacity # 0
      <4>1. Holds(Current) /\ Current.elems = elems /\ Current.mem = mem /\ Current.capacity = capacity
        BY <3>1, <3>3 DEF Filling, Current
      <4>2. Current'.elems = elems /\ Current'.mem = mem' /\ Current'.capacity = capacity
        BY <2>1 DEF Current
      <4> HIDE DEF Current
      <4>3. elems \in Array \ results' /\ mem'[elems] = mem[elems]
        BY <2>1, <2>2, <3>1, <4>1 DEF Holds
      <4>4. Holds(Current)'
        BY <2>1, <4>1, <4>2, <4>3 DEF Holds
      <4> QED
        BY <2>1, <3>1, <3>3, <4>3, <4>4 DEF Filling
    <3> QED
      BY <3>2, <3>3
  <2>6. ASSUME finished' PROVE Handed'
    <3>1. Handed /\ NumElems' = NumElems
      BY <2>1, <2>6 DEF BuilderInv, NumElems
    <3> QED
      BY <2>1, <2>2, <3>1 DEF Handed
  <2> QED
    BY <2>1, <2>3, <2>4, <2>5, <2>6 DEF BuilderInv, TypeOK
<1> QED
  BY <1>1, <1>2

LEMMA BuilderRests ==
  ASSUME BuilderInv, UNCHANGED vars
  PROVE  BuilderInv'
<1>1. Sound(mem)' /\ TypeOK'
  BY DEF BuilderInv, vars, Sound, TypeOK
<1>2. (Filling => Filling') /\ (Handed => Handed')
  BY DEF Filling, Handed, NumElems, Holds, Current, vars
<1> QED
  BY <1>1, <1>2 DEF BuilderInv, vars

LEMMA NextBuilder ==
  ASSUME WholeElements, BuilderInv, cursor % elementSize = 0, Next
  PROVE  BuilderInv' /\ elementSize' = elementSize /\ cursor' % elementSize = 0 /\ BuilderStep
<1>0. elementSize \in Nat \ {0} /\ 0 % elementSize = 0
  BY Elements, NoneIsWhole DEF BuilderInv
<1>1. CASE AddElement
  BY <1>1, AddElementInv DEF AddElement
<1>2. ASSUME NEW n \in Count, AppendSeq(n)
      PROVE  BuilderInv' /\ elementSize' = elementSize /\ cursor' % elementSize = 0 /\ BuilderStep
  BY <1>2, AppendSeqInv DEF AppendSeq
<1>3. ASSUME NEW n \in Count, SizeHint(n)
      PROVE  BuilderInv' /\ elementSize' = elementSize /\ cursor' % elementSize = 0 /\ BuilderStep
  <2>1. n \in Nat /\ elementSize' = elementSize
    BY <1>3, SizeAssumption DEF SizeHint
  <2> QED
    BY <1>3, <2>1, SizeHintInv
<1>4. ASSUME NEW len \in Chunk, len % elementSize = 0,
             AppendBytes(len) \/ \E direct \in BOOLEAN : Write(len, direct)
      PROVE  BuilderInv' /\ elementSize' = elementSize /\ cursor' % elementSize = 0 /\ BuilderStep
  <2>1. elementSize' = elementSize
    BY <1>4 DEF AppendBytes, Write
  <2> QED
    BY <1>4, <2>1, AppendBytesInv
<1>5. CASE Clear
  BY <1>0, <1>5, ClearInv DEF Clear
<1>6. CASE Result
  BY <1>6, ResultInv DEF Result
<1>7. ASSUME NewBuilder \/ \E a \in Array : FreeResult(a) \/ Sweep(a)
      PROVE  BuilderInv' /\ elementSize' = elementSize /\ cursor' % elementSize = 0 /\ BuilderStep
  <2>1. elementSize' = elementSize
    BY <1>7 DEF NewBuilder, FreeResult, Sweep
  <2> QED
    BY <1>0, <1>7, <2>1, OtherInv
<1> QED
  BY <1>1, <1>2, <1>3, <1>4, <1>5, <1>6, <1>7 DEF Next, WholeElements

-----------------------------------------------------------------------------
(* Loading files                                                           *)

\* Files hold whole elements, whoever wrote them.
WholeFiles == \A e \in ElementSize : /\ MaxWrite % e = 0
                                     /\ \A n \in FileLength \cup SaveLength : n % e = 0

\* The array a that was loaded is the file.
IsFile(a) == mem[a].size = fileSize /\ mem[a].good = First(fileSize)

LoadTypes == /\ step \in {"client", "file", "hint", "transfer", "done"}
             /\ fileSize \in Nat /\ saved \in Nat /\ pos \in Nat /\ moved \in Nat
             /\ pos + moved <= fileSize
             /\ fileSize % elementSize = 0
             /\ saved <= MaxWrite => fileSize = saved

\* The loading client's builder is new, then it has the room that the hint
\* asked for, and at last the array is the file.
LoadInv == /\ LoadTypes
           /\ step \in {"file", "hint"} => /\ capacity = 0 /\ cursor = 0 /\ ~finished
                                           /\ pos = 0 /\ moved = 0
           /\ step \in {"file", "hint", "transfer"} => results = {}
           /\ step = "client" => cursor % elementSize = 0
           /\ step = "transfer" => /\ ~finished /\ cursor = pos + moved
                                   /\ fileSize = capacity * elementSize
           /\ step = "done" => results # {} /\ \A a \in results : IsFile(a)

TransferInv == BuilderInv /\ LoadInv

LEMMA InitTransfer == TransferInit => TransferInv
<1> SUFFICES ASSUME TransferInit PROVE TransferInv
  OBVIOUS
<1>1. BuilderInv
  BY InitBuilder DEF TransferInit
<1>2. elementSize \in Nat \ {0} /\ 0 % elementSize = 0
  BY <1>1, Elements, NoneIsWhole DEF BuilderInv
<1> QED
  BY <1>1, <1>2 DEF TransferInit, Init, TransferInv, LoadInv, LoadTypes

\* A chunk goes where the hint made room for it, even if it ends inside an
\* element.
LEMMA ChunkInv ==
  ASSUME TransferInv, NEW len \in 1 .. TransferSize, Chunks(len)
  PROVE  /\ BuilderInv' /\ BuilderStep /\ cursor' = cursor + len /\ capacity' = capacity
         /\ moved' = moved + len /\ pos + moved' <= fileSize
         /\ UNCHANGED <<elementSize, finished, results, step, fileSize, saved, pos>>
<1>1. /\ step = "transfer" /\ ~finished /\ FreshArrays # {}
      /\ moved' = moved + len /\ UNCHANGED <<step, fileSize, saved, pos>>
      /\ UNCHANGED <<elementSize, finished, results>>
  BY DEF Chunks, Write, Adding
<1>2. /\ elementSize \in Nat \ {0} /\ capacity \in Nat /\ cursor \in Nat /\ len \in Nat \ {0}
      /\ fileSize \in Nat /\ pos \in Nat /\ moved \in Nat
      /\ cursor = pos + moved /\ fileSize = capacity * elementSize
  <2>1. elementSize \in Nat \ {0} /\ capacity \in Nat /\ cursor \in Nat
    BY Elements DEF TransferInv, BuilderInv, TypeOK
  <2>2. len \in Nat \ {0}
    BY TransferAssumption
  <2> QED
    BY <1>1, <2>1, <2>2 DEF TransferInv, LoadInv, LoadTypes
<1>3. pos + moved + len <= fileSize
  BY <1>1, <1>2, TransferAssumption DEF Chunks, Smaller
<1>4. capacity # 0
  <2> SUFFICES ASSUME capacity = 0 PROVE FALSE
    OBVIOUS
  <2>1. fileSize = 0
    BY <1>2
  <2> QED
    BY <1>2, <1>3, <2>1
<1> DEFINE n == NumElems + CeilDiv(len, elementSize)
           b == EnsureSize(n)
<1>5. n \in Nat /\ n <= capacity
  <2>1. cursor + len <= capacity * elementSize
    BY <1>2, <1>3
  <2>2. NumElems + CeilDiv(len, elementSize) <= capacity
    BY <1>2, <2>1, FloorCeil DEF NumElems
  <2>3. CeilDiv(len, elementSize) \in Nat /\ NumElems \in Nat
    BY <1>2, CeilFacts, Elements DEF TransferInv, BuilderInv
  <2> QED
    BY <2>2, <2>3
<1>6. Ready(b) /\ b.capacity = capacity
  <2> HIDE DEF n
  <2>1. b = Current /\ Current.capacity = capacity
    BY <1>2, <1>4, <1>5 DEF EnsureSize, Current
  <2>2. Ready(b)
    BY <1>1, <1>4, <1>5, EnsureReady DEF TransferInv
  <2> QED
    BY <2>1, <2>2
<1>7. Store(b, len, len) /\ added' = added + len
  BY DEF Chunks, Write
<1> HIDE DEF b
<1>8. cursor + len <= b.capacity * elementSize
  BY <1>2, <1>3, <1>6
<1>9. BuilderInv' /\ BuilderStep /\ capacity' = capacity /\ cursor' = cursor + len
  BY <1>1, <1>2, <1>6, <1>7, <1>8, StoreKeeps DEF TransferInv
<1> QED
  BY <1>1, <1>2, <1>3, <1>9

LEMMA NextTransfer ==
  ASSUME WholeElements, WholeFiles, TransferInv, [TransferNext]_allvars
  PROVE  TransferInv' /\ (UNCHANGED <<mem, results>> \/ BuilderStep)
<1> USE DEF TransferInv, LoadInv, LoadTypes, tvars
<1>0. elementSize \in ElementSize /\ elementSize \in Nat \ {0} /\ 0 % elementSize = 0
  <2>1. TypeOK
    BY DEF BuilderInv
  <2>2. elementSize \in ElementSize
    BY <2>1 DEF TypeOK
  <2> QED
    BY <2>1, <2>2, Elements, NoneIsWhole
<1>1. CASE UseBuilder
  <2>1. Next /\ step \in {"file", "client"} /\ step' = "client"
        /\ UNCHANGED <<fileSize, saved, pos, moved>>
    BY <1>1 DEF UseBuilder
  <2>2. cursor % elementSize = 0
    BY <1>0, <2>1
  <2>3. BuilderInv' /\ elementSize' = elementSize /\ cursor' % elementSize = 0 /\ BuilderStep
    BY <2>1, <2>2, NextBuilder
  <2> QED
    BY <2>1, <2>3
<1>2. ASSUME NEW n \in FileLength, Existing(n)
      PROVE  TransferInv' /\ UNCHANGED <<mem, results>>
  <2>1. n \in Nat /\ n % elementSize = 0
    BY <1>0, TransferAssumption DEF WholeFiles
  <2>2. /\ step = "file" /\ fileSize' = n /\ saved' = n /\ step' = "hint"
        /\ UNCHANGED <<vars, pos, moved>>
    BY <1>2 DEF Existing
  <2>3. BuilderInv'
    BY <2>2, BuilderRests
  <2> QED
    BY <2>1, <2>2, <2>3 DEF vars
<1>3. ASSUME NEW n \in SaveLength, SaveTo(n)
      PROVE  TransferInv' /\ UNCHANGED <<mem, results>>
  <2>1. n \in Nat /\ MaxWrite \in Nat /\ n % elementSize = 0 /\ MaxWrite % elementSize = 0
    BY <1>0, TransferAssumption DEF WholeFiles
  <2>2. /\ fileSize' \in Nat /\ saved' = n /\ fileSize' % elementSize = 0
        /\ saved' <= MaxWrite => fileSize' = saved'
    BY <1>3, <2>1 DEF SaveTo, Smaller
  <2>3. step = "file" /\ step' = "hint" /\ UNCHANGED <<vars, pos, moved>>
    BY <1>3 DEF SaveTo
  <2>4. BuilderInv'
    BY <2>3, BuilderRests
  <2>5. LoadTypes'
    <3>1. pos' = 0 /\ moved' = 0 /\ saved' \in Nat /\ elementSize' = elementSize
      BY <2>1, <2>2, <2>3 DEF vars
    <3>2. pos' + moved' <= fileSize'
      BY <2>2, <3>1
    <3> QED
      BY <2>2, <2>3, <3>1, <3>2
  <2>6. LoadInv'
    BY <2>3, <2>5 DEF vars
  <2> QED
    BY <2>3, <2>4, <2>6 DEF vars
<1>4. CASE HintSize
  <2> DEFINE n == fileSize \div elementSize
  <2>1. n \in Nat /\ fileSize = n * elementSize
    <3>1. /\ n \in Nat /\ fileSize = n * elementSize + (fileSize % elementSize)
          /\ fileSize % elementSize = 0
      BY <1>0, Divide
    <3>2. n * elementSize \in Nat
      BY <1>0, <3>1, Multiply
    <3> HIDE DEF n
    <3> QED
      BY <3>1, <3>2
  <2>2. /\ step = "hint" /\ step' = "transfer" /\ UNCHANGED <<fileSize, saved, pos, moved>>
        /\ IF capacity < n THEN SizeHint(n) ELSE UNCHANGED vars
    BY <1>4 DEF HintSize
  <2> HIDE DEF n
  <2>3. /\ BuilderInv' /\ BuilderStep /\ ~finished' /\ cursor' = cursor /\ capacity' = n
        /\ UNCHANGED <<elementSize, results>>
    <3>1. CASE capacity < n
      BY <1>0, <2>1, <2>2, <3>1, SizeHintInv DEF SizeHint
    <3>2. CASE ~(capacity < n)
      <4>1. capacity = n /\ UNCHANGED vars
        BY <2>1, <2>2, <3>2
      <4>2. BuilderStep
        BY <4>1, CarefulSteps DEF vars, Careful
      <4> QED
        BY <2>2, <4>1, <4>2, BuilderRests DEF vars
    <3> QED
      BY <3>1, <3>2
  <2> QED
    BY <2>1, <2>2, <2>3 
<1>5. CASE TransferReturns
  <2>1. /\ step = "transfer" /\ pos' = pos + moved /\ moved' = 0
        /\ UNCHANGED <<vars, step, fileSize, saved>>
    BY <1>5 DEF TransferReturns
  <2>2. BuilderInv'
    BY <2>1, BuilderRests
  <2> QED
    BY <2>1, <2>2 DEF vars
<1>6. ASSUME NEW len \in 1 .. TransferSize, Chunks(len)
      PROVE  TransferInv' /\ BuilderStep
  <2>1. /\ BuilderInv' /\ BuilderStep /\ cursor' = cursor + len /\ capacity' = capacity
        /\ moved' = moved + len /\ pos + moved' <= fileSize
        /\ UNCHANGED <<elementSize, finished, results, step, fileSize, saved, pos>>
    BY <1>6, ChunkInv
  <2>2. step = "transfer" /\ len \in Nat
    BY <1>6, TransferAssumption DEF Chunks
  <2> QED
    BY <2>1, <2>2
<1>7. CASE LoadResult
  <2>1. /\ step = "transfer" /\ pos >= fileSize /\ Result /\ step' = "done"
        /\ UNCHANGED <<fileSize, saved, pos, moved>>
    BY <1>7 DEF LoadResult
  <2>2. cursor = fileSize /\ cursor % elementSize = 0
    BY <2>1
  <2>3. BuilderInv' /\ BuilderStep /\ elementSize' = elementSize
    BY <2>1, <2>2, ResultInv DEF Result
  <2>4. PICK a \in Array : /\ results' = results \cup {a}
                           /\ mem'[a].size = cursor /\ mem'[a].good = First(cursor)
    BY <2>1, <2>2, ResultInv
  <2> QED
    BY <2>1, <2>2, <2>3, <2>4 DEF IsFile
<1>8. CASE Done \/ UNCHANGED allvars
  <2>1. UNCHANGED <<vars, tvars>>
    BY <1>8 DEF Done, allvars
  <2>2. BuilderInv'
    BY <2>1, BuilderRests
  <2> QED
    BY <2>1, <2>2 DEF vars, IsFile
<1> QED
  BY <1>1, <1>2, <1>3, <1>4, <1>5, <1>6, <1>7, <1>8 DEF TransferNext

-----------------------------------------------------------------------------
(* Streams                                                                 *)

\* Streams are made of bytes, and clients that read one byte ask for it.
BytesAskedFor == ~WideStreams /\ ~ReadsBlindly

StreamTypes == /\ array \in Array \cup {None}
               /\ next \in Nat /\ mark \in Nat
               /\ delivered \subseteq Nat
               /\ ended \in BOOLEAN
               /\ array # None => step = "done" /\ array \in results

OpenInv == TransferInv /\ StreamTypes

\* What is before the cursor and before the mark was delivered.
ReadInv == /\ array # None => /\ elementSize = 1
                              /\ next <= fileSize /\ mark <= fileSize
                              /\ First(next) \cup First(mark) \subseteq delivered
                              /\ delivered \subseteq First(fileSize)
           /\ array = None => next = 0 /\ mark = 0 /\ delivered = {} /\ ~ended
           /\ ended => delivered = First(fileSize)

LEMMA InitStream == StreamInit => OpenInv /\ ReadInv
<1> SUFFICES ASSUME StreamInit PROVE OpenInv /\ ReadInv
  OBVIOUS
<1>1. array = None /\ next = 0 /\ mark = 0 /\ delivered = {} /\ ended = FALSE
  BY DEF StreamInit
<1>2. TransferInv
  BY InitTransfer DEF StreamInit
<1>3. StreamTypes
  BY <1>1 DEF StreamTypes
<1>4. ReadInv
  BY <1>1 DEF ReadInv
<1> QED
  BY <1>2, <1>3, <1>4 DEF OpenInv

\* An open stream reads the file.
LEMMA OpenFacts ==
  ASSUME OpenInv, array # None
  PROVE  /\ array \in Array /\ step = "done"
         /\ ByteLength = fileSize /\ mem[array].good = First(fileSize)
         /\ fileSize \in Nat /\ elementSize \in Nat \ {0}
         /\ ArraySize \in Nat /\ ArraySize <= ByteLength
         /\ elementSize = 1 => ArraySize = ByteLength
<1>1. array \in Array /\ step = "done" /\ array \in results
  BY DEF OpenInv, StreamTypes
<1>2. IsFile(array) /\ fileSize \in Nat
  BY <1>1 DEF OpenInv, TransferInv, LoadInv, LoadTypes
<1>3. elementSize \in Nat \ {0}
  BY Elements DEF OpenInv, TransferInv, BuilderInv
<1>4. ByteLength = fileSize /\ mem[array].good = First(fileSize)
  BY <1>2 DEF IsFile, ByteLength
<1> DEFINE q == fileSize \div elementSize
<1>5. /\ q \in Nat /\ fileSize % elementSize \in Nat
      /\ fileSize = q * elementSize + (fileSize % elementSize)
  BY <1>2, <1>3, Divide
<1>6. q * elementSize \in Nat /\ q <= q * elementSize
  BY <1>3, <1>5, Multiply
<1>7. elementSize = 1 => q = fileSize
  BY <1>2
<1>8. q <= fileSize
  <2> HIDE DEF q
  <2> QED
    BY <1>2, <1>5, <1>6
<1> QED
  BY <1>1, <1>2, <1>3, <1>4, <1>5, <1>7, <1>8 DEF ArraySize

LEMMA NextOpen ==
  ASSUME WholeElements, WholeFiles, OpenInv, [StreamNext]_everything
  PROVE  OpenInv' /\ (UNCHANGED <<mem, results>> \/ BuilderStep)
<1>1. CASE Transfer
  <2>1. array = None /\ UNCHANGED svars
    BY <1>1 DEF Transfer
  <2> QED
    BY <1>1, <2>1, NextTransfer DEF Transfer, OpenInv, StreamTypes, svars
<1>2. CASE UNCHANGED allvars
  <2>1. TransferInv' /\ UNCHANGED <<mem, results, step>>
    BY <1>2, NextTransfer DEF OpenInv, allvars, vars, tvars
  <2>2. ASSUME NEW a \in Array, OpenStream(a) PROVE StreamTypes'
    BY <2>1, <2>2, ArrayAssumption DEF OpenInv, StreamTypes, OpenStream
  <2>3. ASSUME NEW n \in Int, next + n \in Nat, Deliver(n), UNCHANGED <<array, mark>>
        PROVE  StreamTypes'
    <3>1. (next .. next + n - 1) \subseteq Nat
      BY DEF OpenInv, StreamTypes
    <3> QED
      BY <2>1, <2>3, <3>1 DEF OpenInv, StreamTypes, Deliver
  <2>4. ASSUME NEW len \in ReadLength, Read(len) PROVE StreamTypes'
    <3>1. CASE AtEnd
      BY <2>1, <2>4, <3>1 DEF OpenInv, StreamTypes, Read
    <3>2. CASE ~AtEnd
      <4>1. ByteLength - next \in Nat
        BY <2>4, <3>2, OpenFacts DEF AtEnd, Read, OpenInv, StreamTypes
      <4>2. ReadLen(len) \in Nat
        BY <4>1, StreamAssumption DEF ReadLen, Smaller
      <4>3. Deliver(ReadLen(len)) /\ UNCHANGED <<array, mark>>
        BY <2>4, <3>2 DEF Read
      <4>4. next + ReadLen(len) \in Nat
        BY <4>2 DEF OpenInv, StreamTypes
      <4> QED
        BY <2>3, <4>2, <4>3, <4>4
    <3> QED
      BY <3>1, <3>2
  <2>5. ASSUME ReadOne PROVE StreamTypes'
    <3>1. next + 1 \in Nat
      BY DEF OpenInv, StreamTypes
    <3> QED
      BY <2>3, <2>5, <3>1 DEF ReadOne
  <2>6. ASSUME MarkHere \/ BackToMark PROVE StreamTypes'
    BY <2>1, <2>6 DEF OpenInv, StreamTypes, MarkHere, BackToMark
  <2>7. ASSUME UNCHANGED everything PROVE StreamTypes'
    BY <2>1, <2>7 DEF OpenInv, StreamTypes, everything, svars
  <2>8. ASSUME Transfer PROVE StreamTypes'
    BY <2>1, <2>8 DEF OpenInv, StreamTypes, Transfer, svars
  <2> QED
    BY <2>1, <2>2, <2>4, <2>5, <2>6, <2>7, <2>8 DEF StreamNext, OpenInv
<1> QED
  BY <1>1, <1>2 DEF StreamNext, everything, OpenStream, Read, ReadOne, MarkHere, BackToMark

\* Reading n bytes inside the array delivers what is before the new cursor.
LEMMA DeliverReads ==
  ASSUME OpenInv, ReadInv, array # None, NEW n \in Nat, next + n <= ByteLength,
         Deliver(n), UNCHANGED <<allvars, array, mark>>
  PROVE  ReadInv'
<1>1. /\ elementSize = 1 /\ fileSize \in Nat /\ next \in Nat /\ mark \in Nat
      /\ ByteLength = fileSize /\ mem[array].good = First(fileSize)
      /\ next <= fileSize /\ mark <= fileSize
      /\ First(next) \cup First(mark) \subseteq delivered /\ delivered \subseteq First(fileSize)
  BY OpenFacts DEF OpenInv, StreamTypes, ReadInv
<1>2. UNCHANGED <<elementSize, fileSize, array, mark>>
  BY DEF allvars, vars, tvars
<1>3. next' = next + n /\ delivered' = delivered \cup ((next .. next + n - 1) \cap First(fileSize))
      /\ ended' = FALSE
  BY <1>1 DEF Deliver
<1>4. next' \in Nat /\ next' <= fileSize
  BY <1>1, <1>3
<1>5. First(next') \subseteq delivered'
  <2> SUFFICES ASSUME NEW i \in First(next') PROVE i \in delivered'
    OBVIOUS
  <2>1. i \in First(next) \/ i \in (next .. next + n - 1) \cap First(fileSize)
    BY <1>1, <1>3, <1>4 DEF First
  <2> QED
    BY <1>1, <1>3, <2>1
<1>6. First(mark) \subseteq delivered' /\ delivered' \subseteq First(fileSize)
  BY <1>1, <1>3
<1> QED
  BY <1>1, <1>2, <1>3, <1>4, <1>5, <1>6 DEF ReadInv

LEMMA NextRead ==
  ASSUME WholeElements, WholeFiles, BytesAskedFor, OpenInv, ReadInv, [StreamNext]_everything
  PROVE  ReadInv'
<1>1. CASE Transfer
  <2>1. array = None /\ UNCHANGED svars
    BY <1>1 DEF Transfer
  <2> QED
    BY <2>1 DEF ReadInv, svars
<1>2. ASSUME NEW a \in Array, OpenStream(a) PROVE ReadInv'
  <2>1. /\ array = None /\ array' = a /\ elementSize = 1
        /\ UNCHANGED <<elementSize, fileSize, next, mark, delivered, ended>>
    BY <1>2 DEF OpenStream, allvars, vars, tvars, BytesAskedFor
  <2>2. fileSize \in Nat /\ next = 0 /\ mark = 0 /\ delivered = {} /\ ~ended
    BY <2>1 DEF ReadInv, OpenInv, TransferInv, LoadInv, LoadTypes
  <2>3. First(0) = {}
    BY DEF First
  <2> QED
    BY <2>1, <2>2, <2>3, ArrayAssumption DEF ReadInv
<1>3. ASSUME NEW len \in ReadLength, Read(len) PROVE ReadInv'
  <2>1. /\ array # None /\ UNCHANGED <<allvars, array, mark>>
        /\ UNCHANGED <<elementSize, fileSize>>
    BY <1>3 DEF Read, allvars, vars, tvars
  <2>2. /\ ByteLength = fileSize /\ ArraySize = fileSize /\ fileSize \in Nat
        /\ next \in Nat /\ next <= fileSize
    BY <2>1, OpenFacts DEF ReadInv, OpenInv, StreamTypes
  <2>3. CASE AtEnd
    <3>1. next = fileSize
      BY <2>2, <2>3 DEF AtEnd
    <3>2. delivered = First(fileSize)
      BY <2>1, <3>1 DEF ReadInv
    <3> QED
      BY <1>3, <2>1, <2>3, <3>2 DEF ReadInv, Read
  <2>4. CASE ~AtEnd
    <3>1. ReadLen(len) \in Nat /\ next + ReadLen(len) <= ByteLength
      BY <2>2, <2>4, StreamAssumption DEF AtEnd, ReadLen, Smaller
    <3>2. Deliver(ReadLen(len))
      BY <1>3, <2>4 DEF Read
    <3> QED
      BY <2>1, <3>1, <3>2, DeliverReads
  <2> QED
    BY <2>3, <2>4
<1>4. CASE ReadOne
  <2>1. array # None /\ UNCHANGED <<allvars, array, mark>> /\ Deliver(1)
    BY <1>4 DEF ReadOne
  <2>2. /\ ByteLength = fileSize /\ ArraySize = fileSize /\ fileSize \in Nat /\ next \in Nat
    BY <2>1, OpenFacts DEF ReadInv, OpenInv, StreamTypes
  <2>3. next + 1 <= ByteLength
    BY <1>4, <2>2 DEF ReadOne, BytesAskedFor
  <2> QED
    BY <2>1, <2>3, DeliverReads
<1>5. CASE MarkHere
  BY <1>5 DEF MarkHere, ReadInv, allvars, vars, tvars
<1>6. CASE BackToMark
  BY <1>6 DEF BackToMark, ReadInv, allvars, vars, tvars
<1>7. CASE UNCHANGED everything
  BY <1>7 DEF ReadInv, everything, svars, allvars, vars, tvars
<1> QED
  BY <1>1, <1>2, <1>3, <1>4, <1>5, <1>6, <1>7 DEF StreamNext

-----------------------------------------------------------------------------
(* What holds of all that clients do                                       *)

\* Behind all of the theorems: OpenInv is inductive.
LEMMA AlwaysOpen == WholeElements /\ WholeFiles => (StreamSpec => []OpenInv)
<1> SUFFICES ASSUME WholeElements, WholeFiles PROVE StreamSpec => []OpenInv
  OBVIOUS
<1>1. StreamInit => OpenInv
  BY InitStream
<1>2. OpenInv /\ [StreamNext]_everything => OpenInv'
  BY NextOpen
<1> QED
  BY <1>1, <1>2, PTL DEF StreamSpec

\* Builders, files and streams keep to the types of their fields, in
\* particular does loadFrom never go past the end of the file.
THEOREM StreamTypesHold == WholeElements /\ WholeFiles => (StreamSpec => []StreamTypeOK)
<1> SUFFICES ASSUME WholeElements, WholeFiles PROVE StreamSpec => []StreamTypeOK
  OBVIOUS
<1>1. OpenInv => StreamTypeOK
  <2> SUFFICES ASSUME OpenInv PROVE StreamTypeOK
    OBVIOUS
  <2>1. TypeOK /\ StreamTypes /\ LoadTypes
    BY DEF OpenInv, TransferInv, BuilderInv, LoadInv
  <2> QED
    BY <2>1 DEF StreamTypeOK, TransferTypeOK, StreamTypes, LoadTypes
<1> QED
  BY AlwaysOpen, <1>1, PTL

\* What a builder is given goes inside its array: resize in ensureSize, or
\* the size hint of loadFrom, made room for it.
THEOREM WritesStayInside == WholeElements /\ WholeFiles => (StreamSpec => []StaysInsideArray)
<1> SUFFICES ASSUME WholeElements, WholeFiles PROVE StreamSpec => []StaysInsideArray
  OBVIOUS
<1>1. OpenInv => StaysInsideArray
  BY DEF OpenInv, TransferInv, BuilderInv, Filling, Holds, Current, StaysInsideArray
<1> QED
  BY AlwaysOpen, <1>1, PTL

\* A builder loses and reorders nothing when its array is replaced.
THEOREM BuildersLoseNothing == WholeElements /\ WholeFiles => (StreamSpec => []HoldsWhatWasAdded)
<1> SUFFICES ASSUME WholeElements, WholeFiles PROVE StreamSpec => []HoldsWhatWasAdded
  OBVIOUS
<1>1. OpenInv => HoldsWhatWasAdded
  BY DEF OpenInv, TransferInv, BuilderInv, Filling, Holds, Current, HoldsWhatWasAdded, First
<1> QED
  BY AlwaysOpen, <1>1, PTL

\* result() returns every whole element that was added.
THEOREM ResultsHaveEverything == WholeElements /\ WholeFiles => (StreamSpec => ResultsAreComplete)
<1> SUFFICES ASSUME WholeElements, WholeFiles PROVE StreamSpec => ResultsAreComplete
  OBVIOUS
<1>1. OpenInv /\ [StreamNext]_everything =>
          [\A a \in results' \ results :
              /\ mem'[a].size = added - (added % elementSize)
              /\ mem'[a].good = 0 .. mem'[a].size - 1]_vars
  BY NextOpen DEF BuilderStep, ResultStep
<1> QED
  BY AlwaysOpen, <1>1, PTL DEF StreamSpec, ResultsAreComplete

\* Whatever clients and builders do, before result() and after it: an array
\* that a client holds is freed by a builder only in clear or close, and only
\* if it is the very array that result() handed out without a copy.
THEOREM ResultsAreNotTakenBack == WholeElements /\ WholeFiles => (StreamSpec => OnlyClearTakesBack)
<1> SUFFICES ASSUME WholeElements, WholeFiles PROVE StreamSpec => OnlyClearTakesBack
  OBVIOUS
<1>1. OpenInv /\ [StreamNext]_everything =>
          [\A a \in results' :
              \/ a \in results /\ (mem'[a] = mem[a] \/ TakesBack(a))
              \/ a \notin results /\ mem'[a].state = "live"]_vars
  BY NextOpen DEF BuilderStep, KeepStep
<1> QED
  BY AlwaysOpen, <1>1, PTL DEF StreamSpec, OnlyClearTakesBack

\* Nothing but clear and close after result(), and clients who free what
\* clear took back, releases an array a second time.
THEOREM ReleasedOnce == WholeElements /\ WholeFiles => (StreamSpec => NoStaleRelease)
<1> SUFFICES ASSUME WholeElements, WholeFiles PROVE StreamSpec => NoStaleRelease
  OBVIOUS
<1>1. OpenInv /\ [StreamNext]_everything =>
          [\A a \in Array :
              (mem[a].state # "freed twice" /\ mem'[a].state = "freed twice") =>
                  \/ a = elems /\ finished /\ ~finished'
                  \/ a \in results \ results']_vars
  BY NextOpen DEF BuilderStep, ReleaseStep
<1> QED
  BY AlwaysOpen, <1>1, PTL DEF StreamSpec, NoStaleRelease

\* loadFrom returns the file, however transferTo cuts it into pieces.
THEOREM LoadingIsExact == WholeElements /\ WholeFiles => (StreamSpec => []LoadedIsFile)
<1> SUFFICES ASSUME WholeElements, WholeFiles PROVE StreamSpec => []LoadedIsFile
  OBVIOUS
<1>1. OpenInv => LoadedIsFile
  <2> SUFFICES ASSUME OpenInv, step = "done" PROVE LoadedIsFile
    BY DEF LoadedIsFile
  <2>1. /\ results # {} /\ \A a \in results : IsFile(a)
        /\ fileSize \in Nat /\ fileSize % elementSize = 0
        /\ saved <= MaxWrite => fileSize = saved
    BY DEF OpenInv, TransferInv, LoadInv, LoadTypes
  <2> QED
    BY <2>1 DEF LoadedIsFile, IsFile, First
<1> QED
  BY AlwaysOpen, <1>1, PTL

\* For streams ReadInv joins OpenInv.
LEMMA AlwaysReads ==
  WholeElements /\ WholeFiles /\ BytesAskedFor => (StreamSpec => [](OpenInv /\ ReadInv))
<1> SUFFICES ASSUME WholeElements, WholeFiles, BytesAskedFor
             PROVE  StreamSpec => [](OpenInv /\ ReadInv)
  OBVIOUS
<1>1. StreamInit => OpenInv /\ ReadInv
  BY InitStream
<1>2. OpenInv /\ ReadInv /\ [StreamNext]_everything => (OpenInv /\ ReadInv)'
  BY NextOpen, NextRead
<1> QED
  BY <1>1, <1>2, PTL DEF StreamSpec

\* Cursor and mark of a stream stay inside its array.
THEOREM StreamsStayInside ==
  WholeElements /\ WholeFiles /\ BytesAskedFor => (StreamSpec => []ReadsStayInside)
<1> SUFFICES ASSUME WholeElements, WholeFiles, BytesAskedFor
             PROVE  StreamSpec => []ReadsStayInside
  OBVIOUS
<1>1. OpenInv /\ ReadInv => ReadsStayInside
  BY OpenFacts DEF ReadInv, ReadsStayInside
<1> QED
  BY AlwaysReads, <1>1, PTL

\* A stream says it is over only when all of the file was delivered.
THEOREM StreamsEndAtTheEnd ==
  WholeElements /\ WholeFiles /\ BytesAskedFor => (StreamSpec => []EndMeansEnd)
<1> SUFFICES ASSUME WholeElements, WholeFiles, BytesAskedFor
             PROVE  StreamSpec => []EndMeansEnd
  OBVIOUS
<1>1. OpenInv /\ ReadInv => EndMeansEnd
  BY DEF ReadInv, EndMeansEnd, First
<1> QED
  BY AlwaysReads, <1>1, PTL
=============================================================================

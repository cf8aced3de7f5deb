----------------------------- MODULE DataLemmas -----------------------------
(***************************************************************************)
(* What the proofs need to know of numbers, loops and sums.  Induction     *)
(* over the data comes from well-founded orders: least natural numbers and *)
(* least finite sets.  With it the loop that doubles a capacity is shown   *)
(* to end where it should, and the sum over a finite set not to depend on  *)
(* an order of its elements.  The last part is about increasing sequences  *)
(* of numbers: there is one for every finite set of them.                  *)
(***************************************************************************)
EXTENDS Integers, FiniteSets, Functions, Sequences,
        WellFoundedInduction, FiniteSetTheorems, SequenceTheorems, TLAPS

\* A set of natural numbers has a least one.
LEMMA LeastNatural ==
  ASSUME NEW S \in SUBSET Nat, S # {}
  PROVE  \E m \in S : \A k \in S : m <= k
<1> DEFINE R == OpToRel(<, Nat)
<1>1. IsWellFoundedOn(R, Nat)
  BY NatLessThanWellFounded
<1>2. R = {ss \in Nat \X Nat : ss[1] < ss[2]}
  BY Zenon DEF OpToRel
<1> HIDE DEF R
<1>3. PICK m \in S : \A k \in S : <<k, m>> \notin R
  BY <1>1, WFMin
<1>4. \A k \in S : k < m => <<k, m>> \in R
  BY <1>2
<1>5. \A k \in S : ~(k < m)
  BY <1>3, <1>4
<1>6. S \subseteq Nat /\ m \in Nat
  OBVIOUS
<1>7. \A k \in S : m <= k
  BY <1>5, <1>6
<1> QED
  BY <1>7

\* Of sets with parts of a finite set, one has no other below it.
LEMMA LeastSubset ==
  ASSUME NEW S, IsFiniteSet(S), NEW B \in SUBSET (SUBSET S), B # {}
  PROVE  \E T \in B : \A U \in B : U \subseteq T => U = T
<1> DEFINE C == {Cardinality(U) : U \in B}
<1>1. \A U \in B : IsFiniteSet(U) /\ Cardinality(U) \in Nat
  BY FS_Subset, FS_CardinalityType
<1>2. C \in SUBSET Nat /\ C # {}
  BY <1>1
<1>3. PICK m \in C : \A k \in C : m <= k
  BY <1>2, LeastNatural
<1>4. PICK T \in B : m = Cardinality(T)
  BY <1>3
<1>5. ASSUME NEW U \in B, U \subseteq T
      PROVE  U = T
  <2>1. Cardinality(U) <= Cardinality(T) /\ (Cardinality(T) = Cardinality(U) => T = U)
    BY <1>1, <1>5, FS_Subset
  <2>2. Cardinality(T) <= Cardinality(U)
    BY <1>3, <1>4
  <2>3. Cardinality(U) \in Nat /\ Cardinality(T) \in Nat
    BY <1>1
  <2>4. Cardinality(U) = Cardinality(T)
    BY <2>1, <2>2, <2>3
  <2> QED
    BY <2>1, <2>4
<1> QED
  BY <1>5

-----------------------------------------------------------------------------
(* Doubling: the first of b, 2 * b, 4 * b, ... that reaches n              *)

IsDoubling(g, n) == g = [b \in Nat |-> IF b < n THEN g[2 * b] ELSE b]
Doubling(n) == CHOOSE g : g = [b \in Nat |-> IF b < n THEN g[2 * b] ELSE b]

\* All that doubling makes of b
Doubles(b) ==
    {m \in Nat : \A S \in SUBSET Nat : b \in S /\ (\A x \in S : 2 * x \in S) => m \in S}

LEMMA DoublesNext ==
  ASSUME NEW b \in Nat
  PROVE  Doubles(b) = {b} \cup Doubles(2 * b) /\ \A m \in Doubles(b) : b <= m
<1>1. ASSUME NEW m \in Doubles(b), m # b
      PROVE  m \in Doubles(2 * b)
  <2>1. SUFFICES ASSUME NEW S \in SUBSET Nat, 2 * b \in S, \A x \in S : 2 * x \in S
                 PROVE  m \in S
    BY DEF Doubles
  <2>2. S \cup {b} \in SUBSET Nat /\ \A x \in S \cup {b} : 2 * x \in S \cup {b}
    BY <2>1
  <2>3. m \in S \cup {b}
    BY <2>2 DEF Doubles
  <2> QED
    BY <1>1, <2>3
<1>2. Doubles(2 * b) \subseteq Doubles(b) /\ b \in Doubles(b)
  BY DEF Doubles
<1>3. ASSUME NEW m \in Doubles(b)
      PROVE  b <= m
  <2> DEFINE S == {k \in Nat : b <= k}
  <2>1. S \in SUBSET Nat /\ b \in S /\ \A x \in S : 2 * x \in S
    OBVIOUS
  <2> HIDE DEF S
  <2>2. m \in S
    BY <2>1 DEF Doubles
  <2> QED
    BY <2>2 DEF S
<1> QED
  BY <1>1, <1>2, <1>3

\* There is such a function.
LEMMA DoublingExists ==
  ASSUME NEW n \in Nat
  PROVE  IsDoubling(Doubling(n), n)
<1> DEFINE T(b) == {m \in Doubles(b) : n <= m}
           L(b) == CHOOSE m \in T(b) : \A k \in T(b) : m <= k
           g == [b \in Nat |-> IF b < n THEN L(b) ELSE b]
<1>1. ASSUME NEW b \in Nat, b < n
      PROVE  L(b) = g[2 * b]
  <2>1. T(b) = T(2 * b)
    BY <1>1, DoublesNext
  <2>2. 2 * b \in Nat
    OBVIOUS
  <2>3. CASE 2 * b < n
    BY <2>1, <2>2, <2>3
  <2>4. CASE ~(2 * b < n)
    <3>0. n <= 2 * b /\ 2 * b \in Doubles(2 * b) /\ \A k \in Doubles(2 * b) : 2 * b <= k
      BY <2>2, <2>4, DoublesNext
    <3>1. 2 * b \in T(2 * b) /\ \A k \in T(2 * b) : k \in Nat /\ 2 * b <= k
      BY <3>0 DEF Doubles
    <3>2. L(2 * b) \in T(2 * b) /\ \A k \in T(2 * b) : L(2 * b) <= k
      BY <3>1
    <3>3. L(2 * b) = 2 * b
      BY <2>2, <3>1, <3>2
    <3> QED
      BY <2>1, <2>2, <2>4, <3>3
  <2> QED
    BY <2>3, <2>4
<1> HIDE DEF L
<1>2. g = [b \in Nat |-> IF b < n THEN g[2 * b] ELSE b]
  BY <1>1
<1> HIDE DEF g
<1> QED
  BY <1>2 DEF IsDoubling, Doubling

\* From any base but 0 the loop ends, at a number that is at least n and at
\* least the base.
LEMMA DoublingReaches ==
  ASSUME NEW n \in Nat, NEW base \in Nat \ {0}
  PROVE  Doubling(n)[base] \in Nat /\ n <= Doubling(n)[base] /\ base <= Doubling(n)[base]
<1> DEFINE g == Doubling(n)
           Good(b) == g[b] \in Nat /\ n <= g[b] /\ b <= g[b]
           Bad == {b \in Nat \ {0} : ~Good(b)}
           Left == {n - b : b \in Bad}
<1>1. \A b \in Nat : g[b] = IF b < n THEN g[2 * b] ELSE b
  <2>1. g = [b \in Nat |-> IF b < n THEN g[2 * b] ELSE b]
    BY DoublingExists DEF IsDoubling
  <2> HIDE DEF g
  <2> QED
    BY <2>1
<1> HIDE DEF g
<1>2. \A b \in Bad : b \in Nat /\ b < n /\ n - b \in Nat
  BY <1>1
<1>3. ASSUME Bad # {} PROVE FALSE
  <2>1. Left \in SUBSET Nat /\ Left # {}
    BY <1>2, <1>3
  <2>2. PICK m \in Left : \A k \in Left : m <= k
    BY <2>1, LeastNatural
  <2>3. PICK b \in Bad : m = n - b
    BY <2>2
  <2>4. b \in Nat \ {0} /\ b < n /\ 2 * b \in Nat \ {0} /\ g[b] = g[2 * b]
    BY <1>1, <1>2
  <2>5. Good(2 * b)
    <3>1. CASE 2 * b \in Bad
      <4>1. n - 2 * b \in Left
        BY <3>1
      <4>2. n - b <= n - 2 * b
        BY <2>2, <2>3, <4>1
      <4>3. FALSE
        BY <2>4, <4>2
      <4> QED
        BY <4>3
    <3>2. CASE 2 * b \notin Bad
      BY <2>4, <3>2
    <3> QED
      BY <3>1, <3>2
  <2> QED
    BY <2>4, <2>5
<1>4. base \notin Bad
  BY <1>3
<1> QED
  BY <1>4 DEF g

-----------------------------------------------------------------------------
(* Sums over finite sets                                                   *)

Pick(s) == CHOOSE x \in s : TRUE
\* g[s] is the sum of f over s, for the parts s of S.
IsSum(g, f, S) ==
    g = [s \in SUBSET S |-> IF s = {} THEN 0 ELSE f[Pick(s)] + g[s \ {Pick(s)}]]

LEMMA PickIn == ASSUME NEW s, s # {} PROVE Pick(s) \in s
  BY DEF Pick

LEMMA SumIsUnique ==
  ASSUME NEW S, IsFiniteSet(S), NEW T \in SUBSET S, NEW f, NEW g, NEW h,
         IsSum(g, f, S), IsSum(h, f, T)
  PROVE  \A s \in SUBSET T : g[s] = h[s]
<1> DEFINE Bad == {s \in SUBSET T : g[s] # h[s]}
<1>1. ASSUME NEW s \in SUBSET T
      PROVE  /\ g[s] = IF s = {} THEN 0 ELSE f[Pick(s)] + g[s \ {Pick(s)}]
             /\ h[s] = IF s = {} THEN 0 ELSE f[Pick(s)] + h[s \ {Pick(s)}]
  <2>1. s \in SUBSET S
    OBVIOUS
  <2>2. g[s] = IF s = {} THEN 0 ELSE f[Pick(s)] + g[s \ {Pick(s)}]
    BY <2>1 DEF IsSum
  <2>3. h[s] = IF s = {} THEN 0 ELSE f[Pick(s)] + h[s \ {Pick(s)}]
    BY DEF IsSum
  <2> QED
    BY <2>2, <2>3
<1>2. ASSUME Bad # {} PROVE FALSE
  <2>1. IsFiniteSet(T) /\ Bad \in SUBSET (SUBSET T)
    BY FS_Subset
  <2>2. PICK s \in Bad : \A u \in Bad : u \subseteq s => u = s
    <3> HIDE DEF Bad
    <3> QED
      BY <1>2, <2>1, LeastSubset
  <2>3. s # {}
    BY <1>1
  <2>4. s \ {Pick(s)} \in SUBSET T /\ s \ {Pick(s)} # s
    BY <2>3, PickIn
  <2>5. g[s \ {Pick(s)}] = h[s \ {Pick(s)}]
    BY <2>2, <2>4
  <2> QED
    BY <1>1, <2>3, <2>5
<1> QED
  BY <1>2

LEMMA SumExists ==
  ASSUME NEW S, IsFiniteSet(S), NEW f
  PROVE  \E g : IsSum(g, f, S)
<1> DEFINE Bad == {T \in SUBSET S : ~\E g : IsSum(g, f, T)}
<1>1. ASSUME Bad # {} PROVE FALSE
  <2>1. Bad \in SUBSET (SUBSET S)
    OBVIOUS
  <2>2. PICK T \in Bad : \A u \in Bad : u \subseteq T => u = T
    <3> HIDE DEF Bad
    <3> QED
      BY <1>1, <2>1, LeastSubset
  <2> DEFINE Of(s) == CHOOSE g : IsSum(g, f, s)
             V(s) == Of(s)[s]
             g == [s \in SUBSET T |-> IF s = {} THEN 0
                                      ELSE f[Pick(s)] + V(s \ {Pick(s)})]
  <2>3. ASSUME NEW s \in SUBSET T, s # T
        PROVE  IsSum(Of(s), f, s)
    BY <2>2, <2>3
  <2>4. ASSUME NEW s \in SUBSET T, s # T
        PROVE  V(s) = g[s]
    <3>1. V(s) = IF s = {} THEN 0 ELSE f[Pick(s)] + Of(s)[s \ {Pick(s)}]
      <4>1. IsSum(Of(s), f, s)
        BY <2>3, <2>4
      <4> HIDE DEF Of, g
      <4> QED
        BY <4>1 DEF IsSum
    <3>2. CASE s = {}
      BY <3>1, <3>2
    <3>3. CASE s # {}
      <4> DEFINE r == s \ {Pick(s)}
      <4>1. r \in SUBSET T /\ r # T /\ r \in SUBSET s
        BY <2>4, <3>3, PickIn
      <4>2. IsSum(Of(r), f, r) /\ IsSum(Of(s), f, s)
        BY <2>3, <2>4, <4>1
      <4>3. IsFiniteSet(s)
        BY FS_Subset, IsFiniteSet(S), T \in SUBSET S
      <4> HIDE DEF r, Of
      <4>4. Of(s)[r] = Of(r)[r]
        BY <4>1, <4>2, <4>3, SumIsUnique
      <4>5. V(s) = f[Pick(s)] + Of(r)[r]
        BY <3>1, <3>3, <4>4 DEF r
      <4>6. V(r) = Of(r)[r]
        OBVIOUS
      <4>7. g[s] = f[Pick(s)] + V(r)
        <5> HIDE DEF V
        <5> QED
          BY <3>3 DEF r
      <4> QED
        BY <4>5, <4>6, <4>7
    <3> QED
      BY <3>2, <3>3
  <2>5. \A s \in SUBSET T : s # {} => s \ {Pick(s)} \in SUBSET T /\ s \ {Pick(s)} # T
    BY PickIn
  <2> HIDE DEF V
  <2>6. g = [s \in SUBSET T |-> IF s = {} THEN 0 ELSE f[Pick(s)] + g[s \ {Pick(s)}]]
    BY <2>4, <2>5
  <2> HIDE DEF g
  <2>7. IsSum(g, f, T)
    BY <2>6 DEF IsSum
  <2> QED
    BY <2>2, <2>7
<1> QED
  BY <1>1

\* The sum of the community modules, without its recursion
LEMMA SumStep ==
  ASSUME NEW S, IsFiniteSet(S), NEW f
  PROVE  SumFunctionOnSet(f, S) =
            IF S = {} THEN 0 ELSE f[Pick(S)] + SumFunctionOnSet(f, S \ {Pick(S)})
<1> DEFINE Of(s) == CHOOSE g : IsSum(g, f, s)
<1>1. \A s : SumFunctionOnSet(f, s) = Of(s)[s]
  BY DEF SumFunctionOnSet, FoldFunctionOnSet, MapThenFoldSet, IsSum, Pick
<1>2. \A s \in SUBSET S : IsSum(Of(s), f, s)
  BY SumExists, FS_Subset
<1>3. Of(S)[S] = IF S = {} THEN 0 ELSE f[Pick(S)] + Of(S)[S \ {Pick(S)}]
  <2>1. IsSum(Of(S), f, S)
    BY <1>2
  <2> HIDE DEF Of
  <2> QED
    BY <2>1 DEF IsSum
<1>4. Of(S)[S \ {Pick(S)}] = Of(S \ {Pick(S)})[S \ {Pick(S)}]
  <2> DEFINE r == S \ {Pick(S)}
  <2>1. IsSum(Of(S), f, S) /\ IsSum(Of(r), f, r) /\ r \in SUBSET S
    BY <1>2
  <2> HIDE DEF r, Of
  <2>2. Of(S)[r] = Of(r)[r]
    BY <2>1, SumIsUnique
  <2> QED
    BY <2>2 DEF r
<1> HIDE DEF Of
<1> QED
  BY <1>1, <1>3, <1>4

LEMMA SumOfNone == \A f : SumFunctionOnSet(f, {}) = 0
  BY SumStep, FS_EmptySet

\* A sum of integers is one, and depends only on the values summed.
LEMMA SumType ==
  ASSUME NEW S, IsFiniteSet(S), NEW f, \A x \in S : f[x] \in Int
  PROVE  SumFunctionOnSet(f, S) \in Int
<1> DEFINE Bad == {T \in SUBSET S : SumFunctionOnSet(f, T) \notin Int}
<1>1. ASSUME Bad # {} PROVE FALSE
  <2>1. Bad \in SUBSET (SUBSET S)
    OBVIOUS
  <2>2. PICK T \in Bad : \A u \in Bad : u \subseteq T => u = T
    <3> HIDE DEF Bad
    <3> QED
      BY <1>1, <2>1, LeastSubset
  <2>3. IsFiniteSet(T)
    BY FS_Subset
  <2>4. T # {}
    BY SumOfNone
  <2>5. f[Pick(T)] \in Int /\ SumFunctionOnSet(f, T \ {Pick(T)}) \in Int
    BY <2>2, <2>4, PickIn
  <2>6. SumFunctionOnSet(f, T) = f[Pick(T)] + SumFunctionOnSet(f, T \ {Pick(T)})
    BY <2>3, <2>4, SumStep
  <2>7. SumFunctionOnSet(f, T) \in Int
    BY <2>5, <2>6
  <2> QED
    BY <2>7
<1> QED
  BY <1>1

LEMMA SumSame ==
  ASSUME NEW S, IsFiniteSet(S), NEW f, NEW g, \A x \in S : f[x] = g[x]
  PROVE  SumFunctionOnSet(f, S) = SumFunctionOnSet(g, S)
<1> DEFINE Bad == {T \in SUBSET S : SumFunctionOnSet(f, T) # SumFunctionOnSet(g, T)}
<1>1. ASSUME Bad # {} PROVE FALSE
  <2>1. Bad \in SUBSET (SUBSET S)
    OBVIOUS
  <2>2. PICK T \in Bad : \A u \in Bad : u \subseteq T => u = T
    <3> HIDE DEF Bad
    <3> QED
      BY <1>1, <2>1, LeastSubset
  <2>3. IsFiniteSet(T)
    BY FS_Subset
  <2>4. T # {}
    BY SumOfNone
  <2>5. /\ f[Pick(T)] = g[Pick(T)]
        /\ SumFunctionOnSet(f, T \ {Pick(T)}) = SumFunctionOnSet(g, T \ {Pick(T)})
    BY <2>2, <2>4, PickIn
  <2> QED
    BY <2>2, <2>3, <2>4, <2>5, SumStep
<1> QED
  BY <1>1

\* Any element can be summed last, whatever order the definition takes.
LEMMA SumSplit ==
  ASSUME NEW S, IsFiniteSet(S), NEW f, \A y \in S : f[y] \in Int, NEW x \in S
  PROVE  SumFunctionOnSet(f, S) = f[x] + SumFunctionOnSet(f, S \ {x})
<1> DEFINE Sum(T) == SumFunctionOnSet(f, T)
           Bad == {T \in SUBSET S : ~\A y \in T : Sum(T) = f[y] + Sum(T \ {y})}
<1>1. ASSUME Bad # {} PROVE FALSE
  <2>1. Bad \in SUBSET (SUBSET S)
    OBVIOUS
  <2>2. PICK T \in Bad : \A u \in Bad : u \subseteq T => u = T
    <3> HIDE DEF Bad
    <3> QED
      BY <1>1, <2>1, LeastSubset
  <2>3. PICK y \in T : Sum(T) # f[y] + Sum(T \ {y})
    OBVIOUS
  <2> DEFINE z == Pick(T)
  <2>4. z \in T /\ Sum(T) = f[z] + Sum(T \ {z})
    BY PickIn, SumStep, FS_Subset
  <2> HIDE DEF z
  <2>5. y # z
    BY <2>3, <2>4
  <2>6. Sum(T \ {z}) = f[y] + Sum((T \ {z}) \ {y})
    <3>1. T \ {z} \in SUBSET S /\ T \ {z} # T /\ T \ {z} \subseteq T /\ y \in T \ {z}
      BY <2>4, <2>5
    <3>2. T \ {z} \notin Bad
      BY <2>2, <3>1
    <3> QED
      BY <3>1, <3>2
  <2>7. Sum(T \ {y}) = f[z] + Sum((T \ {y}) \ {z})
    <3>1. T \ {y} \in SUBSET S /\ T \ {y} # T /\ T \ {y} \subseteq T /\ z \in T \ {y}
      BY <2>4, <2>5
    <3>2. T \ {y} \notin Bad
      BY <2>2, <3>1
    <3> QED
      BY <3>1, <3>2
  <2>8. (T \ {y}) \ {z} = (T \ {z}) \ {y}
    OBVIOUS
  <2>9. f[y] \in Int /\ f[z] \in Int /\ Sum((T \ {z}) \ {y}) \in Int
    <3>1. IsFiniteSet((T \ {z}) \ {y}) /\ \A v \in (T \ {z}) \ {y} : f[v] \in Int
      BY FS_Subset
    <3> QED
      BY <2>4, <3>1, SumType
  <2>10. Sum((T \ {y}) \ {z}) = Sum((T \ {z}) \ {y})
    BY <2>8
  <2> HIDE DEF Sum
  <2>11. Sum(T) = f[y] + Sum(T \ {y})
    BY <2>4, <2>6, <2>7, <2>9, <2>10
  <2> QED
    BY <2>3, <2>11
<1>2. S \notin Bad
  BY <1>1
<1> QED
  BY <1>2

-----------------------------------------------------------------------------
(* Division                                                                *)

LEMMA Multiply ==
  ASSUME NEW a \in Nat, NEW b \in Nat, NEW d \in Nat
  PROVE  /\ a * d \in Nat /\ (a + b) * d = a * d + b * d
         /\ a <= b => a * d <= b * d
<1>1. a * d \in Nat /\ (a + b) * d = a * d + b * d
  OBVIOUS
<1>2. ASSUME a <= b PROVE a * d <= b * d
  <2>1. b - a \in Nat /\ b * d = a * d + (b - a) * d
    BY <1>2
  <2>2. (b - a) * d \in Nat /\ a * d \in Nat
    BY <2>1
  <2> QED
    BY <2>1, <2>2
<1> QED
  BY <1>1, <1>2

LEMMA Divide ==
  ASSUME NEW n \in Nat, NEW d \in Nat \ {0}
  PROVE  n \div d \in Nat /\ n % d \in 0 .. d - 1 /\ n = (n \div d) * d + (n % d)
  OBVIOUS

\* Quotient and rest are the only ones.
LEMMA Quotient ==
  ASSUME NEW d \in Nat \ {0}, NEW q \in Nat, NEW r \in 0 .. d - 1
  PROVE  (q * d + r) \div d = q /\ (q * d + r) % d = r
<1> DEFINE n == q * d + r
<1>1. n \in Nat
  BY Multiply
<1>2. n \div d \in Nat /\ n % d \in 0 .. d - 1 /\ n = (n \div d) * d + (n % d)
  BY <1>1, Divide
<1> DEFINE k == n \div d
           s == n % d
<1>3. k \in Nat /\ s \in 0 .. d - 1 /\ q * d + r = k * d + s
  BY <1>2
<1> HIDE DEF k, s
<1>4. k <= q
  <2> SUFFICES ASSUME q + 1 <= k PROVE FALSE
    BY <1>3
  <2>1. (q + 1) * d <= k * d /\ (q + 1) * d = q * d + 1 * d
    BY <1>3, Multiply
  <2> QED
    BY <1>3, <2>1, Multiply
<1>5. q <= k
  <2> SUFFICES ASSUME k + 1 <= q PROVE FALSE
    BY <1>3
  <2>1. (k + 1) * d <= q * d /\ (k + 1) * d = k * d + 1 * d
    BY <1>3, Multiply
  <2> QED
    BY <1>3, <2>1, Multiply
<1>6. k = q
  BY <1>3, <1>4, <1>5
<1>7. s = r
  BY <1>3, <1>6, Multiply
<1> QED
  BY <1>6, <1>7 DEF k, s

-----------------------------------------------------------------------------
(* Increasing sequences                                                    *)

\* s has the numbers in P, each once, from the least on.
Lists(s, P) ==
    /\ s \in Seq(P)
    /\ \A i, j \in 1 .. Len(s) : i < j => s[i] < s[j]
    /\ \A p \in P : \E i \in 1 .. Len(s) : s[i] = p

LEMMA ListsStart ==
  ASSUME NEW P \in SUBSET Nat, NEW s, NEW t, Lists(s, P), Lists(t, P)
  PROVE  \A i \in 1 .. Len(s) : i <= Len(t) /\ s[i] = t[i]
<1> DEFINE Bad == {i \in 1 .. Len(s) : ~(i <= Len(t) /\ s[i] = t[i])}
<1>1. /\ Len(s) \in Nat /\ Len(t) \in Nat
      /\ \A i \in 1 .. Len(s) : s[i] \in P
      /\ \A i \in 1 .. Len(t) : t[i] \in P
      /\ \A i, j \in 1 .. Len(s) : i < j => s[i] < s[j]
      /\ \A i, j \in 1 .. Len(t) : i < j => t[i] < t[j]
      /\ \A p \in P : \E i \in 1 .. Len(s) : s[i] = p
      /\ \A p \in P : \E i \in 1 .. Len(t) : t[i] = p
  BY LenProperties, ElementOfSeq DEF Lists
<1> SUFFICES ASSUME Bad # {} PROVE FALSE
  OBVIOUS
<1>2. PICK i \in Bad : \A k \in Bad : i <= k
  <2>1. Bad \in SUBSET Nat
    BY <1>1
  <2> HIDE DEF Bad
  <2> QED
    BY <2>1, LeastNatural
<1>3. i \in 1 .. Len(s) /\ i \in Nat
  BY <1>1
<1>4. \A j \in 1 .. Len(s) : j < i => j <= Len(t) /\ s[j] = t[j]
  BY <1>1, <1>2, <1>3
<1>5. PICK m \in 1 .. Len(t) : t[m] = s[i]
  BY <1>1, <1>3
<1>6. i <= m
  <2> SUFFICES ASSUME m < i PROVE FALSE
    BY <1>1, <1>3
  <2>1. m \in 1 .. Len(s)
    BY <1>1, <1>3
  <2>2. s[m] = t[m] /\ s[m] < s[i]
    BY <1>1, <1>3, <1>4, <2>1
  <2>3. s[i] \in Nat /\ s[m] \in Nat
    BY <1>1, <1>3, <2>1
  <2> QED
    BY <1>5, <2>2, <2>3
<1>7. i \in 1 .. Len(t)
  BY <1>1, <1>3, <1>6
<1>8. PICK k \in 1 .. Len(s) : s[k] = t[i]
  BY <1>1, <1>7
<1>9. i <= k
  <2> SUFFICES ASSUME k < i PROVE FALSE
    BY <1>1, <1>3
  <2>1. k \in 1 .. Len(t)
    BY <1>1, <1>7
  <2>2. s[k] = t[k] /\ t[k] < t[i]
    BY <1>1, <1>4, <1>7, <2>1
  <2>3. t[i] \in Nat /\ t[k] \in Nat
    BY <1>1, <1>7, <2>1
  <2> QED
    BY <1>8, <2>2, <2>3
<1>10. s[i] \in Nat /\ t[i] \in Nat /\ s[i] <= t[i] /\ t[i] <= s[i]
  <2>1. s[i] \in Nat /\ t[i] \in Nat
    BY <1>1, <1>3, <1>7
  <2>2. s[i] <= s[k]
    <3>1. i = k \/ s[i] < s[k]
      BY <1>1, <1>3, <1>9
    <3>2. s[k] \in Nat
      BY <1>1
    <3> QED
      BY <2>1, <3>1, <3>2
  <2>3. t[i] <= t[m]
    <3>1. i = m \/ t[i] < t[m]
      BY <1>1, <1>3, <1>6, <1>7
    <3>2. t[m] \in Nat
      BY <1>1
    <3> QED
      BY <2>1, <3>1, <3>2
  <2> QED
    BY <1>5, <1>8, <2>1, <2>2, <2>3
<1>11. s[i] = t[i] /\ i <= Len(t)
  BY <1>7, <1>10
<1> QED
  BY <1>11

\* There is one such sequence.
LEMMA ListsOnce ==
  ASSUME NEW P \in SUBSET Nat, NEW s, NEW t, Lists(s, P), Lists(t, P)
  PROVE  s = t
<1>1. s \in Seq(P) /\ t \in Seq(P) /\ Len(s) \in Nat /\ Len(t) \in Nat
  BY LenProperties DEF Lists
<1>2. \A i \in 1 .. Len(s) : i <= Len(t) /\ s[i] = t[i]
  BY ListsStart
<1>3. \A i \in 1 .. Len(t) : i <= Len(s) /\ t[i] = s[i]
  BY ListsStart
<1>4. Len(s) = Len(t)
  <2>1. Len(s) <= Len(t)
    <3>1. CASE Len(s) = 0
      BY <1>1, <3>1
    <3>2. CASE Len(s) # 0
      <4>1. Len(s) \in 1 .. Len(s)
        BY <1>1, <3>2
      <4> QED
        BY <1>2, <4>1
    <3> QED
      BY <3>1, <3>2
  <2>2. Len(t) <= Len(s)
    <3>1. CASE Len(t) = 0
      BY <1>1, <3>1
    <3>2. CASE Len(t) # 0
      <4>1. Len(t) \in 1 .. Len(t)
        BY <1>1, <3>2
      <4> QED
        BY <1>3, <4>1
    <3> QED
      BY <3>1, <3>2
  <2> QED
    BY <1>1, <2>1, <2>2
<1> QED
  BY <1>1, <1>2, <1>4, SeqEqual

LEMMA ListsNone ==
  ASSUME NEW s
  PROVE  Lists(s, {}) <=> s = <<>>
<1>1. Lists(<<>>, {})
  BY EmptySeq DEF Lists
<1>2. ASSUME Lists(s, {}) PROVE s = <<>>
  <2>1. {} \in SUBSET Nat
    OBVIOUS
  <2> QED
    BY <1>1, <1>2, <2>1, ListsOnce
<1> QED
  BY <1>1, <1>2

\* What comes before, then what comes after
LEMMA ListsConcat ==
  ASSUME NEW P \in SUBSET Nat, NEW Q \in SUBSET Nat, NEW s, NEW t,
         Lists(s, P), Lists(t, Q), \A p \in P, q \in Q : p < q
  PROVE  Lists(s \o t, P \cup Q)
<1> DEFINE u == s \o t
           m == Len(s)
           n == Len(t)
<1>1. /\ s \in Seq(P \cup Q) /\ t \in Seq(P \cup Q) /\ m \in Nat /\ n \in Nat
      /\ \A i \in 1 .. m : s[i] \in P
      /\ \A i \in 1 .. n : t[i] \in Q
      /\ \A i, j \in 1 .. m : i < j => s[i] < s[j]
      /\ \A i, j \in 1 .. n : i < j => t[i] < t[j]
      /\ \A p \in P : \E i \in 1 .. m : s[i] = p
      /\ \A p \in Q : \E i \in 1 .. n : t[i] = p
  BY LenProperties, ElementOfSeq, SeqMonotonic DEF Lists
<1>2. /\ u \in Seq(P \cup Q) /\ Len(u) = m + n
      /\ \A i \in 1 .. m + n : u[i] = IF i <= m THEN s[i] ELSE t[i - m]
  BY <1>1, ConcatProperties
<1> HIDE DEF u, m, n
<1>3. /\ \A i \in 1 .. m : u[i] = s[i] /\ u[i] \in P
      /\ \A i \in m + 1 .. m + n : i - m \in 1 .. n /\ u[i] = t[i - m] /\ u[i] \in Q
  BY <1>1, <1>2
<1>4. ASSUME NEW i \in 1 .. m + n, NEW j \in 1 .. m + n, i < j
      PROVE  u[i] < u[j]
  <2>1. CASE j <= m
    <3>1. i \in 1 .. m /\ j \in 1 .. m
      BY <1>1, <1>4, <2>1
    <3> QED
      BY <1>1, <1>3, <1>4, <3>1
  <2>2. CASE i <= m /\ ~(j <= m)
    <3>1. i \in 1 .. m /\ j \in m + 1 .. m + n
      BY <1>1, <2>2
    <3> QED
      BY <1>3, <3>1
  <2>3. CASE ~(i <= m)
    <3>1. i \in m + 1 .. m + n /\ j \in m + 1 .. m + n /\ i - m < j - m
      BY <1>1, <1>4, <2>3
    <3> QED
      BY <1>1, <1>3, <3>1
  <2> QED
    BY <2>1, <2>2, <2>3
<1>5. ASSUME NEW p \in P \cup Q PROVE \E i \in 1 .. m + n : u[i] = p
  <2>1. CASE p \in P
    <3>1. PICK i \in 1 .. m : s[i] = p
      BY <1>1, <2>1
    <3>2. i \in 1 .. m + n
      BY <1>1
    <3> QED
      BY <1>3, <3>1, <3>2
  <2>2. CASE p \in Q
    <3>1. PICK i \in 1 .. n : t[i] = p
      BY <1>1, <2>2
    <3>2. PICK k \in m + 1 .. m + n : k - m = i
      <4> DEFINE k == i + m
      <4>1. k \in m + 1 .. m + n /\ k - m = i
        BY <1>1
      <4> HIDE DEF k
      <4> QED
        BY <4>1
    <3>3. u[k] = t[k - m] /\ k \in 1 .. m + n
      BY <1>1, <1>3
    <3> QED
      BY <3>1, <3>2, <3>3
  <2> QED
    BY <2>1, <2>2
<1> QED
  BY <1>2, <1>4, <1>5 DEF Lists, u

LEMMA ListsOne == ASSUME NEW p \in Nat PROVE Lists(<<p>>, {p})
BY DEF Lists

LEMMA ListsAppend ==
  ASSUME NEW P \in SUBSET Nat, NEW s, Lists(s, P), NEW p \in Nat, \A q \in P : q < p
  PROVE  Lists(Append(s, p), P \cup {p})
<1>1. Lists(s \o <<p>>, P \cup {p})
  BY ListsOne, ListsConcat
<1>2. s \in Seq(Nat)
  BY SeqMonotonic DEF Lists
<1> QED
  BY <1>1, <1>2, AppendIsConcat

LEMMA ListsRun ==
  ASSUME NEW a \in Nat, NEW b \in Int
  PROVE  Lists([k \in 1 .. b - a + 1 |-> a + k - 1], a .. b)
<1> DEFINE n == IF b - a + 1 >= 0 THEN b - a + 1 ELSE 0
           s == [k \in 1 .. n |-> a + k - 1]
<1>1. n \in Nat /\ 1 .. b - a + 1 = 1 .. n
  OBVIOUS
<1>2. s \in Seq(a .. b) /\ Len(s) = n
  <2>1. s \in [1 .. n -> a .. b]
    OBVIOUS
  <2> HIDE DEF n, s
  <2> QED
    BY <1>1, <2>1
<1>3. \A p \in a .. b : p - a + 1 \in 1 .. n /\ s[p - a + 1] = p
  OBVIOUS
<1>4. \A i, j \in 1 .. n : i < j => s[i] < s[j]
  OBVIOUS
<1>5. [k \in 1 .. b - a + 1 |-> a + k - 1] = s
  BY <1>1
<1> HIDE DEF n, s
<1> QED
  BY <1>2, <1>3, <1>4, <1>5 DEF Lists

Below(P, n) == {p \in P : p < n}

LEMMA BelowNext ==
  ASSUME NEW P \in SUBSET Nat, NEW n \in Nat
  PROVE  /\ Below(P, 0) = {}
         /\ n \in P => Below(P, n + 1) = Below(P, n) \cup {n}
         /\ n \notin P => Below(P, n + 1) = Below(P, n)
         /\ Below(P, n) \in SUBSET Nat
<1>1. \A k \in Nat : Below(P, k) \subseteq P /\ \A p \in P : p \in Below(P, k) <=> p < k
  BY DEF Below
<1>2. \A p \in P : p \in Nat
  OBVIOUS
<1>3. n + 1 \in Nat /\ \A p \in P : /\ ~(p < 0)
                                   /\ p < n + 1 <=> p < n \/ p = n
  BY <1>2
<1>4. \A p \in P : p \in Below(P, n + 1) <=> p \in Below(P, n) \/ p = n
  BY <1>1, <1>3
<1>5. Below(P, 0) = {}
  <2>1. \A p \in P : ~(p < 0)
    BY <1>2
  <2>2. Below(P, 0) = {p \in P : p < 0}
    BY DEF Below
  <2> QED
    BY <2>1, <2>2
<1>6. n \in P => Below(P, n + 1) = Below(P, n) \cup {n}
  BY <1>1, <1>3, <1>4
<1>7. n \notin P => Below(P, n + 1) = Below(P, n)
  BY <1>1, <1>3, <1>4
<1> QED
  BY <1>1, <1>5, <1>6, <1>7

\* A loop over the numbers that keeps those in P
Listing(P) ==
    CHOOSE f : f = [n \in Nat |->
       IF n = 0 THEN <<>> ELSE IF n - 1 \in P THEN Append(f[n - 1], n - 1) ELSE f[n - 1]]

LEMMA ListsExist ==
  ASSUME NEW P \in SUBSET Nat, NEW n \in Nat
  PROVE  \E s : Lists(s, Below(P, n))
<1> DEFINE Bad == {k \in Nat : ~\E s : Lists(s, Below(P, k))}
<1> SUFFICES ASSUME Bad # {} PROVE FALSE
  OBVIOUS
<1>1. PICK k \in Bad : \A j \in Bad : k <= j
  <2>1. Bad \in SUBSET Nat
    OBVIOUS
  <2> HIDE DEF Bad
  <2> QED
    BY <2>1, LeastNatural
<1>2. k \in Nat /\ ~\E s : Lists(s, Below(P, k))
  OBVIOUS
<1>3. k # 0
  <2>1. Below(P, 0) = {}
    BY BelowNext
  <2>2. Lists(<<>>, {})
    BY ListsNone
  <2> QED
    BY <1>2, <2>1, <2>2
<1> DEFINE j == k - 1
<1>4. j \in Nat /\ k = j + 1 /\ j \notin Bad
  BY <1>1, <1>2, <1>3
<1> HIDE DEF j
<1>5. PICK s : Lists(s, Below(P, j))
  BY <1>4
<1>6. CASE j \in P
  <2>1. Below(P, k) = Below(P, j) \cup {j} /\ Below(P, j) \in SUBSET Nat
    BY <1>4, <1>6, BelowNext
  <2>2. \A p \in Below(P, j) : p < j
    BY DEF Below
  <2>3. Lists(Append(s, j), Below(P, j) \cup {j})
    BY <1>4, <1>5, <2>1, <2>2, ListsAppend
  <2> QED
    BY <1>2, <2>1, <2>3
<1>7. CASE j \notin P
  BY <1>2, <1>4, <1>5, <1>7, BelowNext
<1> QED
  BY <1>6, <1>7

LEMMA ListingIs ==
  ASSUME NEW P \in SUBSET Nat, NEW n \in Nat
  PROVE  Lists(Listing(P)[n], Below(P, n))
<1> DEFINE L(k) == CHOOSE s : Lists(s, Below(P, k))
           f == [k \in Nat |-> L(k)]
           Rule(g) == g = [k \in Nat |-> IF k = 0 THEN <<>> ELSE
                        IF k - 1 \in P THEN Append(g[k - 1], k - 1) ELSE g[k - 1]]
<1>1. \A k \in Nat : Lists(L(k), Below(P, k))
  BY ListsExist
<1> HIDE DEF L
<1>2. ASSUME NEW k \in Nat
      PROVE  L(k) = IF k = 0 THEN <<>> ELSE
                       IF k - 1 \in P THEN Append(f[k - 1], k - 1) ELSE f[k - 1]
  <2>1. CASE k = 0
    <3>1. Below(P, 0) = {} /\ Lists(L(0), Below(P, 0))
      BY <1>1, BelowNext
    <3> QED
      BY <2>1, <3>1, ListsNone
  <2>2. CASE k # 0
    <3> DEFINE j == k - 1
    <3>1. j \in Nat /\ k = j + 1 /\ f[k - 1] = L(j)
      BY <2>2
    <3> HIDE DEF f, j
    <3>2. Lists(L(j), Below(P, j)) /\ Lists(L(k), Below(P, k)) /\ Below(P, k) \in SUBSET Nat
      BY <1>1, <3>1, BelowNext
    <3>3. j = k - 1
      BY DEF j
    <3>4. CASE j \in P
      <4>1. Below(P, k) = Below(P, j) \cup {j} /\ Below(P, j) \in SUBSET Nat
        BY <3>1, <3>4, BelowNext
      <4>2. \A p \in Below(P, j) : p < j
        BY DEF Below
      <4>3. Lists(Append(L(j), j), Below(P, k))
        BY <3>1, <3>2, <4>1, <4>2, ListsAppend
      <4>4. L(k) = Append(L(j), j)
        BY <3>2, <4>3, ListsOnce
      <4> QED
        BY <2>2, <3>1, <3>3, <3>4, <4>4
    <3>5. CASE j \notin P
      <4>1. Below(P, k) = Below(P, j)
        BY <3>1, <3>5, BelowNext
      <4>2. L(k) = L(j)
        BY <3>2, <4>1, ListsOnce
      <4> QED
        BY <2>2, <3>1, <3>3, <3>5, <4>2
    <3> QED
      BY <3>4, <3>5
  <2> QED
    BY <2>1, <2>2
<1>3. Rule(f)
  BY <1>2
<1> HIDE DEF f
<1>4. Rule(Listing(P))
  BY <1>3 DEF Listing
<1> DEFINE g == Listing(P)
           Bad == {k \in Nat : g[k] # L(k)}
<1>5. \A k \in Nat : g[k] = IF k = 0 THEN <<>> ELSE
                        IF k - 1 \in P THEN Append(g[k - 1], k - 1) ELSE g[k - 1]
  <2> HIDE DEF g
  <2> QED
    BY <1>4 DEF g
<1> HIDE DEF Rule, g
<1>6. ASSUME Bad # {} PROVE FALSE
  <2>1. PICK k \in Bad : \A j \in Bad : k <= j
    <3>1. Bad \in SUBSET Nat
      OBVIOUS
    <3> HIDE DEF Bad
    <3> QED
      BY <1>6, <3>1, LeastNatural
  <2>2. k \in Nat /\ g[k] # L(k)
    OBVIOUS
  <2>3. k # 0
    BY <1>2, <1>5, <2>2
  <2>4. k - 1 \in Nat /\ k - 1 \notin Bad
    BY <2>1, <2>2, <2>3
  <2>5. g[k - 1] = L(k - 1) /\ f[k - 1] = L(k - 1)
    BY <2>4 DEF f
  <2> QED
    BY <1>2, <1>5, <2>2, <2>3, <2>5
<1>7. Listing(P)[n] = L(n)
  BY <1>6 DEF g
<1> QED
  BY <1>1, <1>7

\* A list of the first numbers of a set is how the list of the set begins.
LEMMA ListsPrefix ==
  ASSUME NEW n \in Nat, NEW P \in SUBSET (0 .. n - 1), NEW Q \in SUBSET P,
         \A q \in Q, p \in P \ Q : q < p,
         NEW s, NEW t, s \o t \in Seq(Nat), s \in Seq(Nat), t \in Seq(Nat),
         Lists(s \o t, Q), NEW u, Lists(u, P)
  PROVE  /\ Len(s) <= Len(u) /\ \A i \in 1 .. Len(s) : s[i] = u[i]
         /\ Len(s) < Len(u) <=> t # <<>> \/ Q # P
<1>1. P \in SUBSET Nat /\ Q \in SUBSET Nat /\ P \ Q \in SUBSET Nat /\ Q \cup (P \ Q) = P
  <2>1. 0 .. n - 1 \subseteq Nat
    OBVIOUS
  <2> QED
    BY <2>1
<1>2. Below(P \ Q, n) = P \ Q
  <2>1. \A p \in P \ Q : p < n
    OBVIOUS
  <2> QED
    BY <2>1 DEF Below
<1>3. PICK r : Lists(r, P \ Q)
  <2>1. P \ Q \in SUBSET Nat
    BY <1>1
  <2> QED
    BY <1>2, <2>1, ListsExist
<1>4. Lists((s \o t) \o r, P)
  <2>1. Lists((s \o t) \o r, Q \cup (P \ Q))
    BY <1>1, <1>3, ListsConcat
  <2> QED
    BY <1>1, <2>1
<1>5. u = (s \o t) \o r
  BY <1>1, <1>4, ListsOnce
<1>6. /\ r \in Seq(Nat) /\ Len(r) \in Nat /\ Len(s) \in Nat /\ Len(t) \in Nat
      /\ Len(s \o t) = Len(s) + Len(t) /\ Len(u) = Len(s \o t) + Len(r)
      /\ \A i \in 1 .. Len(s) : (s \o t)[i] = s[i]
      /\ \A i \in 1 .. Len(s \o t) : u[i] = (s \o t)[i]
  <2>1. r \in Seq(Nat)
    <3>1. P \ Q \subseteq Nat /\ r \in Seq(P \ Q)
      BY <1>3 DEF Lists
    <3> QED
      BY <3>1, SeqMonotonic
  <2>2. Len(r) \in Nat /\ Len(s) \in Nat /\ Len(t) \in Nat
    BY <2>1, LenProperties
  <2>3. /\ Len(s \o t) = Len(s) + Len(t)
        /\ \A i \in 1 .. Len(s) + Len(t) : (s \o t)[i] = IF i <= Len(s) THEN s[i] ELSE t[i - Len(s)]
    BY ConcatProperties
  <2>4. /\ Len(u) = Len(s \o t) + Len(r)
        /\ \A i \in 1 .. Len(s \o t) + Len(r) :
              u[i] = IF i <= Len(s \o t) THEN (s \o t)[i] ELSE r[i - Len(s \o t)]
    BY <1>5, <2>1, ConcatProperties
  <2>5. \A i \in 1 .. Len(s) : (s \o t)[i] = s[i]
    BY <2>2, <2>3
  <2>6. \A i \in 1 .. Len(s \o t) : u[i] = (s \o t)[i]
    BY <2>2, <2>3, <2>4
  <2> QED
    BY <2>1, <2>2, <2>3, <2>4, <2>5, <2>6
<1>7. Len(t) = 0 <=> t = <<>>
  BY EmptySeq
<1>8. Len(r) = 0 <=> Q = P
  <2>1. ASSUME Len(r) = 0 PROVE Q = P
    <3>1. \A p \in P \ Q : \E i \in 1 .. 0 : r[i] = p
      BY <1>3, <2>1 DEF Lists
    <3>2. P \ Q = {}
      BY <3>1
    <3> QED
      BY <3>2
  <2>2. ASSUME Q = P PROVE Len(r) = 0
    <3>1. Lists(r, {})
      BY <1>3, <2>2
    <3> QED
      BY <3>1, ListsNone, EmptySeq
  <2> QED
    BY <2>1, <2>2
<1>9. Len(s) <= Len(u) /\ \A i \in 1 .. Len(s) : s[i] = u[i]
  <2>1. \A i \in 1 .. Len(s) : i \in 1 .. Len(s \o t)
    BY <1>6
  <2>2. \A i \in 1 .. Len(s) : s[i] = u[i]
    BY <1>6, <2>1
  <2> QED
    BY <1>6, <2>2
<1> QED
  BY <1>6, <1>7, <1>8, <1>9
=============================================================================

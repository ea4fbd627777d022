--------------------------- MODULE RadixTreeProofs ---------------------------
(***************************************************************************)
(* Proofs about the construction of the radix tree, for every layout of    *)
(* the particles: the sort orders the keys, the groups are its runs of     *)
(* equal keys; sorted distinct keys are a sequence of gaps, a node's range *)
(* is what lies between two smaller gaps, and the two searches find its    *)
(* end and its split; the threads write nothing of each other's.           *)
(***************************************************************************)
EXTENDS ForcePipeline, FiniteSetTheorems, WellFoundedInduction, TLAPS

----------------------------------------------------------------------------
(* Induction over the natural numbers, on sets *)

(* A set of natural numbers has a least element ... *)
LEMMA NatLeast ==
  ASSUME NEW T \in SUBSET Nat, T # {}
  PROVE  \E m \in T : \A k \in T : m <= k
<1> DEFINE R == {r \in Nat \X Nat : r[1] < r[2]}
<1>1. IsWellFoundedOn(R, Nat)
  BY NatLessThanWellFounded DEF OpToRel
<1>2. PICK m \in T : \A k \in T : ~ (<<k, m>> \in R)
  <2> HIDE DEF R
  <2> QED
    BY <1>1, WFMin
<1>3. \A k \in T : ~ (k < m)
  BY <1>2
<1> QED
  BY <1>3

(* ... so a set with 0 and the successor of each of its elements below a bound reaches it. *)
LEMMA NatInductionUpTo ==
  ASSUME NEW S, NEW N \in Nat, 0 \in S, \A n \in 0 .. N - 1 : n \in S => n + 1 \in S
  PROVE  0 .. N \subseteq S
<1> SUFFICES ASSUME (0 .. N) \ S # {}
             PROVE  FALSE
  OBVIOUS
<1>1. PICK m \in (0 .. N) \ S : \A k \in (0 .. N) \ S : m <= k
  <2>1. (0 .. N) \ S \in SUBSET Nat
    OBVIOUS
  <2> QED
    BY <2>1, NatLeast
<1>2. m # 0 /\ m - 1 \in 0 .. N - 1
  BY <1>1
<1>3. m - 1 \in S
  BY <1>1, <1>2
<1>4. (m - 1) + 1 = m
  BY <1>1
<1> QED
  BY <1>1, <1>2, <1>3, <1>4

(* A finite set of integers has a greatest element, which Max returns ... *)
LEMMA FiniteMax ==
  ASSUME NEW S, IsFiniteSet(S), S \subseteq Int, S # {}
  PROVE  Max(S) \in S /\ \A x \in S : Max(S) >= x
<1> DEFINE G == {n \in Nat : \A T \in SUBSET Int :
                   IsFiniteSet(T) /\ Cardinality(T) = n /\ T # {} => \E m \in T : \A x \in T : m >= x}
<1>1. 0 \in G
  BY FS_EmptySet
<1>2. ASSUME NEW n \in Nat, n \in G
      PROVE  n + 1 \in G
  <2> SUFFICES ASSUME NEW T \in SUBSET Int, IsFiniteSet(T), Cardinality(T) = n + 1, T # {}
               PROVE  \E m \in T : \A x \in T : m >= x
    OBVIOUS
  <2>1. PICK y \in T : TRUE
    OBVIOUS
  <2>2. IsFiniteSet(T \ {y}) /\ Cardinality(T \ {y}) = Cardinality(T) - 1
    BY <2>1, FS_RemoveElement
  <2>3. CASE T \ {y} = {}
    BY <2>1, <2>3
  <2>4. CASE T \ {y} # {}
    <3>1. PICK m \in T \ {y} : \A x \in T \ {y} : m >= x
      BY <1>2, <2>2, <2>4
    <3>2. (\A x \in T : m >= x) \/ (\A x \in T : y >= x)
      BY <3>1
    <3> QED
      BY <3>2
  <2> QED
    BY <2>3, <2>4
<1>3. Cardinality(S) \in Nat
  BY FS_CardinalityType
<1>4. Cardinality(S) \in G
  <2> HIDE DEF G
  <2>1. 0 .. Cardinality(S) \subseteq G
    BY <1>1, <1>2, <1>3, NatInductionUpTo
  <2> QED
    BY <1>3, <2>1
<1>5. \E m \in S : \A x \in S : m >= x
  BY <1>4
<1> QED
  BY <1>5 DEF Max

(* ... and a least one. *)
LEMMA FiniteMin ==
  ASSUME NEW S, IsFiniteSet(S), S \subseteq Int, S # {}
  PROVE  Min(S) \in S /\ \A x \in S : Min(S) <= x
<1> DEFINE T == {-x : x \in S}
           f == [x \in S |-> -x]
<1>1. T \subseteq Int /\ T # {}
  <2>1. \A x \in Int : -x \in Int
    OBVIOUS
  <2> QED
    BY <2>1
<1>2. IsFiniteSet(T)
  <2>1. f \in Surjection(S, T)
    BY DEF Surjection
  <2> QED
    BY <2>1, FS_Surjection
<1>3. PICK m \in T : \A x \in T : m >= x
  <2> HIDE DEF T
  <2> QED
    BY <1>1, <1>2, FiniteMax
<1>4. -m \in S /\ \A x \in S : -m <= x
  BY <1>3
<1>5. \E y \in S : \A x \in S : y <= x
  BY <1>4
<1> QED
  BY <1>5 DEF Min

----------------------------------------------------------------------------
(* Words *)

(* The positions of bits are finitely many numbers. *)
LEMMA Bits == IsFiniteSet(BitPositions) /\ BitPositions \subseteq Nat
<1>1. 0 \in Int /\ 31 \in Int
  OBVIOUS
<1>2. IsFiniteSet(0 .. 31)
  BY <1>1, FS_Interval
<1> QED
  BY <1>2 DEF BitPositions, kMortonStorageBits

(* The highest bit two different words differ in. *)
LEMMA TopBit ==
  ASSUME NEW v \in SUBSET BitPositions, NEW w \in SUBSET BitPositions, v # w
  PROVE  /\ Max(Xor(v, w)) \in Xor(v, w)
         /\ Max(Xor(v, w)) \in 0 .. 31
         /\ \A b \in Xor(v, w) : b <= Max(Xor(v, w))
         /\ Clz(Xor(v, w)) = 31 - Max(Xor(v, w))
<1>1. Xor(v, w) \subseteq BitPositions /\ Xor(v, w) # {}
  BY DEF Xor
<1>2. IsFiniteSet(Xor(v, w))
  BY <1>1, Bits, FS_Subset
<1>0. Xor(v, w) \subseteq Nat
  BY <1>1, Bits
<1>3. Xor(v, w) \subseteq Int
  BY <1>0
<1>4. Max(Xor(v, w)) \in Xor(v, w) /\ \A b \in Xor(v, w) : Max(Xor(v, w)) >= b
  BY <1>1, <1>2, <1>3, FiniteMax
<1>5. Max(Xor(v, w)) \in 0 .. 31
  BY <1>1, <1>4 DEF BitPositions, kMortonStorageBits
<1>6. \A b \in Xor(v, w) : b \in Int
  BY <1>3
<1> QED
  BY <1>1, <1>4, <1>5, <1>6 DEF Clz, kMortonStorageBits

(* It is the only one a greatest differing bit can be. *)
LEMMA TopBitIs ==
  ASSUME NEW v \in SUBSET BitPositions, NEW w \in SUBSET BitPositions,
         NEW b \in Xor(v, w), \A c \in Xor(v, w) : c <= b
  PROVE  v # w /\ Max(Xor(v, w)) = b
<1>1. v # w
  BY DEF Xor
<1>2. /\ Max(Xor(v, w)) \in Xor(v, w) /\ \A c \in Xor(v, w) : c <= Max(Xor(v, w))
  BY <1>1, TopBit
<1>3. Xor(v, w) \subseteq Nat
  BY Bits DEF Xor
<1>4. Max(Xor(v, w)) <= b /\ b <= Max(Xor(v, w)) /\ b \in Nat /\ Max(Xor(v, w)) \in Nat
  BY <1>2, <1>3
<1> QED
  BY <1>1, <1>4

(* Of three words in order, the first and the last differ where the nearer pair first does. *)
LEMMA Between ==
  ASSUME NEW u \in SUBSET BitPositions, NEW v \in SUBSET BitPositions, NEW w \in SUBSET BitPositions,
         Precedes(u, v), Precedes(v, w)
  PROVE  /\ Precedes(u, w)
         /\ Max(Xor(u, v)) # Max(Xor(v, w))
         /\ Max(Xor(u, w)) = IF Max(Xor(u, v)) > Max(Xor(v, w)) THEN Max(Xor(u, v)) ELSE Max(Xor(v, w))
<1> DEFINE a == Max(Xor(u, v))
           b == Max(Xor(v, w))
<1>1. /\ u # v /\ a \in Xor(u, v) /\ a \in v /\ a \notin u /\ a \in 0 .. 31
      /\ \A c \in Xor(u, v) : c <= a
  BY TopBit DEF Precedes, Xor
<1>2. /\ v # w /\ b \in Xor(v, w) /\ b \in w /\ b \notin v /\ b \in 0 .. 31
      /\ \A c \in Xor(v, w) : c <= b
  BY TopBit DEF Precedes, Xor
<1> HIDE DEF a, b
<1>3. a # b
  BY <1>1, <1>2
<1>4. u \cup v \cup w \subseteq Nat
  BY Bits
<1>5. CASE a > b
  <2>1. a \notin Xor(v, w)
    BY <1>1, <1>2, <1>5
  <2>2. a \in w /\ a \in Xor(u, w)
    BY <1>1, <2>1 DEF Xor
  <2>3. \A c \in Xor(u, w) : c <= a
    <3> SUFFICES ASSUME NEW c \in Xor(u, w)
                 PROVE  c <= a
      OBVIOUS
    <3>1. c \in Xor(u, v) \/ c \in Xor(v, w)
      BY DEF Xor
    <3>2. c \in Nat
      BY <1>4 DEF Xor
    <3> QED
      BY <1>1, <1>2, <1>5, <3>1, <3>2
  <2>4. u # w /\ Max(Xor(u, w)) = a
    BY <2>2, <2>3, TopBitIs
  <2> QED
    BY <1>3, <1>5, <2>2, <2>4 DEF a, b, Precedes
<1>6. CASE b > a
  <2>1. b \notin Xor(u, v)
    BY <1>1, <1>2, <1>6
  <2>2. b \notin u /\ b \in Xor(u, w)
    BY <1>2, <2>1 DEF Xor
  <2>3. \A c \in Xor(u, w) : c <= b
    <3> SUFFICES ASSUME NEW c \in Xor(u, w)
                 PROVE  c <= b
      OBVIOUS
    <3>1. c \in Xor(u, v) \/ c \in Xor(v, w)
      BY DEF Xor
    <3>2. c \in Nat
      BY <1>4 DEF Xor
    <3> QED
      BY <1>1, <1>2, <1>6, <3>1, <3>2
  <2>4. u # w /\ Max(Xor(u, w)) = b
    BY <2>2, <2>3, TopBitIs
  <2>5. ~(a > b)
    BY <1>1, <1>2, <1>6
  <2> QED
    BY <1>2, <1>3, <2>4, <2>5 DEF a, b, Precedes
<1> QED
  BY <1>1, <1>2, <1>3, <1>5, <1>6

----------------------------------------------------------------------------
(* The searches, on numbers *)

(* The functions that double a length up to above m, and that halve it back. *)
IsDoubling(f, m, M) == f = [x \in 1 .. M |-> IF x <= m THEN f[2 * x] ELSE x]
IsHalving(g, m, M) ==
  g = [t \in 1 .. M |-> [l \in Nat |->
         IF t > 1 THEN g[t \div 2][IF l + t <= m THEN l + t ELSE l]
         ELSE IF l + t <= m THEN l + t ELSE l]]

(* The doubling search is well defined: it stops above m. *)
LEMMA DoublingIs ==
  ASSUME NEW m \in Nat, NEW M \in Nat, 2 * m <= M
  PROVE  \E f : f = [x \in 1 .. M |-> IF x <= m THEN f[2 * x] ELSE x]
<1> DEFINE above(n) == {x \in 1 .. M : x > M - n}
           G == {n \in Nat : \E f : f = [x \in above(n) |-> IF x <= m THEN f[2 * x] ELSE x]}
<1>1. 0 \in G
  <2>1. above(0) = {}
    OBVIOUS
  <2> DEFINE g == [x \in above(0) |-> 0]
  <2>2. g = [x \in above(0) |-> IF x <= m THEN g[2 * x] ELSE x]
    BY <2>1
  <2> HIDE DEF g
  <2> QED
    BY <2>2
<1>2. ASSUME NEW n \in 0 .. M - 1, n \in G
      PROVE  n + 1 \in G
  <2>1. PICK f : f = [x \in above(n) |-> IF x <= m THEN f[2 * x] ELSE x]
    BY <1>2
  <2> DEFINE y == M - n
             g == [x \in above(n + 1) |-> IF x = y THEN (IF y <= m THEN f[2 * y] ELSE y) ELSE f[x]]
  <2>2. \A x \in above(n + 1) : g[x] = IF x <= m THEN g[2 * x] ELSE x
    <3> SUFFICES ASSUME NEW x \in above(n + 1)
                 PROVE  g[x] = IF x <= m THEN g[2 * x] ELSE x
      OBVIOUS
    <3>1. x \in Nat /\ x >= y /\ x >= 1 /\ x <= M /\ y \in Nat
      OBVIOUS
    <3>2. x <= m => 2 * x \in above(n) /\ 2 * x \in above(n + 1) /\ 2 * x # y
      BY <3>1
    <3>3. x <= m => g[2 * x] = f[2 * x]
      BY <3>2
    <3>4. CASE x = y
      BY <3>3, <3>4
    <3>5. CASE x # y
      <4>1. x \in above(n) /\ g[x] = f[x]
        BY <3>1, <3>5
      <4>2. f[x] = IF x <= m THEN f[2 * x] ELSE x
        BY <2>1, <4>1
      <4> QED
        BY <3>3, <4>1, <4>2
    <3> QED
      BY <3>4, <3>5
  <2>3. g = [x \in above(n + 1) |-> IF x <= m THEN g[2 * x] ELSE x]
    BY <2>2
  <2>4. \E h : h = [x \in above(n + 1) |-> IF x <= m THEN h[2 * x] ELSE x]
    <3> HIDE DEF g, above
    <3> QED
      BY <2>3
  <2>5. n + 1 \in Nat
    OBVIOUS
  <2> HIDE DEF above
  <2> QED
    BY <2>4, <2>5
<1>3. M \in G
  <2> HIDE DEF G
  <2>1. 0 .. M \subseteq G
    BY <1>1, <1>2, NatInductionUpTo
  <2> QED
    BY <2>1
<1>4. above(M) = 1 .. M
  OBVIOUS
<1> QED
  BY <1>3, <1>4

(* So is the halving search: its steps get shorter. *)
LEMMA HalvingIs ==
  ASSUME NEW m \in Nat, NEW M \in Nat
  PROVE  \E f : f = [t \in 1 .. M |-> [l \in Nat |->
                       IF t > 1 THEN f[t \div 2][IF l + t <= m THEN l + t ELSE l]
                       ELSE IF l + t <= m THEN l + t ELSE l]]
<1> DEFINE next(t, l) == IF l + t <= m THEN l + t ELSE l
           G == {n \in Nat : \E f : f = [t \in 1 .. n |-> [l \in Nat |->
                               IF t > 1 THEN f[t \div 2][next(t, l)] ELSE next(t, l)]]}
<1>1. 0 \in G
  <2> DEFINE g == [t \in 1 .. 0 |-> 0]
  <2>1. g = [t \in 1 .. 0 |-> [l \in Nat |-> IF t > 1 THEN g[t \div 2][next(t, l)] ELSE next(t, l)]]
    OBVIOUS
  <2> HIDE DEF g, next
  <2> QED
    BY <2>1
<1>2. ASSUME NEW n \in 0 .. M - 1, n \in G
      PROVE  n + 1 \in G
  <2> HIDE DEF next
  <2>1. PICK f : f = [t \in 1 .. n |-> [l \in Nat |->
                        IF t > 1 THEN f[t \div 2][next(t, l)] ELSE next(t, l)]]
    BY <1>2
  <2> DEFINE y == n + 1
             at == [l \in Nat |-> IF y > 1 THEN f[y \div 2][next(y, l)] ELSE next(y, l)]
             g == [t \in 1 .. y |-> IF t = y THEN at ELSE f[t]]
  <2>2. \A t \in 1 .. y : g[t] = [l \in Nat |-> IF t > 1 THEN g[t \div 2][next(t, l)] ELSE next(t, l)]
    <3> SUFFICES ASSUME NEW t \in 1 .. y
                 PROVE  g[t] = [l \in Nat |-> IF t > 1 THEN g[t \div 2][next(t, l)] ELSE next(t, l)]
      OBVIOUS
    <3>1. t > 1 => t \div 2 \in 1 .. n /\ t \div 2 \in 1 .. y /\ t \div 2 # y
      OBVIOUS
    <3>2. t > 1 => g[t \div 2] = f[t \div 2]
      BY <3>1
    <3>3. CASE t = y
      <4>1. g[t] = at
        BY <3>3
      <4>2. at = [l \in Nat |-> IF t > 1 THEN g[t \div 2][next(t, l)] ELSE next(t, l)]
        <5> HIDE DEF g
        <5> QED
          BY <3>2, <3>3
      <4> QED
        BY <4>1, <4>2
    <3>4. CASE t # y
      <4>1. t \in 1 .. n
        BY <3>4
      <4>2. g[t] = f[t]
        BY <3>4
      <4>3. f[t] = [l \in Nat |-> IF t > 1 THEN f[t \div 2][next(t, l)] ELSE next(t, l)]
        BY <2>1, <4>1
      <4> HIDE DEF g
      <4> QED
        BY <3>2, <4>2, <4>3
    <3> QED
      BY <3>3, <3>4
  <2>3. g = [t \in 1 .. n + 1 |-> [l \in Nat |-> IF t > 1 THEN g[t \div 2][next(t, l)] ELSE next(t, l)]]
    <3>1. g = [t \in 1 .. n + 1 |-> g[t]]
      OBVIOUS
    <3> HIDE DEF g
    <3> QED
      BY <2>2, <3>1
  <2>4. \E h : h = [t \in 1 .. n + 1 |-> [l \in Nat |-> IF t > 1 THEN h[t \div 2][next(t, l)] ELSE next(t, l)]]
    <3> HIDE DEF g
    <3> QED
      BY <2>3
  <2>5. n + 1 \in Nat
    OBVIOUS
  <2> QED
    BY <2>4, <2>5
<1>3. M \in G
  <2> HIDE DEF G
  <2>1. 0 .. M \subseteq G
    BY <1>1, <1>2, NatInductionUpTo
  <2> QED
    BY <2>1
<1> QED
  BY <1>3

(* Doubling from 2 past m and halving back ends at m. *)
LEMMA SearchFinds ==
  ASSUME NEW m \in Nat \ {0}, NEW M \in Nat, 2 * m <= M,
         NEW f, IsDoubling(f, m, M), NEW g, IsHalving(g, m, M)
  PROVE  g[f[2] \div 2][0] = m
<1> DEFINE Good == {t \in 1 .. M : \A l \in Nat : l <= m /\ m < l + 2 * t => g[t][l] = m}
<1>0. ASSUME NEW t \in 1 .. M, NEW l \in Nat
      PROVE  g[t][l] = IF t > 1 THEN g[t \div 2][IF l + t <= m THEN l + t ELSE l]
                       ELSE IF l + t <= m THEN l + t ELSE l
  <2> DEFINE row == [k \in Nat |-> IF t > 1 THEN g[t \div 2][IF k + t <= m THEN k + t ELSE k]
                                   ELSE IF k + t <= m THEN k + t ELSE k]
  <2>1. g[t] = row
    BY DEF IsHalving
  <2>2. row[l] = IF t > 1 THEN g[t \div 2][IF l + t <= m THEN l + t ELSE l]
                 ELSE IF l + t <= m THEN l + t ELSE l
    OBVIOUS
  <2> QED
    BY <2>1, <2>2
<1>1. 1 \in Good
  <2>1. ASSUME NEW l \in Nat, l <= m, m < l + 2 * 1
        PROVE  g[1][l] = m
    <3>1. 1 \in 1 .. M
      OBVIOUS
    <3>2. g[1][l] = IF l + 1 <= m THEN l + 1 ELSE l
      BY <1>0, <3>1
    <3> QED
      BY <2>1, <3>2
  <2> QED
    BY <2>1
<1>2. ASSUME NEW t \in Good, 2 * t \in 1 .. M
      PROVE  2 * t \in Good
  <2>1. ASSUME NEW l \in Nat, l <= m, m < l + 2 * (2 * t)
        PROVE  g[2 * t][l] = m
    <3> DEFINE next == IF l + 2 * t <= m THEN l + 2 * t ELSE l
    <3>0. t \in Nat /\ t >= 1
      OBVIOUS
    <3>1. next \in Nat /\ next <= m /\ m < next + 2 * t /\ (2 * t) \div 2 = t /\ 2 * t > 1
      <4> HIDE DEF Good
      <4> QED
        BY <2>1, <3>0
    <3>2. g[2 * t][l] = g[(2 * t) \div 2][next]
      BY <1>0, <1>2, <3>1
    <3>3. g[t][next] = m
      BY <3>1
    <3> QED
      BY <3>1, <3>2, <3>3
  <2> QED
    BY <1>2, <2>1
<1>3. \A t \in Good : 2 * t \in 1 .. M => \E u \in Good : f[2 * t] = 2 * u /\ m < 2 * u
  <2> DEFINE Bad == {t \in Good : 2 * t \in 1 .. M /\ ~ \E u \in Good : f[2 * t] = 2 * u /\ m < 2 * u}
             Left == {M - t : t \in Bad}
  <2> SUFFICES ASSUME Bad # {}
               PROVE  FALSE
    OBVIOUS
  <2>1. Left \in SUBSET Nat /\ Left # {}
    <3>1. \A t \in Bad : M - t \in Nat
      OBVIOUS
    <3> HIDE DEF Bad
    <3> QED
      BY <3>1
  <2>2. PICK k \in Left : \A n \in Left : k <= n
    <3> HIDE DEF Left
    <3> QED
      BY <2>1, NatLeast
  <2>3. PICK t \in Bad : k = M - t
    OBVIOUS
  <2>4. t \in Nat /\ t >= 1 /\ 2 * t \in 1 .. M /\ t \in Good
    OBVIOUS
  <2>5. 2 * t <= m
    <3>1. CASE m < 2 * t
      <4>1. f[2 * t] = 2 * t
        BY <2>4, <3>1 DEF IsDoubling
      <4> QED
        BY <2>3, <2>4, <3>1, <4>1
    <3> QED
      BY <2>4, <3>1
  <2>6. f[2 * t] = f[2 * (2 * t)] /\ 2 * (2 * t) \in 1 .. M
    BY <2>4, <2>5 DEF IsDoubling
  <2>7. 2 * t \in Good
    BY <1>2, <2>4
  <2>8. 2 * t \in Bad
    BY <2>3, <2>4, <2>6, <2>7
  <2>9. M - 2 * t \in Left
    BY <2>8
  <2>10. k <= M - 2 * t
    BY <2>2, <2>9
  <2> QED
    BY <2>3, <2>4, <2>10
<1> HIDE DEF Good
<1>4. PICK u \in Good : f[2 * 1] = 2 * u /\ m < 2 * u
  BY <1>1, <1>3
<1>5. u \in 1 .. M /\ g[u][0] = m
  <2>1. 0 \in Nat /\ 0 <= m /\ m < 0 + 2 * u
    BY <1>4 DEF Good
  <2> QED
    BY <2>1 DEF Good
<1>6. f[2] \div 2 = u
  BY <1>4, <1>5
<1> QED
  BY <1>5, <1>6

(* The function that moves towards s in steps that halve. *)
IsSplitting(f, s, lo, hi) ==
  f = [step \in 1 .. hi - lo |-> [k \in lo .. hi |->
         IF Halve(step) > 1
         THEN f[Halve(step)][IF k + Halve(step) <= s THEN k + Halve(step) ELSE k]
         ELSE IF k + Halve(step) <= s THEN k + Halve(step) ELSE k]]

(* The search for a split is well defined: its steps get shorter. *)
LEMMA SplittingIs ==
  ASSUME NEW s \in Int, NEW lo \in Int, NEW hi \in Int, hi - lo \in Nat
  PROVE  \E f : IsSplitting(f, s, lo, hi)
<1> DEFINE D == hi - lo
<1>0. D \in Nat
  OBVIOUS
<1> HIDE DEF D
<1> DEFINE next(t, k) == IF k + Halve(t) <= s THEN k + Halve(t) ELSE k
           G == {n \in Nat : \E f : f = [t \in 1 .. n |-> [k \in lo .. hi |->
                               IF Halve(t) > 1 THEN f[Halve(t)][next(t, k)] ELSE next(t, k)]]}
<1>1. 0 \in G
  <2> DEFINE g == [t \in 1 .. 0 |-> 0]
  <2>1. g = [t \in 1 .. 0 |-> [k \in lo .. hi |->
               IF Halve(t) > 1 THEN g[Halve(t)][next(t, k)] ELSE next(t, k)]]
    OBVIOUS
  <2> HIDE DEF g, next
  <2> QED
    BY <2>1
<1>2. ASSUME NEW n \in 0 .. D - 1, n \in G
      PROVE  n + 1 \in G
  <2> HIDE DEF next
  <2>1. PICK f : f = [t \in 1 .. n |-> [k \in lo .. hi |->
                        IF Halve(t) > 1 THEN f[Halve(t)][next(t, k)] ELSE next(t, k)]]
    BY <1>2
  <2> DEFINE y == n + 1
             at == [k \in lo .. hi |-> IF Halve(y) > 1 THEN f[Halve(y)][next(y, k)] ELSE next(y, k)]
             g == [t \in 1 .. y |-> IF t = y THEN at ELSE f[t]]
  <2>2. \A t \in 1 .. y : g[t] = [k \in lo .. hi |->
                                    IF Halve(t) > 1 THEN g[Halve(t)][next(t, k)] ELSE next(t, k)]
    <3> SUFFICES ASSUME NEW t \in 1 .. y
                 PROVE  g[t] = [k \in lo .. hi |->
                                  IF Halve(t) > 1 THEN g[Halve(t)][next(t, k)] ELSE next(t, k)]
      OBVIOUS
    <3>1. Halve(t) > 1 => Halve(t) \in 1 .. n /\ Halve(t) \in 1 .. y /\ Halve(t) # y
      BY DEF Halve
    <3>2. Halve(t) > 1 => g[Halve(t)] = f[Halve(t)]
      BY <3>1
    <3>3. CASE t = y
      <4>1. g[t] = at
        BY <3>3
      <4>2. at = [k \in lo .. hi |-> IF Halve(t) > 1 THEN g[Halve(t)][next(t, k)] ELSE next(t, k)]
        <5> HIDE DEF g
        <5> QED
          BY <3>2, <3>3
      <4> QED
        BY <4>1, <4>2
    <3>4. CASE t # y
      <4>1. t \in 1 .. n
        BY <3>4
      <4>2. g[t] = f[t]
        BY <3>4
      <4>3. f[t] = [k \in lo .. hi |-> IF Halve(t) > 1 THEN f[Halve(t)][next(t, k)] ELSE next(t, k)]
        BY <2>1, <4>1
      <4> HIDE DEF g
      <4> QED
        BY <3>2, <4>2, <4>3
    <3> QED
      BY <3>3, <3>4
  <2>3. g = [t \in 1 .. n + 1 |-> [k \in lo .. hi |->
               IF Halve(t) > 1 THEN g[Halve(t)][next(t, k)] ELSE next(t, k)]]
    <3>1. g = [t \in 1 .. n + 1 |-> g[t]]
      OBVIOUS
    <3> HIDE DEF g
    <3> QED
      BY <2>2, <3>1
  <2>4. \E h : h = [t \in 1 .. n + 1 |-> [k \in lo .. hi |->
                      IF Halve(t) > 1 THEN h[Halve(t)][next(t, k)] ELSE next(t, k)]]
    <3> HIDE DEF g
    <3> QED
      BY <2>3
  <2>5. n + 1 \in Nat
    OBVIOUS
  <2> QED
    BY <2>4, <2>5
<1>3. D \in G
  <2> HIDE DEF G
  <2>1. 0 .. D \subseteq G
    BY <1>0, <1>1, <1>2, NatInductionUpTo
  <2> QED
    BY <1>0, <2>1
<1> QED
  BY <1>3 DEF IsSplitting, D

(* Steps that halve, rounding up, from lo reach s. *)
LEMMA SplitFinds ==
  ASSUME NEW lo \in Int, NEW hi \in Int, NEW s \in lo .. hi - 1,
         NEW f, IsSplitting(f, s, lo, hi)
  PROVE  f[hi - lo][lo] = s
<1> DEFINE Good == {n \in Nat : \A t \in 1 .. n : t \in 1 .. hi - lo =>
                      \A k \in lo .. hi : k <= s /\ s < k + t => f[t][k] = s}
<1>0. ASSUME NEW t \in 1 .. hi - lo, NEW k \in lo .. hi
      PROVE  f[t][k] = IF Halve(t) > 1
                       THEN f[Halve(t)][IF k + Halve(t) <= s THEN k + Halve(t) ELSE k]
                       ELSE IF k + Halve(t) <= s THEN k + Halve(t) ELSE k
  <2> DEFINE row == [j \in lo .. hi |->
                       IF Halve(t) > 1
                       THEN f[Halve(t)][IF j + Halve(t) <= s THEN j + Halve(t) ELSE j]
                       ELSE IF j + Halve(t) <= s THEN j + Halve(t) ELSE j]
  <2>1. f[t] = row
    BY DEF IsSplitting
  <2>2. row[k] = IF Halve(t) > 1
                 THEN f[Halve(t)][IF k + Halve(t) <= s THEN k + Halve(t) ELSE k]
                 ELSE IF k + Halve(t) <= s THEN k + Halve(t) ELSE k
    OBVIOUS
  <2> QED
    BY <2>1, <2>2
<1>1. 0 \in Good
  OBVIOUS
<1>2. ASSUME NEW n \in 0 .. hi - lo - 1, n \in Good
      PROVE  n + 1 \in Good
  <2> SUFFICES ASSUME NEW k \in lo .. hi, k <= s, s < k + (n + 1)
               PROVE  f[n + 1][k] = s
    <3>1. ASSUME NEW t \in 1 .. n + 1, t \in 1 .. hi - lo, NEW k \in lo .. hi, k <= s, s < k + t
          PROVE  f[t][k] = s
      <4>1. CASE t \in 1 .. n
        BY <1>2, <3>1, <4>1
      <4>2. CASE t = n + 1
        <5>1. s < k + (n + 1)
          BY <3>1, <4>2
        <5> QED
          BY <3>1, <4>2, <5>1
      <4> QED
        BY <4>1, <4>2
    <3>2. n + 1 \in Nat
      OBVIOUS
    <3> QED
      BY <3>1, <3>2
  <2> DEFINE t == n + 1
             half == Halve(t)
             next == IF k + half <= s THEN k + half ELSE k
  <2>1. t \in 1 .. hi - lo /\ half \in Nat /\ half >= 1 /\ half <= t /\ t <= 2 * half /\ (t > 1 => half <= n)
    BY DEF Halve
  <2>2. f[t][k] = IF half > 1 THEN f[half][next] ELSE next
    BY <1>0, <2>1
  <2> HIDE DEF half, Good
  <2>3. next \in lo .. hi /\ next <= s /\ s < next + half
    BY <2>1
  <2>4. CASE half > 1
    <3>1. half \in 1 .. n /\ half \in 1 .. hi - lo
      BY <2>1, <2>4
    <3>2. f[half][next] = s
      <4> HIDE DEF next
      <4> QED
        BY <1>2, <2>3, <3>1 DEF Good
    <3>3. f[t][k] = f[half][next]
      <4> HIDE DEF next, t
      <4> QED
        BY <2>2, <2>4
    <3> HIDE DEF next
    <3> QED
      BY <3>2, <3>3
  <2>5. CASE ~(half > 1)
    <3>1. next = s
      <4>1. half = 1
        BY <2>1, <2>5
      <4> HIDE DEF next
      <4> QED
        BY <2>3, <4>1
    <3> QED
      BY <2>2, <2>5, <3>1
  <2> QED
    BY <2>4, <2>5
<1>3. hi - lo \in Nat /\ hi - lo \in 1 .. hi - lo
  OBVIOUS
<1> HIDE DEF Good
<1>4. hi - lo \in Good
  <2>1. 0 .. hi - lo \subseteq Good
    BY <1>1, <1>2, <1>3, NatInductionUpTo
  <2> QED
    BY <1>3, <2>1
<1> QED
  BY <1>3, <1>4 DEF Good

----------------------------------------------------------------------------
(* Sorted keys *)

AreSorted(K) ==
  /\ Size(K) \in Nat \ {0}
  /\ DOMAIN K = 0 .. Size(K) - 1
  /\ \A j \in DOMAIN K : K[j] \in SUBSET BitPositions
  /\ \A j, k \in DOMAIN K : j < k => Precedes(K[j], K[k])

(* Two of three keys in order share what the outer ones share, the other pair shares more. *)
Nested(K) ==
  LET N == Size(K) IN
  /\ \A i \in 0 .. N - 1, j \in Int \ (0 .. N - 1) : longestCommonPrefix(K, i, j) = -1
  /\ \A i, j \in 0 .. N - 1 : i # j =>
       /\ longestCommonPrefix(K, i, j) \in 0 .. 31
       /\ longestCommonPrefix(K, i, j) = longestCommonPrefix(K, j, i)
  /\ \A i, j, k \in 0 .. N - 1 : i < j /\ j < k =>
       /\ longestCommonPrefix(K, i, j) # longestCommonPrefix(K, j, k)
       /\ longestCommonPrefix(K, i, k) =
            IF longestCommonPrefix(K, i, j) < longestCommonPrefix(K, j, k)
            THEN longestCommonPrefix(K, i, j) ELSE longestCommonPrefix(K, j, k)

(* A key shares nothing with a place outside the array ... *)
LEMMA Outside ==
  ASSUME NEW K, AreSorted(K), NEW i \in 0 .. Size(K) - 1, NEW j \in Int \ (0 .. Size(K) - 1)
  PROVE  longestCommonPrefix(K, i, j) = -1
BY DEF longestCommonPrefix, AreSorted

(* ... and with another key as many bits as are above the first they differ in. *)
LEMMA PrefixOf ==
  ASSUME NEW K, AreSorted(K), NEW i \in 0 .. Size(K) - 1, NEW j \in 0 .. Size(K) - 1, i # j
  PROVE  /\ K[i] \in SUBSET BitPositions /\ K[j] \in SUBSET BitPositions /\ K[i] # K[j]
         /\ longestCommonPrefix(K, i, j) = 31 - Max(Xor(K[i], K[j]))
<1>1. K[i] \in SUBSET BitPositions /\ K[j] \in SUBSET BitPositions
  BY DEF AreSorted
<1>2. K[i] # K[j]
  <2>1. i < j \/ j < i
    OBVIOUS
  <2> QED
    BY <2>1 DEF AreSorted, Precedes
<1>3. longestCommonPrefix(K, i, j) = Clz(Xor(K[i], K[j]))
  BY <1>2 DEF longestCommonPrefix
<1> QED
  BY <1>1, <1>2, <1>3, TopBit

(* Keys in ascending order are nested: their longest common prefixes are those of a tree. *)
LEMMA SortedNested ==
  ASSUME NEW K, AreSorted(K)
  PROVE  Nested(K)
<1> DEFINE N == Size(K)
           lcp(i, j) == longestCommonPrefix(K, i, j)
<1>0. N \in Nat \ {0}
  BY DEF AreSorted
<1>1. \A i \in 0 .. N - 1, j \in Int \ (0 .. N - 1) : lcp(i, j) = -1
  BY Outside
<1>2. ASSUME NEW i \in 0 .. N - 1, NEW j \in 0 .. N - 1, i # j
      PROVE  lcp(i, j) \in 0 .. 31 /\ lcp(i, j) = lcp(j, i)
  <2>1. lcp(i, j) = 31 - Max(Xor(K[i], K[j])) /\ lcp(j, i) = 31 - Max(Xor(K[j], K[i]))
    BY <1>2, PrefixOf
  <2>2. Xor(K[i], K[j]) = Xor(K[j], K[i])
    BY DEF Xor
  <2>3. Max(Xor(K[i], K[j])) \in 0 .. 31
    BY <1>2, PrefixOf, TopBit
  <2> QED
    BY <2>1, <2>2, <2>3
<1>3. ASSUME NEW i \in 0 .. N - 1, NEW j \in 0 .. N - 1, NEW k \in 0 .. N - 1, i < j, j < k
      PROVE  /\ lcp(i, j) # lcp(j, k)
             /\ lcp(i, k) = IF lcp(i, j) < lcp(j, k) THEN lcp(i, j) ELSE lcp(j, k)
  <2> DEFINE a == Max(Xor(K[i], K[j]))
             b == Max(Xor(K[j], K[k]))
             c == Max(Xor(K[i], K[k]))
  <2>0. i # j /\ j # k /\ i # k
    BY <1>3
  <2>1. lcp(i, j) = 31 - a /\ lcp(j, k) = 31 - b /\ lcp(i, k) = 31 - c
    BY <2>0, PrefixOf
  <2>2. a \in 0 .. 31 /\ b \in 0 .. 31
    BY <2>0, PrefixOf, TopBit
  <2>3. a # b /\ c = IF a > b THEN a ELSE b
    <3>1. Precedes(K[i], K[j]) /\ Precedes(K[j], K[k])
      BY <1>3 DEF AreSorted
    <3> QED
      BY <2>0, <3>1, PrefixOf, Between
  <2> HIDE DEF a, b, c, lcp
  <2> QED
    BY <2>1, <2>2, <2>3
<1> HIDE DEF N
<1>4. \A i, j \in 0 .. N - 1 : i # j => lcp(i, j) \in 0 .. 31 /\ lcp(i, j) = lcp(j, i)
  BY <1>2
<1>5. \A i, j, k \in 0 .. N - 1 : i < j /\ j < k =>
         /\ lcp(i, j) # lcp(j, k)
         /\ lcp(i, k) = IF lcp(i, j) < lcp(j, k) THEN lcp(i, j) ELSE lcp(j, k)
  BY <1>3
<1> QED
  BY <1>1, <1>4, <1>5 DEF Nested, N

----------------------------------------------------------------------------
(* The range of a node *)

(* Keys inside a range share at least what its ends share. *)
LEMMA InnerPrefix ==
  ASSUME NEW K, Nested(K), Size(K) \in Nat \ {0},
         NEW f \in 0 .. Size(K) - 1, NEW j \in 0 .. Size(K) - 1,
         NEW k \in 0 .. Size(K) - 1, NEW l \in 0 .. Size(K) - 1,
         f <= j, j < k, k <= l
  PROVE  longestCommonPrefix(K, j, k) >= longestCommonPrefix(K, f, l)
<1> DEFINE N == Size(K)
           lcp(x, y) == longestCommonPrefix(K, x, y)
<1>1. /\ \A x, y \in 0 .. N - 1 : x # y => lcp(x, y) \in 0 .. 31
      /\ \A x, y, z \in 0 .. N - 1 : x < y /\ y < z =>
           lcp(x, z) = IF lcp(x, y) < lcp(y, z) THEN lcp(x, y) ELSE lcp(y, z)
  BY DEF Nested
<1> HIDE DEF N, lcp
<1>2. lcp(j, k) >= lcp(j, l) /\ lcp(j, l) \in 0 .. 31
  <2>1. CASE k = l
    BY <1>1, <2>1 DEF N
  <2>2. CASE k < l
    BY <1>1, <2>2 DEF N
  <2> QED
    BY <2>1, <2>2
<1>3. lcp(j, l) >= lcp(f, l) /\ lcp(f, l) \in 0 .. 31
  <2>1. CASE f = j
    BY <1>2, <2>1 DEF N
  <2>2. CASE f < j
    <3>1. lcp(f, l) = IF lcp(f, j) < lcp(j, l) THEN lcp(f, j) ELSE lcp(j, l)
      <4>1. j < l
        OBVIOUS
      <4> QED
        BY <1>1, <2>2, <4>1 DEF N
    <3>2. lcp(f, j) \in 0 .. 31
      BY <1>1, <2>2 DEF N
    <3> QED
      BY <1>2, <3>1, <3>2
  <2> QED
    BY <2>1, <2>2
<1>4. lcp(j, k) \in 0 .. 31
  BY <1>1 DEF N
<1> QED
  BY <1>2, <1>3, <1>4 DEF lcp

(* What f .. l is when it is the range of node i: a range whose keys share more than either end *)
(* shares with its neighbour outside, node i being at the end of the nearer neighbour.          *)
Spans(K, i, f, l) ==
  /\ f \in 0 .. Size(K) - 1 /\ l \in 0 .. Size(K) - 1 /\ f < l
  /\ longestCommonPrefix(K, f, f - 1) < longestCommonPrefix(K, f, l)
  /\ longestCommonPrefix(K, l, l + 1) < longestCommonPrefix(K, f, l)
  /\ i = IF longestCommonPrefix(K, f, f - 1) >= longestCommonPrefix(K, l, l + 1) THEN f ELSE l

(* Whether determineRange goes on past a length. *)
Further(K, i, length) ==
  longestCommonPrefix(K, i, i + length * determineDirection(K, i))
    > longestCommonPrefix(K, i, i - determineDirection(K, i))

(* The keys on the far side of node i that share more than its near neighbour are those up to one. *)
LEMMA FurtherRight ==
  ASSUME NEW K, Nested(K), Size(K) \in Nat \ {0}, NEW i \in 0 .. Size(K) - 2,
         determineDirection(K, i) = 1
  PROVE  \E m \in 1 .. Size(K) - 1 :
           /\ \A a \in Nat \ {0} : Further(K, i, a) <=> a <= m
           /\ Spans(K, i, i, i + m)
<1> DEFINE N == Size(K)
           lcp(x, y) == longestCommonPrefix(K, x, y)
           p == lcp(i, i - 1)
           S == {a \in 1 .. N - 1 : lcp(i, i + a) > p}
<1>0. /\ \A x \in 0 .. N - 1, y \in Int \ (0 .. N - 1) : lcp(x, y) = -1
      /\ \A x, y \in 0 .. N - 1 : x # y => lcp(x, y) \in 0 .. 31 /\ lcp(x, y) = lcp(y, x)
      /\ \A x, y, z \in 0 .. N - 1 : x < y /\ y < z =>
           lcp(x, z) = IF lcp(x, y) < lcp(y, z) THEN lcp(x, y) ELSE lcp(y, z)
  BY DEF Nested
<1>1. lcp(i, i + 1) > p
  BY DEF determineDirection
<1>2. \A a \in Nat \ {0} : Further(K, i, a) <=> lcp(i, i + a) > p
  BY DEF Further
<1> HIDE DEF lcp
<1>3. p \in -1 .. 31
  BY <1>0
<1>4. PICK m \in S : \A a \in S : a <= m
  <2>1. IsFiniteSet(S)
    <3>1. 1 \in Int /\ N - 1 \in Int
      OBVIOUS
    <3>2. IsFiniteSet(1 .. N - 1)
      BY <3>1, FS_Interval
    <3> QED
      BY <3>2, FS_Subset
  <2>2. S \subseteq Int /\ 1 \in S
    BY <1>1
  <2>3. Max(S) \in S /\ \A a \in S : Max(S) >= a
    <3> HIDE DEF S
    <3> QED
      BY <2>1, <2>2, FiniteMax
  <2>4. \A a \in S : a \in Int
    OBVIOUS
  <2> QED
    BY <2>3, <2>4
<1>5. m \in 1 .. N - 1 /\ lcp(i, i + m) > p /\ i + m \in 0 .. N - 1
  <2>1. m \in 1 .. N - 1 /\ lcp(i, i + m) > p
    OBVIOUS
  <2>2. i + m \in Int \ (0 .. N - 1) => lcp(i, i + m) = -1
    BY <1>0
  <2> HIDE DEF p
  <2> QED
    BY <1>3, <2>1, <2>2
<1>6. ASSUME NEW a \in Nat \ {0}
      PROVE  lcp(i, i + a) > p <=> a <= m
  <2>1. CASE a <= m
    <3>1. lcp(i, i + a) >= lcp(i, i + m)
      BY <1>5, <2>1, InnerPrefix DEF lcp
    <3>2. lcp(i, i + a) \in 0 .. 31 /\ lcp(i, i + m) \in 0 .. 31
      BY <1>0, <1>5, <2>1
    <3> HIDE DEF p, S
    <3> QED
      BY <1>3, <1>5, <2>1, <3>1, <3>2
  <2>2. CASE a > m
    <3>1. a \notin S
      BY <1>4, <2>2
    <3>2. CASE i + a \in 0 .. N - 1
      <4>1. a \in 1 .. N - 1
        BY <3>2
      <4> QED
        BY <1>5, <2>2, <3>1, <4>1
    <3>3. CASE i + a \notin 0 .. N - 1
      <4>1. lcp(i, i + a) = -1
        BY <1>0, <3>3
      <4> HIDE DEF p, S
      <4> QED
        BY <1>3, <1>5, <2>2, <4>1
    <3> QED
      BY <3>2, <3>3
  <2> QED
    BY <1>5, <2>1, <2>2
<1>7. /\ p < lcp(i, i + m)
      /\ lcp(i + m, i + m + 1) < lcp(i, i + m)
      /\ p >= lcp(i + m, i + m + 1)
  <2>1. lcp(i, i + m) \in 0 .. 31
    BY <1>0, <1>5
  <2>2. ~(lcp(i, i + (m + 1)) > p)
    BY <1>5, <1>6
  <2>3. CASE i + m + 1 \in 0 .. N - 1
    <3>1. lcp(i, i + m + 1) = IF lcp(i, i + m) < lcp(i + m, i + m + 1) THEN lcp(i, i + m)
                              ELSE lcp(i + m, i + m + 1)
      BY <1>0, <1>5, <2>3
    <3>2. lcp(i + m, i + m + 1) \in 0 .. 31
      BY <1>0, <1>5, <2>3
    <3>3. i + (m + 1) = i + m + 1
      BY <1>5
    <3> HIDE DEF p, S
    <3> QED
      BY <1>3, <1>5, <2>1, <2>2, <3>1, <3>2, <3>3
  <2>4. CASE i + m + 1 \notin 0 .. N - 1
    <3>1. lcp(i + m, i + m + 1) = -1
      BY <1>0, <1>5, <2>4
    <3> HIDE DEF p, S
    <3> QED
      BY <1>3, <1>5, <2>1, <3>1
  <2> QED
    BY <2>3, <2>4
<1>8. Spans(K, i, i, i + m)
  BY <1>5, <1>7 DEF Spans, lcp
<1> HIDE DEF S, p
<1>9. \A a \in Nat \ {0} : Further(K, i, a) <=> a <= m
  BY <1>2, <1>6
<1> QED
  BY <1>5, <1>8, <1>9

(* The same for a node whose range ends at its own place. *)
LEMMA FurtherLeft ==
  ASSUME NEW K, Nested(K), Size(K) \in Nat \ {0}, NEW i \in 0 .. Size(K) - 2,
         determineDirection(K, i) = -1
  PROVE  \E m \in 1 .. Size(K) - 1 :
           /\ \A a \in Nat \ {0} : Further(K, i, a) <=> a <= m
           /\ Spans(K, i, i - m, i)
<1> DEFINE N == Size(K)
           lcp(x, y) == longestCommonPrefix(K, x, y)
           p == lcp(i, i + 1)
           S == {a \in 1 .. N - 1 : lcp(i, i - a) > p}
<1>0. /\ \A x \in 0 .. N - 1, y \in Int \ (0 .. N - 1) : lcp(x, y) = -1
      /\ \A x, y \in 0 .. N - 1 : x # y => lcp(x, y) \in 0 .. 31 /\ lcp(x, y) = lcp(y, x)
      /\ \A x, y, z \in 0 .. N - 1 : x < y /\ y < z =>
           /\ lcp(x, y) # lcp(y, z)
           /\ lcp(x, z) = IF lcp(x, y) < lcp(y, z) THEN lcp(x, y) ELSE lcp(y, z)
  BY DEF Nested
<1>1. ~(p > lcp(i, i - 1))
  BY DEF determineDirection
<1>2. \A a \in Nat \ {0} : Further(K, i, a) <=> lcp(i, i - a) > p
  <2>1. \A a \in Nat : i + a * (-1) = i - a /\ i - (-1) = i + 1
    OBVIOUS
  <2> QED
    BY <2>1 DEF Further
<1> HIDE DEF lcp
<1>3. p \in 0 .. 31
  BY <1>0
<1>10. i - 1 \in 0 .. N - 1 /\ lcp(i, i - 1) > p
  <2>1. i - 1 \in 0 .. N - 1
    <3>1. i - 1 \in Int \ (0 .. N - 1) => lcp(i, i - 1) = -1
      BY <1>0
    <3> HIDE DEF p
    <3> QED
      BY <1>1, <1>3, <3>1
  <2>2. lcp(i - 1, i) # lcp(i, i + 1) /\ lcp(i - 1, i) = lcp(i, i - 1) /\ lcp(i, i - 1) \in 0 .. 31
    BY <1>0, <2>1
  <2> QED
    BY <1>1, <1>3, <2>1, <2>2
<1>4. PICK m \in S : \A a \in S : a <= m
  <2>1. IsFiniteSet(S)
    <3>1. 1 \in Int /\ N - 1 \in Int
      OBVIOUS
    <3>2. IsFiniteSet(1 .. N - 1)
      BY <3>1, FS_Interval
    <3> QED
      BY <3>2, FS_Subset
  <2>2. S \subseteq Int /\ 1 \in S
    BY <1>10
  <2>3. Max(S) \in S /\ \A a \in S : Max(S) >= a
    <3> HIDE DEF S
    <3> QED
      BY <2>1, <2>2, FiniteMax
  <2>4. \A a \in S : a \in Int
    OBVIOUS
  <2> QED
    BY <2>3, <2>4
<1>5. m \in 1 .. N - 1 /\ lcp(i, i - m) > p /\ i - m \in 0 .. N - 1
  <2>1. m \in 1 .. N - 1 /\ lcp(i, i - m) > p
    OBVIOUS
  <2>2. i - m \in Int \ (0 .. N - 1) => lcp(i, i - m) = -1
    BY <1>0
  <2> HIDE DEF p
  <2> QED
    BY <1>3, <2>1, <2>2
<1>6. ASSUME NEW a \in Nat \ {0}
      PROVE  lcp(i, i - a) > p <=> a <= m
  <2>1. CASE a <= m
    <3>1. lcp(i - a, i) >= lcp(i - m, i)
      BY <1>5, <2>1, InnerPrefix DEF lcp
    <3>2. /\ lcp(i, i - a) \in 0 .. 31 /\ lcp(i, i - m) \in 0 .. 31
          /\ lcp(i, i - a) = lcp(i - a, i) /\ lcp(i, i - m) = lcp(i - m, i)
      BY <1>0, <1>5, <2>1
    <3> HIDE DEF p, S
    <3> QED
      BY <1>3, <1>5, <2>1, <3>1, <3>2
  <2>2. CASE a > m
    <3>1. a \notin S
      BY <1>4, <2>2
    <3>2. CASE i - a \in 0 .. N - 1
      <4>1. a \in 1 .. N - 1
        BY <3>2
      <4> QED
        BY <1>5, <2>2, <3>1, <4>1
    <3>3. CASE i - a \notin 0 .. N - 1
      <4>1. lcp(i, i - a) = -1
        BY <1>0, <3>3
      <4> HIDE DEF p, S
      <4> QED
        BY <1>3, <1>5, <2>2, <4>1
    <3> QED
      BY <3>2, <3>3
  <2> QED
    BY <1>5, <2>1, <2>2
<1>7. /\ p < lcp(i - m, i)
      /\ lcp(i - m, i - m - 1) < p
  <2>1. lcp(i, i - m) \in 0 .. 31 /\ lcp(i, i - m) = lcp(i - m, i)
    BY <1>0, <1>5
  <2>2. ~(lcp(i, i - (m + 1)) > p)
    BY <1>5, <1>6
  <2>3. CASE i - m - 1 \in 0 .. N - 1
    <3> DEFINE g == i - m - 1
    <3>0. g \in 0 .. N - 1 /\ g < i - m /\ i - m < i /\ i - (m + 1) = g /\ i < i + 1 /\ i + 1 \in 0 .. N - 1
      BY <1>5, <2>3
    <3> HIDE DEF g
    <3>1. lcp(g, i) = IF lcp(g, i - m) < lcp(i - m, i) THEN lcp(g, i - m) ELSE lcp(i - m, i)
      BY <1>0, <1>5, <3>0
    <3>2. /\ lcp(g, i - m) \in 0 .. 31 /\ lcp(i - m, g) = lcp(g, i - m)
          /\ lcp(g, i) = lcp(i, g) /\ lcp(g, i) # lcp(i, i + 1)
      BY <1>0, <1>5, <3>0
    <3>3. lcp(i, g) <= p
      <4>1. lcp(i, g) \in 0 .. 31
        BY <1>0, <3>0
      <4> HIDE DEF p
      <4> QED
        BY <1>3, <2>2, <3>0, <4>1
    <3>4. lcp(g, i) # p
      BY <3>2
    <3> HIDE DEF p, S
    <3>5. lcp(i - m, g) < p
      BY <1>3, <1>5, <2>1, <3>1, <3>2, <3>3, <3>4
    <3> QED
      BY <1>5, <2>1, <3>5 DEF g
  <2>4. CASE i - m - 1 \notin 0 .. N - 1
    <3>1. lcp(i - m, i - m - 1) = -1
      BY <1>0, <1>5, <2>4
    <3> HIDE DEF p, S
    <3> QED
      BY <1>3, <1>5, <2>1, <3>1
  <2> QED
    BY <2>3, <2>4
<1>8. Spans(K, i, i - m, i)
  <2>1. lcp(i - m, i) \in 0 .. 31 /\ lcp(i - m, (i - m) - 1) \in -1 .. 31
    BY <1>0, <1>5
  <2>2. ~ lcp(i - m, (i - m) - 1) >= lcp(i, i + 1)
    BY <1>3, <1>7, <2>1
  <2>3. lcp(i - m, (i - m) - 1) < lcp(i - m, i)
    BY <1>3, <1>7, <2>1
  <2> QED
    BY <1>5, <1>7, <2>2, <2>3 DEF Spans, lcp
<1> HIDE DEF S, p
<1>9. \A a \in Nat \ {0} : Further(K, i, a) <=> a <= m
  BY <1>2, <1>6
<1> QED
  BY <1>5, <1>8, <1>9

(* The two functions of determineRange. *)
Grown(K, i) ==
  LET direction == determineDirection(K, i)
      deltaMin == longestCommonPrefix(K, i, i - direction)
      within(length) == longestCommonPrefix(K, i, i + length * direction) > deltaMin
      grown[length \in 1 .. 2 * Size(K)] == IF within(length) THEN grown[2 * length] ELSE length
  IN grown

Reach(K, i) ==
  LET direction == determineDirection(K, i)
      deltaMin == longestCommonPrefix(K, i, i - direction)
      within(length) == longestCommonPrefix(K, i, i + length * direction) > deltaMin
      reach[t \in 1 .. 2 * Size(K)] ==
        [l \in Nat |->
           LET next == IF within(l + t) THEN l + t ELSE l
           IN IF t > 1 THEN reach[t \div 2][next] ELSE next]
  IN reach

FarEnd(K, i) == i + Reach(K, i)[Grown(K, i)[2] \div 2][0] * determineDirection(K, i)

(* The range lies between the node and its far end. *)
LEMMA RangeFrom ==
  ASSUME NEW K, NEW i
  PROVE  determineRange(K, i) = [first |-> Min({i, FarEnd(K, i)}), last |-> Max({i, FarEnd(K, i)})]
BY DEF determineRange, FarEnd, Grown, Reach

(* They are the searches for the length up to which Further holds. *)
LEMMA LengthFound ==
  ASSUME NEW K, NEW i, Size(K) \in Nat \ {0}, NEW m \in 1 .. Size(K) - 1,
         \A a \in Nat \ {0} : Further(K, i, a) <=> a <= m
  PROVE  Reach(K, i)[Grown(K, i)[2] \div 2][0] = m
<1> DEFINE M == 2 * Size(K)
           G == CHOOSE f : f = [x \in 1 .. M |-> IF Further(K, i, x) THEN f[2 * x] ELSE x]
           R == CHOOSE f : f = [t \in 1 .. M |-> [l \in Nat |->
                  IF t > 1 THEN f[t \div 2][IF Further(K, i, l + t) THEN l + t ELSE l]
                  ELSE IF Further(K, i, l + t) THEN l + t ELSE l]]
<1>0. m \in Nat \ {0} /\ M \in Nat /\ 2 * m <= M
  OBVIOUS
<1>1. Grown(K, i) = G
  BY DEF Grown, Further
<1>2. Reach(K, i) = R
  BY DEF Reach, Further
<1> HIDE DEF M
<1>3. G = [x \in 1 .. M |-> IF x <= m THEN G[2 * x] ELSE x]
  <2>1. PICK f : f = [x \in 1 .. M |-> IF x <= m THEN f[2 * x] ELSE x]
    BY <1>0, DoublingIs
  <2>2. f = [x \in 1 .. M |-> IF Further(K, i, x) THEN f[2 * x] ELSE x]
    <3>1. \A x \in 1 .. M : Further(K, i, x) <=> x <= m
      BY <1>0
    <3> QED
      BY <2>1, <3>1
  <2>3. G = [x \in 1 .. M |-> IF Further(K, i, x) THEN G[2 * x] ELSE x]
    <3> HIDE DEF Further
    <3> QED
      BY <2>2
  <2> HIDE DEF G
  <2>4. \A x \in 1 .. M : Further(K, i, x) <=> x <= m
    BY <1>0
  <2> QED
    BY <2>3, <2>4
<1>4. R = [t \in 1 .. M |-> [l \in Nat |->
             IF t > 1 THEN R[t \div 2][IF l + t <= m THEN l + t ELSE l]
             ELSE IF l + t <= m THEN l + t ELSE l]]
  <2>0. \A t \in 1 .. M, l \in Nat : Further(K, i, l + t) <=> l + t <= m
    BY <1>0
  <2>1. PICK f : f = [t \in 1 .. M |-> [l \in Nat |->
                        IF t > 1 THEN f[t \div 2][IF l + t <= m THEN l + t ELSE l]
                        ELSE IF l + t <= m THEN l + t ELSE l]]
    BY <1>0, HalvingIs
  <2>2. f = [t \in 1 .. M |-> [l \in Nat |->
               IF t > 1 THEN f[t \div 2][IF Further(K, i, l + t) THEN l + t ELSE l]
               ELSE IF Further(K, i, l + t) THEN l + t ELSE l]]
    BY <2>0, <2>1
  <2>3. R = [t \in 1 .. M |-> [l \in Nat |->
               IF t > 1 THEN R[t \div 2][IF Further(K, i, l + t) THEN l + t ELSE l]
               ELSE IF Further(K, i, l + t) THEN l + t ELSE l]]
    BY <2>2
  <2> HIDE DEF R
  <2> QED
    BY <2>0, <2>3
<1> HIDE DEF G, R
<1>5. R[G[2] \div 2][0] = m
  <2>1. IsDoubling(G, m, M)
    BY <1>3 DEF IsDoubling
  <2>2. IsHalving(R, m, M)
    BY <1>4 DEF IsHalving
  <2> QED
    BY <1>0, <2>1, <2>2, SearchFinds
<1> QED
  BY <1>1, <1>2, <1>5

(* Every internal node finds its range. *)
LEMMA RangeFound ==
  ASSUME NEW K, Nested(K), Size(K) \in Nat \ {0}, NEW i \in 0 .. Size(K) - 2
  PROVE  \E f, l \in 0 .. Size(K) - 1 : determineRange(K, i) = [first |-> f, last |-> l] /\ Spans(K, i, f, l)
<1>1. CASE determineDirection(K, i) = 1
  <2>1. PICK m \in 1 .. Size(K) - 1 :
           /\ \A a \in Nat \ {0} : Further(K, i, a) <=> a <= m
           /\ Spans(K, i, i, i + m)
    BY <1>1, FurtherRight
  <2>2. FarEnd(K, i) = i + m * 1
    BY <1>1, <2>1, LengthFound DEF FarEnd
  <2>3. Min({i, i + m}) = i /\ Max({i, i + m}) = i + m
    <3> DEFINE e == i + m
    <3>1. e \in Int /\ i \in Int /\ i <= e
      OBVIOUS
    <3> HIDE DEF e
    <3>2. Min({i, e}) = i /\ Max({i, e}) = e
      BY <3>1 DEF Min, Max
    <3> QED
      BY <3>2 DEF e
  <2>4. determineRange(K, i) = [first |-> i, last |-> i + m]
    BY <2>2, <2>3, RangeFrom
  <2> QED
    BY <2>1, <2>4 DEF Spans
<1>2. CASE determineDirection(K, i) = -1
  <2>1. PICK m \in 1 .. Size(K) - 1 :
           /\ \A a \in Nat \ {0} : Further(K, i, a) <=> a <= m
           /\ Spans(K, i, i - m, i)
    BY <1>2, FurtherLeft
  <2>2. FarEnd(K, i) = i + m * (-1)
    BY <1>2, <2>1, LengthFound DEF FarEnd
  <2>3. Min({i, i - m}) = i - m /\ Max({i, i - m}) = i
    <3> DEFINE e == i - m
    <3>1. e \in Int /\ i \in Int /\ e <= i
      OBVIOUS
    <3> HIDE DEF e
    <3>2. Min({i, e}) = e /\ Max({i, e}) = i
      BY <3>1 DEF Min, Max
    <3> QED
      BY <3>2 DEF e
  <2>4. determineRange(K, i) = [first |-> i - m, last |-> i]
    <3>1. i + m * (-1) = i - m
      OBVIOUS
    <3> QED
      BY <2>2, <2>3, <3>1, RangeFrom
  <2> QED
    BY <2>1, <2>4 DEF Spans
<1> QED
  BY <1>1, <1>2 DEF determineDirection

----------------------------------------------------------------------------
(* The split of a range *)

(* The last key before the range's smallest gap: the two parts share more than the range. *)
SplitsAt(K, f, s, l) ==
  /\ s \in f .. l - 1
  /\ longestCommonPrefix(K, s, s + 1) = longestCommonPrefix(K, f, l)
  /\ f < s => longestCommonPrefix(K, f, s) > longestCommonPrefix(K, f, l)
  /\ s + 1 < l => longestCommonPrefix(K, s + 1, l) > longestCommonPrefix(K, f, l)

(* The function of findSplit, and its test. *)
SplitFrom(K, first, last) ==
  LET nodePrefix == longestCommonPrefix(K, first, last)
      onTheLeft(k) == k < last /\ longestCommonPrefix(K, first, k) > nodePrefix
      from[step \in 1 .. last - first] ==
        [split \in first .. last |->
           LET half == Halve(step)
               next == IF onTheLeft(split + half) THEN split + half ELSE split
           IN IF half > 1 THEN from[half][next] ELSE next]
  IN from

OnTheLeft(K, first, last, k) ==
  k < last /\ longestCommonPrefix(K, first, k) > longestCommonPrefix(K, first, last)

(* findSplit is its function from the first place and the length of the range. *)
LEMMA SplitIs ==
  ASSUME NEW K, NEW f, NEW l
  PROVE  findSplit(K, f, l) = SplitFrom(K, f, l)[l - f][f]
BY DEF findSplit, SplitFrom

(* A range has a last place that shares more with its first than the range does. *)
LEMMA SplitExists ==
  ASSUME NEW K, Nested(K), Size(K) \in Nat \ {0},
         NEW f \in 0 .. Size(K) - 1, NEW l \in 0 .. Size(K) - 1, f < l
  PROVE  \E s \in f .. l - 1 :
           /\ SplitsAt(K, f, s, l)
           /\ \A k \in Int : f < k => (OnTheLeft(K, f, l, k) <=> k <= s)
<1> DEFINE N == Size(K)
           lcp(x, y) == longestCommonPrefix(K, x, y)
           p == lcp(f, l)
           S == {k \in f .. l - 1 : k = f \/ lcp(f, k) > p}
<1>0. /\ \A x, y \in 0 .. N - 1 : x # y => lcp(x, y) \in 0 .. 31
      /\ \A x, y, z \in 0 .. N - 1 : x < y /\ y < z =>
           /\ lcp(x, y) # lcp(y, z)
           /\ lcp(x, z) = IF lcp(x, y) < lcp(y, z) THEN lcp(x, y) ELSE lcp(y, z)
      /\ \A x, y, z, w \in 0 .. N - 1 : x <= y /\ y < z /\ z <= w => lcp(y, z) >= lcp(x, w)
  BY InnerPrefix DEF Nested
<1> HIDE DEF lcp
<1>1. p \in 0 .. 31
  BY <1>0
<1>2. PICK s \in S : \A k \in S : k <= s
  <2>1. IsFiniteSet(S)
    <3>1. f \in Int /\ l - 1 \in Int
      OBVIOUS
    <3>2. IsFiniteSet(f .. l - 1)
      BY <3>1, FS_Interval
    <3> QED
      BY <3>2, FS_Subset
  <2>2. S \subseteq Int /\ f \in S
    OBVIOUS
  <2>3. Max(S) \in S /\ \A k \in S : Max(S) >= k
    <3> HIDE DEF S
    <3> QED
      BY <2>1, <2>2, FiniteMax
  <2>4. \A k \in S : k \in Int
    OBVIOUS
  <2> QED
    BY <2>3, <2>4
<1>3. s \in f .. l - 1 /\ (f < s => lcp(f, s) > p)
  OBVIOUS
<1>4. ASSUME NEW k \in Int, f < k
      PROVE  OnTheLeft(K, f, l, k) <=> k <= s
  <2>1. CASE k <= s
    <3>1. f < s /\ k < l /\ s < l
      BY <1>3, <1>4, <2>1
    <3>2. lcp(f, k) >= lcp(f, s)
      BY <1>0, <1>3, <1>4, <2>1, <3>1
    <3>3. lcp(f, k) \in 0 .. 31 /\ lcp(f, s) \in 0 .. 31
      BY <1>0, <1>3, <1>4, <3>1
    <3> HIDE DEF p, S
    <3>4. lcp(f, k) > p
      BY <1>1, <1>3, <3>1, <3>2, <3>3
    <3> QED
      BY <2>1, <3>1, <3>4 DEF OnTheLeft, lcp, p
  <2>2. CASE ~(k <= s)
    <3>1. k \notin S
      BY <1>2, <2>2
    <3>2. k < l => ~(lcp(f, k) > p)
      BY <1>4, <3>1
    <3> QED
      BY <2>2, <3>2 DEF OnTheLeft, lcp
  <2> QED
    BY <2>1, <2>2
<1>5. lcp(f, s + 1) = p
  <2>1. CASE s + 1 = l
    BY <2>1
  <2>2. CASE s + 1 # l
    <3>1. s + 1 \in 0 .. N - 1 /\ f < s + 1 /\ s + 1 < l
      BY <1>3, <2>2
    <3>2. ~ OnTheLeft(K, f, l, s + 1)
      BY <1>4, <3>1
    <3>3. ~(lcp(f, s + 1) > p)
      BY <3>1, <3>2 DEF OnTheLeft, lcp
    <3>4. lcp(f, s + 1) >= p /\ lcp(f, s + 1) \in 0 .. 31
      BY <1>0, <3>1
    <3> HIDE DEF p
    <3> QED
      BY <1>1, <3>3, <3>4
  <2> QED
    BY <2>1, <2>2
<1>6. lcp(s, s + 1) = p
  <2>1. CASE s = f
    BY <1>5, <2>1
  <2>2. CASE s # f
    <3>1. f < s /\ s < s + 1 /\ s + 1 \in 0 .. N - 1 /\ s \in 0 .. N - 1
      BY <1>3, <2>2
    <3>2. lcp(f, s + 1) = IF lcp(f, s) < lcp(s, s + 1) THEN lcp(f, s) ELSE lcp(s, s + 1)
      BY <1>0, <3>1
    <3>3. lcp(f, s) \in 0 .. 31 /\ lcp(s, s + 1) \in 0 .. 31 /\ lcp(f, s) > p
      BY <1>0, <1>3, <3>1
    <3> HIDE DEF p, S
    <3> QED
      BY <1>1, <1>5, <3>2, <3>3
  <2> QED
    BY <2>1, <2>2
<1>7. ASSUME s + 1 < l
      PROVE  lcp(s + 1, l) > p
  <2>1. s \in 0 .. N - 1 /\ s + 1 \in 0 .. N - 1 /\ s < s + 1
    BY <1>3, <1>7
  <2>2. lcp(s + 1, l) >= p /\ lcp(s + 1, l) \in 0 .. 31 /\ lcp(s, s + 1) # lcp(s + 1, l)
    <3>1. f <= s + 1 /\ s + 1 < l
      BY <1>3, <1>7
    <3> QED
      BY <1>0, <2>1, <3>1
  <2> HIDE DEF p, S
  <2> QED
    BY <1>1, <1>6, <2>2
<1>8. SplitsAt(K, f, s, l)
  BY <1>3, <1>6, <1>7 DEF SplitsAt, lcp
<1> HIDE DEF S
<1> QED
  BY <1>3, <1>4, <1>8

(* findSplit finds it. *)
LEMMA SplitFound ==
  ASSUME NEW K, Nested(K), Size(K) \in Nat \ {0},
         NEW f \in 0 .. Size(K) - 1, NEW l \in 0 .. Size(K) - 1, f < l
  PROVE  SplitsAt(K, f, findSplit(K, f, l), l)
<1>1. PICK s \in f .. l - 1 :
         /\ SplitsAt(K, f, s, l)
         /\ \A k \in Int : f < k => (OnTheLeft(K, f, l, k) <=> k <= s)
  BY SplitExists
<1> DEFINE F == CHOOSE g : g = [step \in 1 .. l - f |-> [k \in f .. l |->
                  IF Halve(step) > 1
                  THEN g[Halve(step)][IF OnTheLeft(K, f, l, k + Halve(step)) THEN k + Halve(step) ELSE k]
                  ELSE IF OnTheLeft(K, f, l, k + Halve(step)) THEN k + Halve(step) ELSE k]]
<1>2. SplitFrom(K, f, l) = F
  BY DEF SplitFrom, OnTheLeft
<1>3. \A step \in 1 .. l - f, k \in f .. l : OnTheLeft(K, f, l, k + Halve(step)) <=> k + Halve(step) <= s
  <2>1. \A step \in 1 .. l - f : Halve(step) \in Nat \ {0}
    BY DEF Halve
  <2>2. \A step \in 1 .. l - f, k \in f .. l : k + Halve(step) \in Int /\ f < k + Halve(step)
    BY <2>1
  <2> QED
    BY <1>1, <2>2
<1>4. IsSplitting(F, s, f, l)
  <2>1. s \in Int /\ f \in Int /\ l \in Int /\ l - f \in Nat
    BY <1>1
  <2>2. PICK g : IsSplitting(g, s, f, l)
    BY <2>1, SplittingIs
  <2>3. g = [step \in 1 .. l - f |-> [k \in f .. l |->
               IF Halve(step) > 1
               THEN g[Halve(step)][IF OnTheLeft(K, f, l, k + Halve(step)) THEN k + Halve(step) ELSE k]
               ELSE IF OnTheLeft(K, f, l, k + Halve(step)) THEN k + Halve(step) ELSE k]]
    BY <1>3, <2>2 DEF IsSplitting
  <2>4. F = [step \in 1 .. l - f |-> [k \in f .. l |->
               IF Halve(step) > 1
               THEN F[Halve(step)][IF OnTheLeft(K, f, l, k + Halve(step)) THEN k + Halve(step) ELSE k]
               ELSE IF OnTheLeft(K, f, l, k + Halve(step)) THEN k + Halve(step) ELSE k]]
    BY <2>3
  <2> HIDE DEF F
  <2> QED
    BY <1>3, <2>4 DEF IsSplitting
<1> HIDE DEF F
<1>5. F[l - f][f] = s
  <2>1. f \in Int /\ l \in Int /\ s \in f .. l - 1
    BY <1>1
  <2> QED
    BY <1>4, <2>1, SplitFinds
<1> QED
  BY <1>1, <1>2, <1>5, SplitIs

----------------------------------------------------------------------------
(* The tree that the nodes make *)

(* A node has one range. *)
LEMMA SpansOnce ==
  ASSUME NEW K, Nested(K), Size(K) \in Nat \ {0}, NEW i,
         NEW f, NEW l, Spans(K, i, f, l), NEW g, NEW m, Spans(K, i, g, m)
  PROVE  f = g /\ l = m
<1> DEFINE N == Size(K)
           lcp(x, y) == longestCommonPrefix(K, x, y)
<1>0. /\ \A x \in 0 .. N - 1, y \in Int \ (0 .. N - 1) : lcp(x, y) = -1
      /\ \A x, y \in 0 .. N - 1 : x # y => lcp(x, y) \in 0 .. 31 /\ lcp(x, y) = lcp(y, x)
      /\ \A x, y, z, w \in 0 .. N - 1 : x <= y /\ y < z /\ z <= w => lcp(y, z) >= lcp(x, w)
  BY InnerPrefix DEF Nested
<1>1. /\ f \in 0 .. N - 1 /\ l \in 0 .. N - 1 /\ f < l
      /\ lcp(f, f - 1) < lcp(f, l) /\ lcp(l, l + 1) < lcp(f, l)
      /\ i = IF lcp(f, f - 1) >= lcp(l, l + 1) THEN f ELSE l
      /\ g \in 0 .. N - 1 /\ m \in 0 .. N - 1 /\ g < m
      /\ lcp(g, g - 1) < lcp(g, m) /\ lcp(m, m + 1) < lcp(g, m)
      /\ i = IF lcp(g, g - 1) >= lcp(m, m + 1) THEN g ELSE m
  BY DEF Spans
<1> HIDE DEF lcp
<1>2. \A x \in 0 .. N - 1, y \in Int : lcp(x, y) \in -1 .. 31 \/ x = y
  BY <1>0
(* Two ranges of one node at its left end: the longer would cross the end of the shorter. *)
<1>3. ASSUME NEW a \in 0 .. N - 1, NEW b \in 0 .. N - 1, NEW c \in 0 .. N - 1, a < b, b < c,
             lcp(a, a - 1) >= lcp(b, b + 1), lcp(a, a - 1) < lcp(a, c)
      PROVE  FALSE
  <2>1. lcp(b, b + 1) >= lcp(a, c) /\ lcp(b, b + 1) \in 0 .. 31 /\ lcp(a, c) \in 0 .. 31
    BY <1>0, <1>3
  <2>2. lcp(a, a - 1) \in -1 .. 31
    BY <1>2, <1>3
  <2> QED
    BY <1>3, <2>1, <2>2
<1>4. ASSUME NEW a \in 0 .. N - 1, NEW b \in 0 .. N - 1, NEW c \in 0 .. N - 1, c < b, b < a,
             ~(lcp(b, b - 1) >= lcp(a, a + 1)), lcp(a, a + 1) < lcp(c, a)
      PROVE  FALSE
  <2>1. /\ lcp(b - 1, b) >= lcp(c, a) /\ lcp(b, b - 1) = lcp(b - 1, b)
        /\ lcp(b, b - 1) \in 0 .. 31 /\ lcp(c, a) \in 0 .. 31
    BY <1>0, <1>4
  <2>2. lcp(a, a + 1) \in -1 .. 31
    BY <1>2, <1>4
  <2> QED
    BY <1>4, <2>1, <2>2
(* One range to its right and one to its left: each gap at the node would exceed the other. *)
<1>5. ASSUME NEW a \in 0 .. N - 1, NEW b \in 0 .. N - 1, NEW c \in 0 .. N - 1, c < a, a < b,
             lcp(a, a - 1) < lcp(a, b), lcp(a, a + 1) < lcp(c, a)
      PROVE  FALSE
  <2>1. lcp(a, a + 1) >= lcp(a, b) /\ lcp(a - 1, a) >= lcp(c, a) /\ lcp(a, a - 1) = lcp(a - 1, a)
    BY <1>0, <1>5
  <2>2. lcp(a, a + 1) \in 0 .. 31 /\ lcp(a, a - 1) \in 0 .. 31 /\ lcp(a, b) \in 0 .. 31 /\ lcp(c, a) \in 0 .. 31
    BY <1>0, <1>5
  <2> QED
    BY <1>5, <2>1, <2>2
<1>6. CASE i = f /\ i = g
  <2>1. lcp(f, f - 1) >= lcp(l, l + 1) /\ lcp(g, g - 1) >= lcp(m, m + 1)
    BY <1>1, <1>6
  <2>2. ~(l < m)
    BY <1>1, <1>3, <1>6, <2>1
  <2>3. ~(m < l)
    BY <1>1, <1>3, <1>6, <2>1
  <2> QED
    BY <1>1, <1>6, <2>2, <2>3
<1>7. CASE i = l /\ i = m
  <2>1. ~(lcp(f, f - 1) >= lcp(l, l + 1)) /\ ~(lcp(g, g - 1) >= lcp(m, m + 1))
    BY <1>1, <1>7
  <2>2. ~(f < g)
    BY <1>1, <1>4, <1>7, <2>1
  <2>3. ~(g < f)
    BY <1>1, <1>4, <1>7, <2>1
  <2> QED
    BY <1>1, <1>7, <2>2, <2>3
<1>8. ~(i = f /\ i = m)
  BY <1>1, <1>5
<1>9. ~(i = l /\ i = g)
  BY <1>1, <1>5
<1> QED
  BY <1>1, <1>6, <1>7, <1>8, <1>9

(* A range, its split and the node they are of. *)
Parts(K, i, f, s, l) == Spans(K, i, f, l) /\ SplitsAt(K, f, s, l)

(* The two searches find the parts of every internal node. *)
LEMMA PartsFound ==
  ASSUME NEW K, Nested(K), Size(K) \in Nat \ {0}, NEW i \in 0 .. Size(K) - 2
  PROVE  LET range == determineRange(K, i)
         IN  Parts(K, i, range.first, findSplit(K, range.first, range.last), range.last)
<1>1. PICK f \in 0 .. Size(K) - 1, l \in 0 .. Size(K) - 1 :
         determineRange(K, i) = [first |-> f, last |-> l] /\ Spans(K, i, f, l)
  BY RangeFound
<1>2. SplitsAt(K, f, findSplit(K, f, l), l)
  BY <1>1, SplitFound DEF Spans
<1> QED
  BY <1>1, <1>2 DEF Parts

(* The keys below a node of the radix tree: a leaf has its own. *)
Covers(K, r, f, l) ==
  IF r < Size(K) THEN r = f /\ r = l ELSE Spans(K, r - Size(K), f, l)

(* The children of a node with these parts, as in buildTreeKernel. *)
LeftChild(K, f, s) == IF s = f THEN s ELSE Size(K) + s
RightChild(K, s, l) == IF s + 1 = l THEN s + 1 ELSE Size(K) + s + 1

(* The children cover the parts. *)
LEMMA ChildrenCover ==
  ASSUME NEW K, Nested(K), Size(K) \in Nat \ {0}, NEW i, NEW f, NEW s, NEW l, Parts(K, i, f, s, l)
  PROVE  /\ LeftChild(K, f, s) \in 0 .. 2 * Size(K) - 2 /\ Covers(K, LeftChild(K, f, s), f, s)
         /\ RightChild(K, s, l) \in 0 .. 2 * Size(K) - 2 /\ Covers(K, RightChild(K, s, l), s + 1, l)
<1> DEFINE N == Size(K)
           lcp(x, y) == longestCommonPrefix(K, x, y)
<1>0. /\ \A x \in 0 .. N - 1, y \in Int \ (0 .. N - 1) : lcp(x, y) = -1
      /\ \A x, y \in 0 .. N - 1 : x # y => lcp(x, y) \in 0 .. 31 /\ lcp(x, y) = lcp(y, x)
  BY DEF Nested
<1>1. /\ f \in 0 .. N - 1 /\ l \in 0 .. N - 1 /\ f < l /\ s \in f .. l - 1
      /\ lcp(f, f - 1) < lcp(f, l) /\ lcp(l, l + 1) < lcp(f, l)
      /\ lcp(s, s + 1) = lcp(f, l)
      /\ f < s => lcp(f, s) > lcp(f, l)
      /\ s + 1 < l => lcp(s + 1, l) > lcp(f, l)
  BY DEF Parts, Spans, SplitsAt
<1> HIDE DEF lcp
<1>2. lcp(f, l) \in 0 .. 31 /\ lcp(f, f - 1) \in -1 .. 31 /\ lcp(l, l + 1) \in -1 .. 31
  BY <1>0, <1>1
<1> DEFINE a == LeftChild(K, f, s)
           b == RightChild(K, s, l)
<1>3. ASSUME s = f
      PROVE  a \in 0 .. 2 * N - 2 /\ Covers(K, a, f, s)
  <2>1. a = s /\ s < N /\ s \in 0 .. 2 * N - 2
    BY <1>1, <1>3 DEF LeftChild
  <2> HIDE DEF a
  <2>2. a \in 0 .. 2 * N - 2 /\ Covers(K, a, f, s)
    BY <1>3, <2>1 DEF Covers
  <2> QED
    BY <2>2
<1>4. ASSUME s # f
      PROVE  a \in 0 .. 2 * N - 2 /\ Covers(K, a, f, s)
  <2>1. f < s /\ lcp(f, s) \in 0 .. 31
    BY <1>0, <1>1, <1>4
  <2>2. lcp(f, f - 1) < lcp(f, s) /\ lcp(s, s + 1) < lcp(f, s) /\ ~(lcp(f, f - 1) >= lcp(s, s + 1))
    BY <1>1, <1>2, <2>1
  <2>3. Spans(K, s, f, s)
    BY <1>1, <2>1, <2>2 DEF Spans, lcp
  <2>4. a = N + s /\ a \in 0 .. 2 * N - 2 /\ ~(a < N) /\ a - N = s
    BY <1>1, <1>4 DEF LeftChild
  <2> HIDE DEF a
  <2>5. a \in 0 .. 2 * N - 2 /\ Covers(K, a, f, s)
    BY <2>3, <2>4 DEF Covers
  <2> QED
    BY <2>5
<1>5. ASSUME s + 1 = l
      PROVE  b \in 0 .. 2 * N - 2 /\ Covers(K, b, s + 1, l)
  <2>1. b = l /\ b = s + 1 /\ b < N /\ b \in 0 .. 2 * N - 2
    BY <1>1, <1>5 DEF RightChild
  <2> HIDE DEF b
  <2>2. Covers(K, b, s + 1, l)
    BY <2>1 DEF Covers
  <2> QED
    BY <2>1, <2>2
<1>6. ASSUME s + 1 # l
      PROVE  b \in 0 .. 2 * N - 2 /\ Covers(K, b, s + 1, l)
  <2>1. s + 1 < l /\ s + 1 \in 0 .. N - 1 /\ lcp(s + 1, l) \in 0 .. 31 /\ (s + 1) - 1 = s
    BY <1>0, <1>1, <1>6
  <2>2. lcp(s + 1, s) = lcp(f, l)
    BY <1>0, <1>1, <2>1
  <2>3. lcp(s + 1, s) < lcp(s + 1, l) /\ lcp(l, l + 1) < lcp(s + 1, l) /\ lcp(s + 1, s) >= lcp(l, l + 1)
    BY <1>1, <1>2, <2>1, <2>2
  <2>4. Spans(K, s + 1, s + 1, l)
    BY <1>1, <2>1, <2>3 DEF Spans, lcp
  <2>5. b = N + s + 1 /\ b \in 0 .. 2 * N - 2 /\ ~(b < N) /\ b - N = s + 1
    BY <1>1, <1>6, <2>1 DEF RightChild
  <2> HIDE DEF b
  <2>6. Covers(K, b, s + 1, l)
    BY <2>4, <2>5 DEF Covers
  <2> QED
    BY <2>5, <2>6
<1> HIDE DEF a, b
<1>7. a \in 0 .. 2 * N - 2 /\ Covers(K, a, f, s)
  BY <1>3, <1>4
<1>8. b \in 0 .. 2 * N - 2 /\ Covers(K, b, s + 1, l)
  BY <1>5, <1>6
<1> QED
  BY <1>7, <1>8 DEF a, b

(* A node covers one range. *)
LEMMA CoversOnce ==
  ASSUME NEW K, Nested(K), Size(K) \in Nat \ {0}, NEW r,
         NEW f, NEW l, Covers(K, r, f, l), NEW g, NEW m, Covers(K, r, g, m)
  PROVE  f = g /\ l = m
<1>1. CASE r < Size(K)
  BY <1>1 DEF Covers
<1>2. CASE ~(r < Size(K))
  BY <1>2, SpansOnce DEF Covers
<1> QED
  BY <1>1, <1>2

(* A node is the child of one node. *)
LEMMA ParentOnce ==
  ASSUME NEW K, Nested(K), Size(K) \in Nat \ {0}, NEW r,
         NEW i, NEW f, NEW s, NEW l, Parts(K, i, f, s, l),
         NEW j, NEW g, NEW t, NEW m, Parts(K, j, g, t, m),
         r \in {LeftChild(K, f, s), RightChild(K, s, l)},
         r \in {LeftChild(K, g, t), RightChild(K, t, m)}
  PROVE  i = j
<1> DEFINE N == Size(K)
           lcp(x, y) == longestCommonPrefix(K, x, y)
<1>0. /\ \A x \in 0 .. N - 1, y \in Int \ (0 .. N - 1) : lcp(x, y) = -1
      /\ \A x, y \in 0 .. N - 1 : x # y => lcp(x, y) \in 0 .. 31 /\ lcp(x, y) = lcp(y, x)
      /\ \A x, y, z, w \in 0 .. N - 1 : x <= y /\ y < z /\ z <= w => lcp(y, z) >= lcp(x, w)
  BY InnerPrefix DEF Nested
<1>1. /\ f \in 0 .. N - 1 /\ l \in 0 .. N - 1 /\ f < l /\ s \in f .. l - 1
      /\ lcp(f, f - 1) < lcp(f, l) /\ lcp(l, l + 1) < lcp(f, l) /\ lcp(s, s + 1) = lcp(f, l)
      /\ g \in 0 .. N - 1 /\ m \in 0 .. N - 1 /\ g < m /\ t \in g .. m - 1
      /\ lcp(g, g - 1) < lcp(g, m) /\ lcp(m, m + 1) < lcp(g, m) /\ lcp(t, t + 1) = lcp(g, m)
  BY DEF Parts, Spans, SplitsAt
<1>2. /\ Covers(K, LeftChild(K, f, s), f, s) /\ Covers(K, RightChild(K, s, l), s + 1, l)
      /\ Covers(K, LeftChild(K, g, t), g, t) /\ Covers(K, RightChild(K, t, m), t + 1, m)
  BY ChildrenCover
<1> HIDE DEF lcp
<1>3. /\ lcp(f, l) \in 0 .. 31 /\ lcp(f, f - 1) \in -1 .. 31 /\ lcp(l, l + 1) \in -1 .. 31
      /\ lcp(g, m) \in 0 .. 31 /\ lcp(g, g - 1) \in -1 .. 31 /\ lcp(m, m + 1) \in -1 .. 31
      /\ lcp(s + 1, s) = lcp(s, s + 1) /\ lcp(t + 1, t) = lcp(t, t + 1)
  BY <1>0, <1>1
<1>4. f = g /\ l = m => i = j
  BY DEF Parts, Spans
<1>5. CASE r = LeftChild(K, f, s) /\ r = LeftChild(K, g, t)
  <2>1. f = g /\ s = t
    BY <1>2, <1>5, CoversOnce
  <2>2. ~(l < m)
    <3> SUFFICES ASSUME l < m
                 PROVE  FALSE
      OBVIOUS
    <3>1. l + 1 \in 0 .. N - 1 /\ l + 1 <= m
      BY <1>1
    <3>2. lcp(l, l + 1) >= lcp(g, m)
      BY <1>0, <1>1, <2>1, <3>1
    <3> QED
      BY <1>1, <1>3, <2>1, <3>2
  <2>3. ~(m < l)
    <3> SUFFICES ASSUME m < l
                 PROVE  FALSE
      OBVIOUS
    <3>1. m + 1 \in 0 .. N - 1 /\ m + 1 <= l
      BY <1>1
    <3>2. lcp(m, m + 1) >= lcp(f, l)
      BY <1>0, <1>1, <2>1, <3>1
    <3> QED
      BY <1>1, <1>3, <2>1, <3>2
  <2> QED
    BY <1>1, <1>4, <2>1, <2>2, <2>3
<1>6. CASE r = RightChild(K, s, l) /\ r = RightChild(K, t, m)
  <2>1. s + 1 = t + 1 /\ l = m
    BY <1>2, <1>6, CoversOnce
  <2>2. s = t
    BY <1>1, <2>1
  <2>3. ~(f < g)
    <3> SUFFICES ASSUME f < g
                 PROVE  FALSE
      OBVIOUS
    <3>1. g - 1 \in 0 .. N - 1 /\ f <= g - 1 /\ g - 1 < g
      BY <1>1
    <3>2. lcp(g - 1, g) >= lcp(f, l) /\ lcp(g - 1, g) = lcp(g, g - 1)
      BY <1>0, <1>1, <2>1, <3>1
    <3> QED
      BY <1>1, <1>3, <2>1, <2>2, <3>2
  <2>4. ~(g < f)
    <3> SUFFICES ASSUME g < f
                 PROVE  FALSE
      OBVIOUS
    <3>1. f - 1 \in 0 .. N - 1 /\ g <= f - 1 /\ f - 1 < f
      BY <1>1
    <3>2. lcp(f - 1, f) >= lcp(g, m) /\ lcp(f - 1, f) = lcp(f, f - 1)
      BY <1>0, <1>1, <2>1, <3>1
    <3> QED
      BY <1>1, <1>3, <2>1, <2>2, <3>2
  <2> QED
    BY <1>1, <1>4, <2>1, <2>3, <2>4
(* A left child shares more with its neighbour on the right, a right child with that on the left. *)
<1>7. ~(r = LeftChild(K, f, s) /\ r = RightChild(K, t, m))
  <2> SUFFICES ASSUME r = LeftChild(K, f, s), r = RightChild(K, t, m)
               PROVE  FALSE
    OBVIOUS
  <2>1. f = t + 1 /\ s = m
    BY <1>2, CoversOnce
  <2>2. lcp(f, f - 1) = lcp(g, m) /\ lcp(m, m + 1) = lcp(f, l)
    <3>1. f - 1 = t
      BY <1>1, <2>1
    <3> QED
      BY <1>1, <1>3, <2>1, <3>1
  <2> QED
    BY <1>1, <1>3, <2>1, <2>2
<1>8. ~(r = RightChild(K, s, l) /\ r = LeftChild(K, g, t))
  <2> SUFFICES ASSUME r = RightChild(K, s, l), r = LeftChild(K, g, t)
               PROVE  FALSE
    OBVIOUS
  <2>1. g = s + 1 /\ t = l
    BY <1>2, CoversOnce
  <2>2. lcp(g, g - 1) = lcp(f, l) /\ lcp(l, l + 1) = lcp(g, m)
    <3>1. g - 1 = s
      BY <1>1, <2>1
    <3> QED
      BY <1>1, <1>3, <2>1, <3>1
  <2> QED
    BY <1>1, <1>3, <2>1, <2>2
<1> QED
  BY <1>5, <1>6, <1>7, <1>8

----------------------------------------------------------------------------
(* Ranks *)

(* A strict total order, as a set of pairs, and how many elements are before each. *)
Orders(R, S) ==
  /\ \A p \in S : <<p, p>> \notin R
  /\ \A p, q, r \in S : <<p, q>> \in R /\ <<q, r>> \in R => <<p, r>> \in R
  /\ \A p, q \in S : p # q => <<p, q>> \in R \/ <<q, p>> \in R

IsRank(rank, S, R) == rank = [p \in S |-> Cardinality({q \in S : <<q, p>> \in R})]

(* In a finite set with a strict total order R, every element has as many others before it as its *)
(* place says, and every place is taken.                                                          *)
LEMMA Ranked ==
  ASSUME NEW S, IsFiniteSet(S), NEW R, Orders(R, S), NEW rank, IsRank(rank, S, R)
  PROVE  /\ \A p \in S : rank[p] \in 0 .. Cardinality(S) - 1
         /\ \A p, q \in S : <<p, q>> \in R => rank[p] < rank[q]
         /\ \A i \in 0 .. Cardinality(S) - 1 : \E p \in S : rank[p] = i
<1> DEFINE before(p) == {q \in S : <<q, p>> \in R}
           n == Cardinality(S)
<1>0. n \in Nat /\ rank = [p \in S |-> Cardinality(before(p))]
  BY FS_CardinalityType DEF IsRank
<1>1. \A p \in S : IsFiniteSet(before(p)) /\ Cardinality(before(p)) \in Nat
  <2> SUFFICES ASSUME NEW p \in S
               PROVE  IsFiniteSet(before(p)) /\ Cardinality(before(p)) \in Nat
    OBVIOUS
  <2>1. IsFiniteSet(before(p))
    BY FS_Subset
  <2> HIDE DEF before
  <2> QED
    BY <2>1, FS_CardinalityType
<1>2. ASSUME NEW p \in S
      PROVE  rank[p] \in 0 .. n - 1
  <2>1. before(p) \in SUBSET S /\ before(p) # S
    BY DEF Orders
  <2>2. Cardinality(before(p)) <= n /\ Cardinality(before(p)) # n
    <3> HIDE DEF before
    <3> QED
      BY <2>1, FS_Subset
  <2>3. rank[p] = Cardinality(before(p))
    BY <1>0
  <2> HIDE DEF before, n
  <2> QED
    BY <1>0, <1>1, <2>2, <2>3
<1>3. ASSUME NEW p \in S, NEW q \in S, <<p, q>> \in R
      PROVE  rank[p] < rank[q]
  <2>1. before(p) \in SUBSET before(q) /\ before(p) # before(q)
    BY <1>3 DEF Orders
  <2>2. Cardinality(before(p)) <= Cardinality(before(q)) /\ Cardinality(before(p)) # Cardinality(before(q))
    <3>1. IsFiniteSet(before(q))
      BY <1>1
    <3> HIDE DEF before
    <3> QED
      BY <2>1, <3>1, FS_Subset
  <2>3. rank[p] = Cardinality(before(p)) /\ rank[q] = Cardinality(before(q))
    BY <1>0
  <2> HIDE DEF before
  <2> QED
    BY <1>1, <2>2, <2>3
<1>4. rank \in Injection(S, 0 .. n - 1)
  <2>1. rank \in [S -> 0 .. n - 1]
    <3> HIDE DEF before, n
    <3> QED
      BY <1>0, <1>2
  <2>2. ASSUME NEW p \in S, NEW q \in S, rank[p] = rank[q]
        PROVE  p = q
    <3>1. rank[p] \in 0 .. n - 1 /\ rank[q] \in 0 .. n - 1
      BY <1>2
    <3>2. ~(<<p, q>> \in R) /\ ~(<<q, p>> \in R)
      <4> HIDE DEF n
      <4>1. rank[p] \in Int /\ rank[q] \in Int /\ ~(rank[p] < rank[q]) /\ ~(rank[q] < rank[p])
        BY <1>0, <2>2, <3>1
      <4> QED
        BY <1>3, <4>1
    <3> QED
      BY <3>2 DEF Orders
  <2> QED
    BY <2>1, <2>2 DEF Injection, IsInjective
<1>5. rank \in Surjection(S, 0 .. n - 1)
  <2>1. 0 \in Int /\ n - 1 \in Int
    BY <1>0
  <2>2. IsFiniteSet(0 .. n - 1) /\ Cardinality(0 .. n - 1) = n
    <3> HIDE DEF n
    <3> QED
      BY <1>0, <2>1, FS_Interval
  <2> QED
    BY <1>4, <2>2, FS_Injection
<1>6. \A i \in 0 .. n - 1 : \E p \in S : rank[p] = i
  BY <1>5 DEF Surjection
<1> QED
  BY <1>2, <1>3, <1>6

----------------------------------------------------------------------------
(* Sums *)

(* The function a fold of + over the finite set S is an iteration of. *)
IsSum(h, f, S) ==
  h = [T \in SUBSET S |-> IF T = {} THEN 0
                          ELSE f[CHOOSE x \in T : TRUE] + h[T \ {CHOOSE x \in T : TRUE}]]

(* Such a function exists. *)
LEMMA SumIs ==
  ASSUME NEW S, IsFiniteSet(S), NEW f
  PROVE  \E h : IsSum(h, f, S)
<1> DEFINE some(T) == CHOOSE x \in T : TRUE
           small(n) == {T \in SUBSET S : Cardinality(T) <= n}
           G == {n \in Nat : \E h : h = [T \in small(n) |->
                               IF T = {} THEN 0 ELSE f[some(T)] + h[T \ {some(T)}]]}
<1>0. ASSUME NEW T \in SUBSET S
      PROVE  /\ IsFiniteSet(T) /\ Cardinality(T) \in Nat
             /\ Cardinality(T) = 0 <=> T = {}
             /\ T # {} => some(T) \in T /\ T \ {some(T)} \in SUBSET S
                          /\ Cardinality(T \ {some(T)}) = Cardinality(T) - 1
  <2>1. IsFiniteSet(T)
    BY FS_Subset
  <2>2. T # {} => some(T) \in T
    OBVIOUS
  <2> HIDE DEF some
  <2>3. T # {} => Cardinality(T \ {some(T)}) = Cardinality(T) - 1
    BY <2>1, <2>2, FS_RemoveElement
  <2> QED
    BY <2>1, <2>2, <2>3, FS_CardinalityType, FS_EmptySet
<1> HIDE DEF some
<1>1. 0 \in G
  <2> DEFINE h == [T \in small(0) |-> 0]
  <2>1. ASSUME NEW T \in small(0)
        PROVE  T = {}
    <3>1. T \in SUBSET S /\ Cardinality(T) <= 0
      OBVIOUS
    <3>2. Cardinality(T) \in Nat
      BY <1>0, <3>1
    <3>3. Cardinality(T) = 0
      BY <3>1, <3>2
    <3> QED
      BY <1>0, <3>1, <3>3
  <2>2. h = [T \in small(0) |-> IF T = {} THEN 0 ELSE f[some(T)] + h[T \ {some(T)}]]
    <3> HIDE DEF small
    <3> QED
      BY <2>1
  <2>3. \E g : g = [T \in small(0) |-> IF T = {} THEN 0 ELSE f[some(T)] + g[T \ {some(T)}]]
    <3> HIDE DEF h, small
    <3> QED
      BY <2>2
  <2> HIDE DEF small
  <2> QED
    BY <2>3
<1>2. ASSUME NEW n \in Nat, n \in G
      PROVE  n + 1 \in G
  <2>1. PICK h : h = [T \in small(n) |-> IF T = {} THEN 0 ELSE f[some(T)] + h[T \ {some(T)}]]
    BY <1>2
  <2> DEFINE g == [T \in small(n + 1) |-> IF T = {} THEN 0 ELSE f[some(T)] + h[T \ {some(T)}]]
  <2>2. ASSUME NEW T \in small(n + 1), T # {}
        PROVE  g[T \ {some(T)}] = h[T \ {some(T)}]
    <3> DEFINE U == T \ {some(T)}
    <3>0. T \in SUBSET S /\ Cardinality(T) <= n + 1
      OBVIOUS
    <3>1. U \in small(n) /\ U \in small(n + 1)
      <4>1. U \in SUBSET S /\ Cardinality(U) = Cardinality(T) - 1 /\ Cardinality(T) \in Nat
        BY <1>0, <2>2, <3>0
      <4> HIDE DEF U
      <4> QED
        BY <3>0, <4>1
    <3>2. h[U] = IF U = {} THEN 0 ELSE f[some(U)] + h[U \ {some(U)}]
      <4> HIDE DEF U, small
      <4> QED
        BY <2>1, <3>1
    <3>3. g[U] = IF U = {} THEN 0 ELSE f[some(U)] + h[U \ {some(U)}]
      <4> HIDE DEF U, small
      <4> QED
        BY <3>1
    <3> HIDE DEF g
    <3> QED
      BY <3>2, <3>3
  <2>3. g = [T \in small(n + 1) |-> IF T = {} THEN 0 ELSE f[some(T)] + g[T \ {some(T)}]]
    <3> HIDE DEF small
    <3> QED
      BY <2>2
  <2>4. \E k : k = [T \in small(n + 1) |-> IF T = {} THEN 0 ELSE f[some(T)] + k[T \ {some(T)}]]
    <3> HIDE DEF g, small
    <3> QED
      BY <2>3
  <2>5. n + 1 \in Nat
    OBVIOUS
  <2> HIDE DEF small
  <2> QED
    BY <2>4, <2>5
<1>3. Cardinality(S) \in Nat
  BY FS_CardinalityType
<1>4. Cardinality(S) \in G
  <2> HIDE DEF G
  <2>1. 0 .. Cardinality(S) \subseteq G
    BY <1>1, <1>2, <1>3, NatInductionUpTo
  <2> QED
    BY <1>3, <2>1
<1>5. small(Cardinality(S)) = SUBSET S
  BY FS_Subset
<1> HIDE DEF small
<1> QED
  BY <1>4, <1>5 DEF IsSum, some

(* The order in which a sum takes its terms does not matter. *)
LEMMA SumTake ==
  ASSUME NEW S, IsFiniteSet(S), NEW f, \A x \in S : f[x] \in Int, NEW h, IsSum(h, f, S)
  PROVE  /\ h[{}] = 0
         /\ \A T \in SUBSET S : h[T] \in Int /\ \A x \in T : h[T] = f[x] + h[T \ {x}]
<1> DEFINE some(T) == CHOOSE x \in T : TRUE
           Ok(T) == h[T] \in Int /\ \A x \in T : h[T] = f[x] + h[T \ {x}]
           G == {n \in Nat : \A T \in SUBSET S : Cardinality(T) <= n => Ok(T)}
<1>0. \A T \in SUBSET S : IsFiniteSet(T) /\ Cardinality(T) \in Nat
  BY FS_Subset, FS_CardinalityType
<1>1. h[{}] = 0
  BY DEF IsSum
<1>2. \A T \in SUBSET S : T # {} => some(T) \in T /\ h[T] = f[some(T)] + h[T \ {some(T)}]
  BY DEF IsSum
<1> HIDE DEF some
<1>3. 0 \in G
  <2>1. \A T \in SUBSET S : Cardinality(T) <= 0 => T = {}
    BY <1>0, FS_EmptySet
  <2>2. Ok({})
    BY <1>1
  <2> HIDE DEF Ok
  <2> QED
    BY <2>1, <2>2
<1>4. ASSUME NEW n \in Nat, n \in G
      PROVE  n + 1 \in G
  <2>0. ASSUME NEW T \in SUBSET S, Cardinality(T) = n + 1
        PROVE  Ok(T)
    <3> DEFINE y == some(T)
    <3>1. T # {}
      BY <2>0, FS_EmptySet
    <3>2. y \in T /\ h[T] = f[y] + h[T \ {y}] /\ f[y] \in Int
      BY <1>2, <3>1
    <3> HIDE DEF y
    <3>3. \A x \in T : Cardinality(T \ {x}) = n /\ T \ {x} \in SUBSET S /\ IsFiniteSet(T \ {x})
      <4>1. \A x \in T : Cardinality(T \ {x}) = Cardinality(T) - 1 /\ IsFiniteSet(T \ {x})
        BY <1>0, FS_RemoveElement
      <4> QED
        BY <2>0, <4>1
    <3>4. \A x \in T : Ok(T \ {x})
      <4> HIDE DEF Ok
      <4> QED
        BY <1>4, <3>3
    <3>5. h[T] \in Int
      <4>1. h[T \ {y}] \in Int
        BY <3>2, <3>4
      <4> QED
        BY <3>2, <4>1
    <3>6. ASSUME NEW x \in T, x # y
          PROVE  h[T] = f[x] + h[T \ {x}]
      <4>1. h[T \ {y}] = f[x] + h[(T \ {y}) \ {x}]
        BY <3>2, <3>4, <3>6
      <4>2. h[T \ {x}] = f[y] + h[(T \ {x}) \ {y}]
        BY <3>2, <3>4, <3>6
      <4>3. (T \ {x}) \ {y} = (T \ {y}) \ {x}
        OBVIOUS
      <4>4. h[(T \ {x}) \ {y}] \in Int
        <5>1. Cardinality((T \ {x}) \ {y}) <= n /\ (T \ {x}) \ {y} \in SUBSET S
          <6>1. (T \ {x}) \ {y} \in SUBSET (T \ {x})
            OBVIOUS
          <6>2. Cardinality((T \ {x}) \ {y}) <= Cardinality(T \ {x})
            BY <3>3, <6>1, FS_Subset
          <6> QED
            BY <3>3, <6>2
        <5>2. Ok((T \ {x}) \ {y})
          <6> HIDE DEF Ok
          <6> QED
            BY <1>4, <5>1
        <5> QED
          BY <5>2
      <4>5. f[x] \in Int
        OBVIOUS
      <4> DEFINE rest == h[(T \ {x}) \ {y}]
      <4>6. h[T] = f[y] + (f[x] + rest) /\ h[T \ {x}] = f[y] + rest
        BY <3>2, <4>1, <4>2, <4>3
      <4>7. rest \in Int
        BY <4>4
      <4> HIDE DEF rest
      <4> QED
        BY <3>2, <4>5, <4>6, <4>7
    <3>7. \A x \in T : h[T] = f[x] + h[T \ {x}]
      BY <3>2, <3>6
    <3> QED
      BY <3>5, <3>7
  <2>1. ASSUME NEW T \in SUBSET S, Cardinality(T) <= n + 1
        PROVE  Ok(T)
    <3> HIDE DEF Ok
    <3>1. CASE Cardinality(T) = n + 1
      BY <2>0, <3>1
    <3>2. CASE Cardinality(T) # n + 1
      <4>1. Cardinality(T) <= n
        BY <1>0, <2>1, <3>2
      <4> QED
        BY <1>4, <4>1
    <3> QED
      BY <3>1, <3>2
  <2>2. n + 1 \in Nat
    OBVIOUS
  <2> HIDE DEF Ok
  <2> QED
    BY <2>1, <2>2
<1>5. Cardinality(S) \in Nat
  BY FS_CardinalityType
<1>6. Cardinality(S) \in G
  <2> HIDE DEF G
  <2>1. 0 .. Cardinality(S) \subseteq G
    BY <1>3, <1>4, <1>5, NatInductionUpTo
  <2> QED
    BY <1>5, <2>1
<1>7. \A T \in SUBSET S : Cardinality(T) <= Cardinality(S)
  BY FS_Subset
<1>8. \A T \in SUBSET S : Ok(T)
  <2> HIDE DEF Ok
  <2> QED
    BY <1>6, <1>7
<1> QED
  BY <1>1, <1>8

(* Sums over the initial segments of the naturals grow by one term at a time. *)
SumOver(f, S) == MapThenSumSet(LAMBDA j : f[j], S)
SumTo(f, n) == SumOver(f, 0 .. n - 1)

(* The fold is a value of it. *)
LEMMA SumFolds ==
  ASSUME NEW S, IsFiniteSet(S), NEW f
  PROVE  \E h : IsSum(h, f, S) /\ SumOver(f, S) = h[S]
<1>1. PICK g : IsSum(g, f, S)
  BY SumIs
<1> DEFINE h == CHOOSE h : h = [T \in SUBSET S |->
                  IF T = {} THEN 0 ELSE f[CHOOSE x \in T : TRUE] + h[T \ {CHOOSE x \in T : TRUE}]]
<1>2. SumOver(f, S) = h[S]
  BY DEF SumOver, MapThenSumSet, MapThenFoldSet
<1>3. IsSum(h, f, S)
  BY <1>1 DEF IsSum
<1> HIDE DEF h
<1> QED
  BY <1>2, <1>3

(* The sum of a set does not depend on the set it is seen in. *)
LEMMA SumOnce ==
  ASSUME NEW S, IsFiniteSet(S), NEW R \in SUBSET S, NEW f,
         NEW h, IsSum(h, f, S), NEW g, IsSum(g, f, R)
  PROVE  h[R] = g[R]
<1> DEFINE some(T) == CHOOSE x \in T : TRUE
           G == {n \in Nat : \A T \in SUBSET R : Cardinality(T) = n => h[T] = g[T]}
<1>0. \A T \in SUBSET R : IsFiniteSet(T) /\ Cardinality(T) \in Nat
  BY FS_Subset, FS_CardinalityType
<1>1. \A T \in SUBSET R : /\ T = {} => h[T] = 0 /\ g[T] = 0
                          /\ T # {} => /\ some(T) \in T
                                       /\ h[T] = f[some(T)] + h[T \ {some(T)}]
                                       /\ g[T] = f[some(T)] + g[T \ {some(T)}]
  BY DEF IsSum
<1> HIDE DEF some
<1>2. 0 \in G
  <2>1. \A T \in SUBSET R : Cardinality(T) = 0 => T = {}
    BY <1>0, FS_EmptySet
  <2> QED
    BY <1>1, <2>1
<1>3. ASSUME NEW n \in Nat, n \in G
      PROVE  n + 1 \in G
  <2>1. ASSUME NEW T \in SUBSET R, Cardinality(T) = n + 1
        PROVE  h[T] = g[T]
    <3>1. T # {}
      BY <2>1, FS_EmptySet
    <3>2. /\ some(T) \in T /\ h[T] = f[some(T)] + h[T \ {some(T)}]
          /\ g[T] = f[some(T)] + g[T \ {some(T)}]
      BY <1>1, <3>1
    <3>3. Cardinality(T \ {some(T)}) = n /\ T \ {some(T)} \in SUBSET R
      <4>1. Cardinality(T \ {some(T)}) = Cardinality(T) - 1
        BY <1>0, <3>2, FS_RemoveElement
      <4> QED
        BY <2>1, <4>1
    <3>4. h[T \ {some(T)}] = g[T \ {some(T)}]
      BY <1>3, <3>3
    <3> QED
      BY <3>2, <3>4
  <2>2. n + 1 \in Nat
    OBVIOUS
  <2> QED
    BY <2>1, <2>2
<1>4. IsFiniteSet(R) /\ Cardinality(R) \in Nat
  BY <1>0
<1>5. Cardinality(R) \in G
  <2> HIDE DEF G
  <2>1. 0 .. Cardinality(R) \subseteq G
    BY <1>2, <1>3, <1>4, NatInductionUpTo
  <2> QED
    BY <1>4, <2>1
<1> QED
  BY <1>5

(* The sum up to a place and that up to the next. *)
LEMMA SumGrows ==
  ASSUME NEW N \in Nat, NEW f, \A k \in 0 .. N - 1 : f[k] \in Int
  PROVE  /\ SumTo(f, 0) = 0
         /\ \A k \in 0 .. N - 1 : SumTo(f, k) \in Int /\ SumTo(f, k + 1) = SumTo(f, k) + f[k]
<1>0. \A k \in Nat : IsFiniteSet(0 .. k - 1)
  <2>1. \A k \in Nat : 0 \in Int /\ k - 1 \in Int
    OBVIOUS
  <2> QED
    BY <2>1, FS_Interval
<1>1. PICK h : IsSum(h, f, 0 .. N - 1)
  BY <1>0, SumIs
<1>2. ASSUME NEW k \in 0 .. N
      PROVE  SumTo(f, k) = h[0 .. k - 1]
  <2>1. k \in Nat /\ 0 .. k - 1 \in SUBSET (0 .. N - 1)
    OBVIOUS
  <2>2. PICK g : IsSum(g, f, 0 .. k - 1) /\ SumTo(f, k) = g[0 .. k - 1]
    <3>1. IsFiniteSet(0 .. k - 1)
      BY <1>0, <2>1
    <3> QED
      BY <3>1, SumFolds DEF SumTo
  <2> QED
    BY <1>0, <1>1, <2>1, <2>2, SumOnce
<1>3. /\ h[{}] = 0
      /\ \A T \in SUBSET (0 .. N - 1) : h[T] \in Int /\ \A x \in T : h[T] = f[x] + h[T \ {x}]
  <2> DEFINE S == 0 .. N - 1
  <2>1. IsFiniteSet(S) /\ \A x \in S : f[x] \in Int
    BY <1>0
  <2>2. IsSum(h, f, S)
    BY <1>1
  <2> HIDE DEF S
  <2>3. h[{}] = 0 /\ \A T \in SUBSET S : h[T] \in Int /\ \A x \in T : h[T] = f[x] + h[T \ {x}]
    BY <2>1, <2>2, SumTake
  <2> QED
    BY <2>3 DEF S
<1>4. SumTo(f, 0) = 0
  <2>1. 0 .. 0 - 1 = {}
    OBVIOUS
  <2>2. 0 \in 0 .. N
    OBVIOUS
  <2>3. SumTo(f, 0) = h[0 .. 0 - 1]
    BY <1>2, <2>2
  <2> QED
    BY <1>3, <2>1, <2>3
<1>5. ASSUME NEW k \in 0 .. N - 1
      PROVE  SumTo(f, k) \in Int /\ SumTo(f, k + 1) = SumTo(f, k) + f[k]
  <2>1. /\ 0 .. k \in SUBSET (0 .. N - 1) /\ k \in 0 .. k /\ (0 .. k) \ {k} = 0 .. k - 1
        /\ 0 .. k - 1 \in SUBSET (0 .. N - 1)
        /\ (k + 1) - 1 = k /\ k \in 0 .. N /\ k + 1 \in 0 .. N
    OBVIOUS
  <2>2. SumTo(f, k) = h[0 .. k - 1] /\ SumTo(f, k + 1) = h[0 .. k]
    BY <1>2, <2>1
  <2>3. h[0 .. k - 1] \in Int
    BY <1>3, <2>1
  <2>5. h[0 .. k] = f[k] + h[(0 .. k) \ {k}]
    BY <1>3, <2>1
  <2>4. f[k] \in Int
    OBVIOUS
  <2>6. h[0 .. k] = f[k] + h[0 .. k - 1]
    BY <2>1, <2>5
  <2> DEFINE rest == h[0 .. k - 1]
  <2>7. SumTo(f, k) = rest /\ SumTo(f, k + 1) = f[k] + rest /\ rest \in Int
    BY <2>2, <2>3, <2>6
  <2> HIDE DEF rest
  <2> QED
    BY <2>4, <2>7
<1> QED
  BY <1>4, <1>5


----------------------------------------------------------------------------
(* The keys *)

(* Two different words are in order one way, and none precedes itself. *)
LEMMA WordOrder ==
  ASSUME NEW v \in SUBSET BitPositions, NEW w \in SUBSET BitPositions
  PROVE  /\ ~Precedes(v, v)
         /\ v # w => Precedes(v, w) \/ Precedes(w, v)
         /\ ~(Precedes(v, w) /\ Precedes(w, v))
<1>1. Xor(v, w) = Xor(w, v)
  BY DEF Xor
<1>2. v # w => Max(Xor(v, w)) \in Xor(v, w)
  BY TopBit
<1>3. \A b : b \in Xor(v, w) <=> (b \in v /\ b \notin w) \/ (b \in w /\ b \notin v)
  BY DEF Xor
<1> QED
  BY <1>1, <1>2, <1>3 DEF Precedes

(* A key has its thirty spatial bits only. *)
LEMMA KeyBits ==
  ASSUME NEW b, NEW position
  PROVE  /\ MortonKey(b, position) \in SUBSET BitPositions
         /\ MortonKey(b, position) \subseteq kMortonSpatialMask
<1>1. \A v : expand_bits(v) \subseteq 0 .. 27
  <2>1. \A x, k, mask : Spread(x, k, mask) \subseteq mask
    BY DEF Spread
  <2>2. {3 * c : c \in 0 .. 9} \subseteq 0 .. 27
    OBVIOUS
  <2> QED
    BY <2>1, <2>2 DEF expand_bits
<1>2. ASSUME NEW v, NEW k \in 0 .. 2
      PROVE  ShiftLeft(expand_bits(v), k) \subseteq 0 .. 29
  <2>1. \A c \in 0 .. 27 : c + k \in 0 .. 29
    OBVIOUS
  <2> QED
    BY <1>1, <2>1 DEF ShiftLeft
<1>3. 0 .. 27 \subseteq 0 .. 29 /\ 0 .. 29 \subseteq BitPositions /\ 1 \in 0 .. 2 /\ 2 \in 0 .. 2
  BY DEF BitPositions, kMortonStorageBits
<1>4. kMortonSpatialMask = 0 .. 29
  BY DEF kMortonSpatialMask, kMortonSpatialBits, kMortonDimensions, kMortonBitsPerAxis
<1>5. MortonKey(b, position) \subseteq 0 .. 29
  BY <1>1, <1>2, <1>3 DEF MortonKey, interleave_bits
<1> QED
  BY <1>3, <1>4, <1>5

(* The particles are numbered from 0. *)
LEMMA Numbered ==
  ASSUME positions \in Layouts
  PROVE  /\ Cardinality(Particles) \in Nat \ {0}
         /\ Particles = 0 .. Cardinality(Particles) - 1
         /\ IsFiniteSet(Particles)
<1>1. Particles = 0 .. Cardinality(Particles) - 1 /\ Cardinality(Particles) \in Nat \ {0}
  BY LayoutAssumption DEF Particles
<1>2. IsFiniteSet(0 .. Cardinality(Particles) - 1)
  <2>1. 0 \in Int /\ Cardinality(Particles) - 1 \in Int
    BY <1>1
  <2> QED
    BY <2>1, FS_Interval
<1> QED
  BY <1>1, <1>2

(* What the sort leaves: the keys in ascending order, each that of the particle in its place. *)
InOrder ==
  /\ keys \in [Particles -> SUBSET BitPositions]
  /\ \A i, j \in Particles : i < j => keys[i] = keys[j] \/ Precedes(keys[i], keys[j])
  /\ indices \in [Particles -> Particles]
  /\ \A i, j \in Particles : i # j => indices[i] # indices[j]
  /\ \A p \in Particles : \E i \in Particles : indices[i] = p
  /\ \A i \in Particles : keys[i] = MortonKey(box, positions[indices[i]])

Unsorted ==
  /\ keys = [p \in Particles |-> MortonKey(box, positions[p])]
  /\ indices = [p \in Particles |-> p]

(* The sort puts the keys in order and permutes the particles. *)
LEMMA SortSorts ==
  ASSUME positions \in Layouts, Unsorted, SortKeys
  PROVE  InOrder'
<1> DEFINE S == Particles
           n == Cardinality(S)
           R == {pq \in S \X S : KeyBefore(pq[1], pq[2])}
           rank == [p \in S |-> Cardinality({q \in S : <<q, p>> \in R})]
<1>0. S = 0 .. n - 1 /\ n \in Nat \ {0} /\ IsFiniteSet(S)
  BY Numbered
<1>1. \A p \in S : keys[p] \in SUBSET BitPositions /\ keys[p] = MortonKey(box, positions[p])
  BY KeyBits DEF Unsorted
<1>2. \A p, q \in S : <<p, q>> \in R <=> KeyBefore(p, q)
  OBVIOUS
<1>3. \A p \in S : ~KeyBefore(p, p)
  BY <1>0, <1>1, WordOrder DEF KeyBefore
<1>4. ASSUME NEW p \in S, NEW q \in S, NEW r \in S, KeyBefore(p, q), KeyBefore(q, r)
      PROVE  KeyBefore(p, r)
  <2>1. p \in Int /\ q \in Int /\ r \in Int
    BY <1>0
  <2>2. Precedes(keys[p], keys[q]) /\ Precedes(keys[q], keys[r]) => Precedes(keys[p], keys[r])
    BY <1>1, Between
  <2> QED
    BY <1>4, <2>1, <2>2 DEF KeyBefore
<1>5. ASSUME NEW p \in S, NEW q \in S, p # q
      PROVE  KeyBefore(p, q) \/ KeyBefore(q, p)
  <2>1. p \in Int /\ q \in Int
    BY <1>0
  <2>2. keys[p] # keys[q] => Precedes(keys[p], keys[q]) \/ Precedes(keys[q], keys[p])
    BY <1>1, WordOrder
  <2> QED
    BY <1>5, <2>1, <2>2 DEF KeyBefore
<1> HIDE DEF R
<1>6. /\ \A p \in S : rank[p] \in 0 .. n - 1
      /\ \A p, q \in S : <<p, q>> \in R => rank[p] < rank[q]
      /\ \A i \in 0 .. n - 1 : \E p \in S : rank[p] = i
  <2>1. \A p \in S : <<p, p>> \notin R
    BY <1>2, <1>3
  <2>2. \A p, q, r \in S : <<p, q>> \in R /\ <<q, r>> \in R => <<p, r>> \in R
    BY <1>2, <1>4
  <2>3. \A p, q \in S : p # q => <<p, q>> \in R \/ <<q, p>> \in R
    BY <1>2, <1>5
  <2>4. IsRank(rank, S, R) /\ Orders(R, S)
    BY <2>1, <2>2, <2>3 DEF IsRank, Orders
  <2>5. IsFiniteSet(S)
    BY <1>0
  <2> HIDE DEF rank, S
  <2> QED
    BY <2>4, <2>5, Ranked
<1>7. \A i \in S : Sorted(i) \in S /\ rank[Sorted(i)] = i
  <2>1. \A p \in S : rank[p] = Cardinality({q \in S : KeyBefore(q, p)})
    <3> SUFFICES ASSUME NEW p \in S
                 PROVE  rank[p] = Cardinality({q \in S : KeyBefore(q, p)})
      OBVIOUS
    <3>1. {q \in S : KeyBefore(q, p)} = {q \in S : <<q, p>> \in R}
      BY <1>2
    <3> QED
      BY <3>1
  <2>2. \A i \in S : \E p \in S : rank[p] = i
    BY <1>0, <1>6
  <2> HIDE DEF rank
  <2>3. \A i \in S : \E p \in S : Cardinality({q \in S : KeyBefore(q, p)}) = i
    BY <2>1, <2>2
  <2>4. \A i \in S : Sorted(i) \in S /\ Cardinality({q \in S : KeyBefore(q, Sorted(i))}) = i
    BY <2>3 DEF Sorted
  <2> QED
    BY <2>1, <2>4
<1> HIDE DEF rank
<1>8. /\ Particles' = S /\ UNCHANGED <<positions, box>>
      /\ keys' = [i \in S |-> keys[Sorted(i)]]
      /\ indices' = [i \in S |-> Sorted(i)]
  <2>1. \A i \in S : indices[Sorted(i)] = Sorted(i)
    BY <1>7 DEF Unsorted
  <2> QED
    BY <2>1 DEF SortKeys, Particles
<1>9. ASSUME NEW i \in S, NEW j \in S, i < j
      PROVE  KeyBefore(Sorted(i), Sorted(j))
  <2>1. Sorted(i) # Sorted(j)
    BY <1>0, <1>7, <1>9
  <2>2. ~KeyBefore(Sorted(j), Sorted(i))
    <3>1. rank[Sorted(i)] < rank[Sorted(j)] /\ rank[Sorted(i)] \in Int /\ rank[Sorted(j)] \in Int
      BY <1>0, <1>7, <1>9
    <3>2. ~(rank[Sorted(j)] < rank[Sorted(i)])
      BY <3>1
    <3> QED
      BY <1>2, <1>6, <1>7, <3>2
  <2> QED
    BY <1>5, <1>7, <2>1, <2>2
<1>10. \A p \in S : \E i \in S : Sorted(i) = p
  <2> SUFFICES ASSUME NEW p \in S
               PROVE  \E i \in S : Sorted(i) = p
    OBVIOUS
  <2>1. rank[p] \in S /\ rank[Sorted(rank[p])] = rank[p] /\ Sorted(rank[p]) \in S
    BY <1>0, <1>6, <1>7
  <2>2. rank[p] \in Int
    BY <1>0, <2>1
  <2>3. Sorted(rank[p]) = p
    <3>1. ~(rank[p] < rank[p])
      BY <2>2
    <3> QED
      BY <1>2, <1>5, <1>6, <2>1, <3>1
  <2> QED
    BY <2>1, <2>3
<1>11. \A i, j \in S : i # j => Sorted(i) # Sorted(j)
  BY <1>7
<1>12. \A i \in S : keys[Sorted(i)] \in SUBSET BitPositions /\ keys[Sorted(i)] = MortonKey(box, positions[Sorted(i)])
  BY <1>1, <1>7
<1>13. \A i, j \in S : i < j => keys[Sorted(i)] = keys[Sorted(j)] \/ Precedes(keys[Sorted(i)], keys[Sorted(j)])
  BY <1>9 DEF KeyBefore
<1> QED
  BY <1>7, <1>8, <1>10, <1>11, <1>12, <1>13 DEF InOrder

----------------------------------------------------------------------------
(* The groups *)

(* The places at which a group starts, and the start of each group, as in RunLengths. *)
Starts == {i \in DOMAIN keys : i = 0 \/ keys[i] # keys[i - 1]}
Start == [k \in 0 .. Cardinality(Starts) - 1 |->
            CHOOSE s \in Starts : Cardinality({t \in Starts : t < s}) = k]
(* Where the next group starts, or the particles end. *)
Stop(k) == IF k = Cardinality(Starts) - 1 THEN Cardinality(Particles) ELSE Start[k + 1]

(* The starts are numbered in ascending order, from that at place 0. *)
LEMMA StartsAscend ==
  ASSUME positions \in Layouts, InOrder
  PROVE  /\ Starts \subseteq Particles /\ Cardinality(Starts) \in Nat \ {0}
         /\ \A k \in 0 .. Cardinality(Starts) - 1 : Start[k] \in Starts
         /\ \A k, l \in 0 .. Cardinality(Starts) - 1 : k < l => Start[k] < Start[l]
         /\ \A s \in Starts : \E k \in 0 .. Cardinality(Starts) - 1 : Start[k] = s
         /\ Start[0] = 0
<1> DEFINE S == Starts
           c == Cardinality(S)
           R == {pq \in S \X S : pq[1] < pq[2]}
           rank == [p \in S |-> Cardinality({q \in S : <<q, p>> \in R})]
<1>0. /\ Particles = 0 .. Cardinality(Particles) - 1 /\ Cardinality(Particles) \in Nat \ {0}
      /\ IsFiniteSet(Particles)
  BY Numbered
<1>1. DOMAIN keys = Particles
  BY DEF InOrder
<1>2. S \subseteq Particles /\ IsFiniteSet(S) /\ 0 \in S
  <2>1. S \in SUBSET Particles /\ 0 \in S
    BY <1>0, <1>1 DEF Starts
  <2> HIDE DEF S
  <2> QED
    BY <1>0, <2>1, FS_Subset
<1>3. c \in Nat \ {0}
  <2> HIDE DEF S
  <2> QED
    BY <1>2, FS_CardinalityType, FS_EmptySet
<1>4. \A p \in S : p \in Nat
  BY <1>0, <1>2
<1>5. \A p, q \in S : <<p, q>> \in R <=> p < q
  OBVIOUS
<1> HIDE DEF R
<1>6. /\ \A p \in S : rank[p] \in 0 .. c - 1
      /\ \A p, q \in S : <<p, q>> \in R => rank[p] < rank[q]
      /\ \A i \in 0 .. c - 1 : \E p \in S : rank[p] = i
  <2>1. \A p \in S : <<p, p>> \notin R
    BY <1>4, <1>5
  <2>2. \A p, q, r \in S : <<p, q>> \in R /\ <<q, r>> \in R => <<p, r>> \in R
    BY <1>4, <1>5
  <2>3. \A p, q \in S : p # q => <<p, q>> \in R \/ <<q, p>> \in R
    BY <1>4, <1>5
  <2>4. IsRank(rank, S, R) /\ Orders(R, S)
    BY <2>1, <2>2, <2>3 DEF IsRank, Orders
  <2>5. IsFiniteSet(S)
    BY <1>2
  <2> HIDE DEF rank, S
  <2> QED
    BY <2>4, <2>5, Ranked
<1>7. \A p \in S : rank[p] = Cardinality({t \in S : t < p})
  <2> SUFFICES ASSUME NEW p \in S
               PROVE  rank[p] = Cardinality({t \in S : t < p})
    OBVIOUS
  <2>1. {t \in S : t < p} = {q \in S : <<q, p>> \in R}
    BY <1>5
  <2>2. rank[p] = Cardinality({q \in S : <<q, p>> \in R})
    OBVIOUS
  <2> HIDE DEF rank
  <2> QED
    BY <2>1, <2>2
<1>8. \A k \in 0 .. c - 1 : Start[k] \in S /\ rank[Start[k]] = k
  <2>1. \A k \in 0 .. c - 1 : Start[k] = CHOOSE s \in S : Cardinality({t \in S : t < s}) = k
    BY DEF Start
  <2> HIDE DEF rank, S, c
  <2>2. \A k \in 0 .. c - 1 : \E s \in S : Cardinality({t \in S : t < s}) = k
    BY <1>6, <1>7
  <2>3. \A k \in 0 .. c - 1 : Start[k] \in S /\ Cardinality({t \in S : t < Start[k]}) = k
    BY <2>1, <2>2
  <2> QED
    BY <1>7, <2>3
<1> HIDE DEF rank
<1>9. ASSUME NEW k \in 0 .. c - 1, NEW l \in 0 .. c - 1, k < l
      PROVE  Start[k] < Start[l]
  <2>1. /\ Start[k] \in S /\ Start[l] \in S /\ rank[Start[k]] = k /\ rank[Start[l]] = l
    BY <1>8
  <2>2. k \in Int /\ l \in Int /\ k # l /\ ~(l < k)
    BY <1>3, <1>9
  <2>3. ~(Start[l] < Start[k])
    <3>1. Start[l] < Start[k] => <<Start[l], Start[k]>> \in R
      BY <1>5, <2>1
    <3>2. <<Start[l], Start[k]>> \in R => rank[Start[l]] < rank[Start[k]]
      BY <1>6, <2>1
    <3> QED
      BY <2>1, <2>2, <3>1, <3>2
  <2> QED
    BY <1>4, <2>1, <2>2, <2>3
<1>10. ASSUME NEW s \in S
       PROVE  \E k \in 0 .. c - 1 : Start[k] = s
  <2>1. rank[s] \in 0 .. c - 1 /\ Start[rank[s]] \in S /\ rank[Start[rank[s]]] = rank[s]
    BY <1>6, <1>8
  <2>2. rank[s] \in Int /\ ~(rank[s] < rank[s])
    BY <1>3, <2>1
  <2>3. ~(s < Start[rank[s]]) /\ ~(Start[rank[s]] < s)
    BY <1>5, <1>6, <2>1, <2>2
  <2>4. s = Start[rank[s]]
    BY <1>4, <2>1, <2>3
  <2> QED
    BY <2>1, <2>4
<1>11. Start[0] = 0
  <2>1. PICK k \in 0 .. c - 1 : Start[k] = 0
    BY <1>2, <1>10
  <2>2. 0 \in 0 .. c - 1 /\ k \in Nat
    BY <1>3
  <2>3. k # 0 => Start[0] < Start[k]
    BY <1>9, <2>1, <2>2
  <2>4. Start[0] \in Nat
    BY <1>4, <1>8, <2>2
  <2> QED
    BY <2>1, <2>3, <2>4
<1> QED
  BY <1>2, <1>3, <1>8, <1>9, <1>10, <1>11

(* A key before a start precedes every key from there on. *)
LEMMA StartSeparates ==
  ASSUME positions \in Layouts, InOrder, NEW s \in Starts,
         NEW i \in Particles, NEW j \in Particles, i < s, s <= j
  PROVE  Precedes(keys[i], keys[j])
<1>0. Particles = 0 .. Cardinality(Particles) - 1 /\ Cardinality(Particles) \in Nat \ {0}
  BY Numbered
<1>1. /\ \A a \in Particles : keys[a] \in SUBSET BitPositions
      /\ \A a, b \in Particles : a < b => keys[a] = keys[b] \/ Precedes(keys[a], keys[b])
      /\ DOMAIN keys = Particles
  BY DEF InOrder
<1>2. s \in Particles /\ (s = 0 \/ keys[s] # keys[s - 1])
  BY <1>1 DEF Starts
<1>3. s # 0 /\ s - 1 \in Particles /\ (i < s - 1 \/ i = s - 1) /\ s - 1 < s /\ (s < j \/ s = j)
  BY <1>0, <1>2
<1>4. Precedes(keys[s - 1], keys[s])
  BY <1>1, <1>2, <1>3
<1>5. keys[i] = keys[s - 1] \/ Precedes(keys[i], keys[s - 1])
  BY <1>1, <1>3
<1>6. Precedes(keys[i], keys[s])
  BY <1>1, <1>2, <1>3, <1>4, <1>5, Between
<1>7. keys[s] = keys[j] \/ Precedes(keys[s], keys[j])
  BY <1>1, <1>2, <1>3
<1> QED
  BY <1>1, <1>2, <1>6, <1>7, Between

(* A group is what lies between its start and the next. *)
LEMMA GroupSpans ==
  ASSUME positions \in Layouts, InOrder, NEW k \in 0 .. Cardinality(Starts) - 1
  PROVE  /\ Start[k] \in Nat /\ Stop(k) \in Nat /\ Start[k] < Stop(k) /\ Stop(k) <= Cardinality(Particles)
         /\ {i \in Particles : keys[i] = keys[Start[k]]} = Start[k] .. Stop(k) - 1
<1> DEFINE n == Cardinality(Particles)
           c == Cardinality(Starts)
<1>0. Particles = 0 .. n - 1 /\ n \in Nat \ {0}
  BY Numbered
<1>1. /\ Starts \subseteq Particles /\ c \in Nat \ {0}
      /\ \A a \in 0 .. c - 1 : Start[a] \in Starts
      /\ \A a, b \in 0 .. c - 1 : a < b => Start[a] < Start[b]
      /\ \A s \in Starts : \E a \in 0 .. c - 1 : Start[a] = s
  BY StartsAscend
<1>2. /\ \A a \in Particles : keys[a] \in SUBSET BitPositions
      /\ DOMAIN keys = Particles
  BY DEF InOrder
<1>3. k \in Nat /\ (k # c - 1 => k + 1 \in 0 .. c - 1 /\ k < k + 1)
  BY <1>1
<1>4. Start[k] \in Particles /\ Start[k] \in Nat /\ Start[k] < n
  BY <1>0, <1>1
<1>5. Stop(k) \in Nat /\ Start[k] < Stop(k) /\ Stop(k) <= n
  <2>1. CASE k = c - 1
    BY <1>0, <1>4, <2>1 DEF Stop
  <2>2. CASE k # c - 1
    <3>1. Start[k + 1] \in Particles /\ Start[k] < Start[k + 1] /\ Stop(k) = Start[k + 1]
      BY <1>1, <1>3, <2>2 DEF Stop
    <3> QED
      BY <1>0, <1>4, <3>1
  <2> QED
    BY <2>1, <2>2
<1>6. ASSUME NEW i \in Start[k] .. Stop(k) - 1, i # Start[k]
      PROVE  i \in Particles /\ i - 1 \in Start[k] .. Stop(k) - 1 /\ keys[i] = keys[i - 1]
  <2>1. i \in Particles /\ i - 1 \in Start[k] .. Stop(k) - 1 /\ i # 0
    BY <1>0, <1>4, <1>5, <1>6
  <2>2. i \notin Starts
    <3> SUFFICES ASSUME i \in Starts
                 PROVE  FALSE
      OBVIOUS
    <3>1. PICK a \in 0 .. c - 1 : Start[a] = i
      BY <1>1
    <3>2. a \in Nat /\ a # k
      BY <1>1, <1>6, <3>1
    <3>3. ~(a < k)
      <4>1. a < k => i < Start[k]
        BY <1>1, <3>1
      <4> QED
        BY <1>4, <1>5, <4>1
    <3>4. k # c - 1 /\ (a = k + 1 \/ k + 1 < a)
      BY <1>1, <1>3, <3>2, <3>3
    <3>5. Stop(k) = Start[k + 1] /\ (Start[k + 1] = i \/ Start[k + 1] < i)
      BY <1>1, <1>3, <3>1, <3>4 DEF Stop
    <3> QED
      BY <1>4, <1>5, <3>5
  <2> QED
    BY <1>2, <2>1, <2>2 DEF Starts
<1>7. ASSUME NEW i \in Start[k] .. Stop(k) - 1
      PROVE  keys[i] = keys[Start[k]]
  <2> DEFINE bad == {j \in Start[k] .. Stop(k) - 1 : keys[j] # keys[Start[k]]}
  <2> SUFFICES ASSUME bad # {}
               PROVE  FALSE
    OBVIOUS
  <2>1. bad \in SUBSET Nat
    BY <1>4, <1>5
  <2>2. PICK m \in bad : \A j \in bad : m <= j
    <3> HIDE DEF bad
    <3> QED
      BY <2>1, NatLeast
  <2>3. m \in Start[k] .. Stop(k) - 1 /\ keys[m] # keys[Start[k]] /\ m # Start[k]
    BY <2>2
  <2>4. m - 1 \in Start[k] .. Stop(k) - 1 /\ keys[m] = keys[m - 1]
    BY <1>6, <2>3
  <2>5. m - 1 \notin bad
    <3>1. m \in Nat /\ ~(m <= m - 1)
      BY <1>4, <1>5, <2>3
    <3> HIDE DEF bad
    <3> QED
      BY <2>2, <3>1
  <2> QED
    BY <2>3, <2>4, <2>5
<1>8. ASSUME NEW i \in Particles, i \notin Start[k] .. Stop(k) - 1
      PROVE  keys[i] # keys[Start[k]]
  <2>1. CASE i < Start[k]
    <3>1. Start[k] \in Starts /\ Start[k] <= Start[k]
      BY <1>1, <1>4
    <3>2. Precedes(keys[i], keys[Start[k]])
      BY <1>4, <2>1, <3>1, StartSeparates
    <3> QED
      BY <3>2 DEF Precedes
  <2>2. CASE ~(i < Start[k])
    <3>1. k # c - 1 /\ Stop(k) = Start[k + 1] /\ Start[k + 1] <= i
      <4>1. i \in Nat /\ Stop(k) <= i
        BY <1>0, <1>4, <1>5, <1>8, <2>2
      <4>2. k # c - 1
        BY <1>0, <1>3, <4>1 DEF Stop
      <4> QED
        BY <4>1, <4>2 DEF Stop
    <3>2. Start[k + 1] \in Starts /\ Start[k] < Start[k + 1]
      BY <1>1, <1>3, <3>1
    <3>3. Precedes(keys[Start[k]], keys[i])
      BY <1>4, <3>1, <3>2, StartSeparates
    <3> QED
      BY <3>3 DEF Precedes
  <2> QED
    BY <2>1, <2>2
<1>9. \A i \in Start[k] .. Stop(k) - 1 : i \in Particles
  BY <1>0, <1>4, <1>5
<1> QED
  BY <1>4, <1>5, <1>7, <1>8, <1>9

(* The groups: the distinct keys in order, and the places of each. *)
Grouped ==
  /\ AreSorted(groups.uniqueKeys)
  /\ nLeaves <= Cardinality(Particles)
  /\ \A k \in 0 .. nLeaves - 1 :
       /\ groups.firstParticle[k] \in Nat /\ groups.particleCount[k] \in Nat \ {0}
       /\ {i \in Particles : keys[i] = groups.uniqueKeys[k]}
            = groups.firstParticle[k] .. groups.firstParticle[k] + groups.particleCount[k] - 1
  /\ \A i \in Particles : \E k \in 0 .. nLeaves - 1 : groups.uniqueKeys[k] = keys[i]

(* Every particle is in a group. *)
LEMMA InAGroup ==
  ASSUME positions \in Layouts, InOrder, NEW i \in Particles
  PROVE  \E k \in 0 .. Cardinality(Starts) - 1 : i \in Start[k] .. Stop(k) - 1
<1> DEFINE c == Cardinality(Starts)
           n == Cardinality(Particles)
           before == {k \in 0 .. c - 1 : Start[k] <= i}
<1>0. Particles = 0 .. n - 1 /\ n \in Nat \ {0}
  BY Numbered
<1>1. c \in Nat \ {0} /\ Start[0] = 0
  BY StartsAscend
<1>2. \A k \in 0 .. c - 1 : Start[k] \in Nat /\ Stop(k) \in Nat
  BY GroupSpans
<1>3. before \subseteq Int /\ before # {} /\ IsFiniteSet(before)
  <2>1. 0 \in before /\ before \subseteq Int
    BY <1>0, <1>1
  <2>2. IsFiniteSet(0 .. c - 1)
    <3>1. 0 \in Int /\ c - 1 \in Int
      BY <1>1
    <3> QED
      BY <3>1, FS_Interval
  <2>3. before \in SUBSET (0 .. c - 1)
    OBVIOUS
  <2> HIDE DEF before, c
  <2> QED
    BY <2>1, <2>2, <2>3, FS_Subset
<1> DEFINE k == Max(before)
<1>4. k \in before /\ \A x \in before : k >= x
  <2> HIDE DEF before
  <2> QED
    BY <1>3, FiniteMax
<1> HIDE DEF k
<1>5. k \in 0 .. c - 1 /\ Start[k] <= i
  BY <1>4
<1>6. i < Stop(k)
  <2>1. CASE k = c - 1
    BY <1>0, <2>1 DEF Stop
  <2>2. CASE k # c - 1
    <3>1. k + 1 \in 0 .. c - 1 /\ ~(k >= k + 1)
      BY <1>1, <1>5, <2>2
    <3>2. k + 1 \notin before
      <4> HIDE DEF before
      <4> QED
        BY <1>4, <3>1
    <3>3. ~(Start[k + 1] <= i)
      BY <3>1, <3>2
    <3>4. Stop(k) = Start[k + 1] /\ Start[k + 1] \in Nat /\ i \in Nat
      BY <1>0, <1>2, <2>2, <3>1 DEF Stop
    <3> QED
      BY <3>3, <3>4
  <2> QED
    BY <2>1, <2>2
<1>7. i \in Start[k] .. Stop(k) - 1
  BY <1>0, <1>2, <1>5, <1>6
<1> QED
  BY <1>5, <1>7

(* The sum of the counts before a group is its start. *)
LEMMA CountsAdd ==
  ASSUME positions \in Layouts, InOrder,
         NEW f, f = [k \in 0 .. Cardinality(Starts) - 1 |-> Stop(k) - Start[k]],
         NEW k \in 0 .. Cardinality(Starts) - 1
  PROVE  SumTo(f, k) = Start[k]
<1> DEFINE c == Cardinality(Starts)
           G == {m \in Nat : SumTo(f, m) = Start[m]}
<1>1. c \in Nat \ {0} /\ Start[0] = 0
  BY StartsAscend
<1>2. \A m \in 0 .. c - 1 : Start[m] \in Nat /\ Stop(m) \in Nat
  BY GroupSpans
<1>3. /\ SumTo(f, 0) = 0
      /\ \A m \in 0 .. c - 1 : SumTo(f, m) \in Int /\ SumTo(f, m + 1) = SumTo(f, m) + f[m]
  <2>1. \A m \in 0 .. c - 1 : f[m] \in Int
    BY <1>2
  <2>2. c \in Nat
    BY <1>1
  <2> HIDE DEF c
  <2> QED
    BY <2>1, <2>2, SumGrows
<1>4. 0 \in G
  BY <1>1, <1>3
<1>5. ASSUME NEW m \in 0 .. c - 2, m \in G
      PROVE  m + 1 \in G
  <2>1. m \in 0 .. c - 1 /\ m + 1 \in 0 .. c - 1 /\ m # c - 1 /\ m + 1 \in Nat
    BY <1>1
  <2>2. SumTo(f, m + 1) = SumTo(f, m) + f[m] /\ SumTo(f, m) = Start[m]
    BY <1>3, <1>5, <2>1
  <2>3. f[m] = Start[m + 1] - Start[m]
    BY <2>1 DEF Stop
  <2>4. Start[m] \in Nat /\ Start[m + 1] \in Nat
    BY <1>2, <2>1
  <2>5. SumTo(f, m + 1) = Start[m + 1]
    BY <2>2, <2>3, <2>4
  <2> QED
    BY <2>1, <2>5
<1>6. 0 .. c - 1 \subseteq G
  <2>1. c - 1 \in Nat /\ (c - 1) - 1 = c - 2
    BY <1>1
  <2> HIDE DEF G, c
  <2>2. \A m \in 0 .. (c - 1) - 1 : m \in G => m + 1 \in G
    BY <1>5, <2>1
  <2> QED
    BY <1>4, <2>1, <2>2, NatInductionUpTo
<1> QED
  BY <1>6

(* BuildGroups puts every particle in the group of its key. *)
LEMMA GroupsMade ==
  ASSUME positions \in Layouts, InOrder, BuildGroups
  PROVE  Grouped'
<1> DEFINE n == Cardinality(Particles)
           c == Cardinality(Starts)
           count == [k \in 0 .. c - 1 |-> Stop(k) - Start[k]]
<1>0. Particles = 0 .. n - 1 /\ n \in Nat \ {0} /\ IsFiniteSet(Particles)
  BY Numbered
<1>1. /\ Starts \subseteq Particles /\ c \in Nat \ {0}
      /\ \A k \in 0 .. c - 1 : Start[k] \in Starts
      /\ \A k, l \in 0 .. c - 1 : k < l => Start[k] < Start[l]
  BY StartsAscend
<1>2. DOMAIN keys = Particles /\ \A i \in Particles : keys[i] \in SUBSET BitPositions
  BY DEF InOrder
<1>3. \A k \in 0 .. c - 1 :
        /\ Start[k] \in Nat /\ Stop(k) \in Nat /\ Start[k] < Stop(k)
        /\ {i \in Particles : keys[i] = keys[Start[k]]} = Start[k] .. Stop(k) - 1
  BY GroupSpans
<1>4. \A k \in 0 .. c - 1 : Cardinality({i \in Particles : keys[i] = keys[Start[k]]}) = Stop(k) - Start[k]
  <2> SUFFICES ASSUME NEW k \in 0 .. c - 1
               PROVE  Cardinality({i \in Particles : keys[i] = keys[Start[k]]}) = Stop(k) - Start[k]
    OBVIOUS
  <2> DEFINE a == Start[k]
             b == Stop(k) - 1
  <2>1. a \in Int /\ b \in Int /\ b - a + 1 = Stop(k) - Start[k] /\ ~(a > b)
    BY <1>3
  <2>2. {i \in Particles : keys[i] = keys[Start[k]]} = a .. b
    BY <1>3
  <2> HIDE DEF a, b
  <2>3. Cardinality(a .. b) = b - a + 1
    BY <2>1, FS_Interval
  <2> QED
    BY <2>1, <2>2, <2>3
<1>5. /\ DOMAIN Start = 0 .. c - 1
      /\ RunLengths.uniqueKeys = [k \in 0 .. c - 1 |-> keys[Start[k]]]
      /\ RunLengths.particleCount =
           [k \in 0 .. c - 1 |-> Cardinality({i \in Particles : keys[i] = keys[Start[k]]})]
  BY <1>2 DEF RunLengths, Start, Starts
<1>6. RunLengths.particleCount = count
  BY <1>4, <1>5
<1>7. ExclusiveSum(count) = [k \in 0 .. c - 1 |-> Start[k]]
  <2>1. \A k \in 0 .. c - 1 : SumTo(count, k) = Start[k]
    <3>1. count = [k \in 0 .. c - 1 |-> Stop(k) - Start[k]]
      OBVIOUS
    <3> HIDE DEF count
    <3> QED
      BY <3>1, CountsAdd
  <2>2. DOMAIN count = 0 .. c - 1
    OBVIOUS
  <2> HIDE DEF count
  <2>3. ExclusiveSum(count) = [k \in 0 .. c - 1 |-> SumTo(count, k)]
    BY <2>2 DEF ExclusiveSum, SumTo, SumOver
  <2> QED
    BY <2>1, <2>3
<1>8. /\ groups'.uniqueKeys = [k \in 0 .. c - 1 |-> keys[Start[k]]]
      /\ groups'.particleCount = count
      /\ groups'.firstParticle = [k \in 0 .. c - 1 |-> Start[k]]
      /\ UNCHANGED <<positions, keys>>
  <2> HIDE DEF count
  <2> QED
    BY <1>5, <1>6, <1>7 DEF BuildGroups
<1> DEFINE K == groups'.uniqueKeys
<1>9. DOMAIN K = 0 .. c - 1 /\ Size(K) = c /\ nLeaves' = c
  <2>1. DOMAIN K = 0 .. c - 1
    BY <1>8
  <2>2. 0 \in Int /\ c - 1 \in Int /\ (c - 1) - 0 + 1 = c /\ ~(0 > c - 1)
    BY <1>1
  <2>3. Cardinality(0 .. c - 1) = c
    <3> HIDE DEF c
    <3> QED
      BY <2>2, FS_Interval
  <2> QED
    BY <2>1, <2>3 DEF Size, nLeaves
<1>10. AreSorted(K)
  <2>1. \A k \in 0 .. c - 1 : K[k] = keys[Start[k]] /\ K[k] \in SUBSET BitPositions
    BY <1>1, <1>2, <1>8
  <2>2. ASSUME NEW k \in 0 .. c - 1, NEW l \in 0 .. c - 1, k < l
        PROVE  Precedes(K[k], K[l])
    <3>1. Start[l] \in Starts /\ Start[k] \in Particles /\ Start[l] \in Particles
      BY <1>1
    <3>2. Start[k] < Start[l] /\ Start[l] <= Start[l]
      BY <1>1, <1>3, <2>2
    <3>3. Precedes(keys[Start[k]], keys[Start[l]])
      BY <3>1, <3>2, StartSeparates
    <3> QED
      BY <2>1, <3>3
  <2> HIDE DEF K
  <2> QED
    BY <1>1, <1>9, <2>1, <2>2 DEF AreSorted
<1>11. c <= n
  <2>1. Starts \in SUBSET Particles
    BY <1>1
  <2> QED
    BY <1>0, <2>1, FS_Subset
<1>12. Particles' = Particles /\ keys' = keys
  BY <1>8 DEF Particles
<1>13. \A k \in 0 .. c - 1 :
         /\ groups'.firstParticle[k] = Start[k] /\ groups'.particleCount[k] = Stop(k) - Start[k]
         /\ K[k] = keys[Start[k]]
  BY <1>8
<1>14. \A k \in 0 .. c - 1 : Stop(k) - Start[k] \in Nat \ {0} /\ Start[k] + (Stop(k) - Start[k]) = Stop(k)
  BY <1>3
<1>15. ASSUME NEW i \in Particles
       PROVE  \E k \in 0 .. c - 1 : K[k] = keys[i]
  <2>1. PICK k \in 0 .. c - 1 : i \in Start[k] .. Stop(k) - 1
    BY InAGroup
  <2>2. i \in {j \in Particles : keys[j] = keys[Start[k]]}
    BY <1>3, <2>1
  <2> QED
    BY <1>13, <2>1, <2>2
<1> HIDE DEF c, n
<1>16. \A k \in 0 .. c - 1 :
         {i \in Particles : keys[i] = K[k]}
           = groups'.firstParticle[k] .. groups'.firstParticle[k] + groups'.particleCount[k] - 1
  <2> SUFFICES ASSUME NEW k \in 0 .. c - 1
               PROVE  {i \in Particles : keys[i] = K[k]}
                        = groups'.firstParticle[k] .. groups'.firstParticle[k] + groups'.particleCount[k] - 1
    OBVIOUS
  <2>1. {i \in Particles : keys[i] = keys[Start[k]]} = Start[k] .. Stop(k) - 1
    BY <1>3
  <2>2. K[k] = keys[Start[k]] /\ groups'.firstParticle[k] = Start[k]
    BY <1>13
  <2>3. groups'.firstParticle[k] + groups'.particleCount[k] - 1 = Stop(k) - 1
    BY <1>3, <1>13
  <2> HIDE DEF K
  <2>4. {i \in Particles : keys[i] = K[k]} = {i \in Particles : keys[i] = keys[Start[k]]}
    BY <2>2
  <2>5. groups'.firstParticle[k] .. groups'.firstParticle[k] + groups'.particleCount[k] - 1
          = Start[k] .. Stop(k) - 1
    BY <2>2, <2>3
  <2> QED
    BY <2>1, <2>4, <2>5
<1>17. AreSorted(groups'.uniqueKeys) /\ (nLeaves <= Cardinality(Particles))'
  BY <1>9, <1>10, <1>11, <1>12 DEF n
<1>18. /\ \A k \in 0 .. nLeaves' - 1 :
            /\ groups'.firstParticle[k] \in Nat /\ groups'.particleCount[k] \in Nat \ {0}
            /\ {i \in Particles' : keys'[i] = groups'.uniqueKeys[k]}
                 = groups'.firstParticle[k] .. groups'.firstParticle[k] + groups'.particleCount[k] - 1
       /\ \A i \in Particles' : \E k \in 0 .. nLeaves' - 1 : groups'.uniqueKeys[k] = keys'[i]
  BY <1>3, <1>9, <1>12, <1>13, <1>14, <1>15, <1>16
<1> QED
  BY <1>17, <1>18 DEF Grouped


----------------------------------------------------------------------------
(* The radix tree *)

(* Internal node i has its place in the tree, split after s. *)
Made(i, s) ==
  /\ Parts(groups.uniqueKeys, i, tree.rangeFirst[i], s, tree.rangeLast[i])
  /\ tree.left[i] = LeftChild(groups.uniqueKeys, tree.rangeFirst[i], s)
  /\ tree.right[i] = RightChild(groups.uniqueKeys, s, tree.rangeLast[i])
  /\ tree.prefixLength[i] = longestCommonPrefix(groups.uniqueKeys, tree.rangeFirst[i], tree.rangeLast[i])

TreeArrays ==
  /\ tree = [left |-> tree.left, right |-> tree.right, rangeFirst |-> tree.rangeFirst,
             rangeLast |-> tree.rangeLast, prefixLength |-> tree.prefixLength, parent |-> tree.parent]
  /\ DOMAIN tree.left = Internal /\ DOMAIN tree.right = Internal
  /\ DOMAIN tree.rangeFirst = Internal /\ DOMAIN tree.rangeLast = Internal
  /\ DOMAIN tree.prefixLength = Internal /\ DOMAIN tree.parent = RadixNodes

(* When the threads of some nodes have ended, these nodes are made and the parents of their *)
(* children, and nothing else has been written.                                             *)
Wired(done) ==
  /\ TreeArrays
  /\ \A i \in done : \E s \in Int : Made(i, s)
  /\ \A i \in done : \A r \in {tree.left[i], tree.right[i]} : r \in RadixNodes /\ tree.parent[r] = nLeaves + i
  /\ \A r \in RadixNodes :
       tree.parent[r] = None \/ \E i \in done : tree.parent[r] = nLeaves + i /\ r \in {tree.left[i], tree.right[i]}

(* The keys of the groups are nested; the nodes are numbered as in buildTree. *)
LEMMA Sizes ==
  ASSUME Grouped
  PROVE  /\ Nested(groups.uniqueKeys) /\ Size(groups.uniqueKeys) = nLeaves /\ nLeaves \in Nat \ {0}
         /\ Internal = 0 .. nLeaves - 2 /\ RadixNodes = 0 .. 2 * nLeaves - 2
         /\ DOMAIN groups.uniqueKeys = 0 .. nLeaves - 1
BY SortedNested DEF Grouped, AreSorted, nLeaves, Internal, RadixNodes

(* At first nothing is made. *)
LEMMA EmptyWired ==
  ASSUME tree' = EmptyTree(nLeaves')
  PROVE  Wired({})'
BY DEF Wired, TreeArrays, EmptyTree, Internal, RadixNodes

(* A thread makes its node. *)
LEMMA BuildNodeWires ==
  ASSUME Grouped, Wired(threads), threads \subseteq Internal, NEW i, BuildNode(i)
  PROVE  Wired(threads)' /\ threads' \subseteq Internal'
<1> DEFINE K == groups.uniqueKeys
           N == nLeaves
<1>0. /\ Nested(K) /\ Size(K) = N /\ N \in Nat \ {0}
      /\ Internal = 0 .. N - 2 /\ RadixNodes = 0 .. 2 * N - 2
  BY Sizes
<1>1. /\ i \in Internal /\ i \notin threads /\ threads' = threads \cup {i}
      /\ tree' = WithNode(tree, K, i) /\ groups' = groups
  BY DEF BuildNode
<1>2. PICK f, s, l : /\ f = determineRange(K, i).first /\ l = determineRange(K, i).last
                     /\ s = findSplit(K, f, l) /\ Parts(K, i, f, s, l)
  <2>1. i \in 0 .. Size(K) - 2
    BY <1>0, <1>1
  <2> HIDE DEF K
  <2> QED
    BY <1>0, <2>1, PartsFound
<1>17. PICK lc, rc : lc = LeftChild(K, f, s) /\ rc = RightChild(K, s, l)
  OBVIOUS
<1>3. TreeArrays
  BY DEF Wired
<1>4. /\ tree'.left = [tree.left EXCEPT ![i] = lc]
      /\ tree'.right = [tree.right EXCEPT ![i] = rc]
      /\ tree'.rangeFirst = [tree.rangeFirst EXCEPT ![i] = f]
      /\ tree'.rangeLast = [tree.rangeLast EXCEPT ![i] = l]
      /\ tree'.prefixLength = [tree.prefixLength EXCEPT ![i] = longestCommonPrefix(K, f, l)]
      /\ tree'.parent = [[tree.parent EXCEPT ![lc] = N + i] EXCEPT ![rc] = N + i]
      /\ tree' = [left |-> tree'.left, right |-> tree'.right, rangeFirst |-> tree'.rangeFirst,
                  rangeLast |-> tree'.rangeLast, prefixLength |-> tree'.prefixLength, parent |-> tree'.parent]
  <2>1. WithNode(tree, K, i) =
          [tree EXCEPT !.rangeFirst[i] = f, !.rangeLast[i] = l,
                       !.prefixLength[i] = longestCommonPrefix(K, f, l),
                       !.left[i] = lc, !.right[i] = rc, !.parent[lc] = N + i, !.parent[rc] = N + i]
    BY <1>0, <1>2, <1>17 DEF WithNode, LeftChild, RightChild
  <2> HIDE DEF K, N
  <2> QED
    BY <1>1, <1>3, <2>1 DEF TreeArrays
<1>5. lc \in RadixNodes /\ rc \in RadixNodes
  <2> HIDE DEF K, N
  <2> QED
    BY <1>0, <1>2, <1>17, ChildrenCover
<1> HIDE DEF N
<1>6. UNCHANGED <<nLeaves, Internal, RadixNodes>> /\ groups' = groups
  BY <1>1 DEF nLeaves, Internal, RadixNodes
<1>7. TreeArrays'
  BY <1>3, <1>4, <1>6 DEF TreeArrays
<1>8. /\ tree'.left[i] = lc /\ tree'.right[i] = rc /\ tree'.rangeFirst[i] = f /\ tree'.rangeLast[i] = l
      /\ tree'.prefixLength[i] = longestCommonPrefix(K, f, l)
      /\ \A j \in Internal : j # i =>
           /\ tree'.left[j] = tree.left[j] /\ tree'.right[j] = tree.right[j]
           /\ tree'.rangeFirst[j] = tree.rangeFirst[j] /\ tree'.rangeLast[j] = tree.rangeLast[j]
           /\ tree'.prefixLength[j] = tree.prefixLength[j]
  BY <1>1, <1>3, <1>4 DEF TreeArrays
<1>9. /\ tree'.parent[lc] = N + i /\ tree'.parent[rc] = N + i
      /\ \A r \in RadixNodes : r # lc /\ r # rc => tree'.parent[r] = tree.parent[r]
  BY <1>3, <1>4, <1>5 DEF TreeArrays
<1>10. Made(i, s)' /\ s \in Int
  <2>1. s \in Int
    <3>1. s \in f .. l - 1 /\ f \in 0 .. Size(K) - 1 /\ l \in 0 .. Size(K) - 1
      BY <1>2 DEF Parts, SplitsAt, Spans
    <3> QED
      BY <1>0, <3>1
  <2> QED
    BY <1>2, <1>6, <1>8, <1>17, <2>1 DEF Made
<1>11. ASSUME NEW j \in threads
       PROVE  \E t \in Int : Made(j, t) /\ Made(j, t)'
  <2>1. PICK t \in Int : Made(j, t)
    BY DEF Wired
  <2>2. j \in Internal /\ j # i
    BY <1>1
  <2>3. Made(j, t)'
    BY <1>6, <1>8, <2>1, <2>2 DEF Made
  <2> QED
    BY <2>1, <2>3
(* No node made before has a child of this one. *)
<1>12. ASSUME NEW j \in threads, NEW r \in {tree.left[j], tree.right[j]}
       PROVE  r # lc /\ r # rc
  <2>1. PICK t \in Int : Made(j, t)
    BY DEF Wired
  <2>2. PICK g, m : Parts(K, j, g, t, m) /\ r \in {LeftChild(K, g, t), RightChild(K, t, m)}
    BY <2>1 DEF Made
  <2>3. ASSUME r \in {LeftChild(K, f, s), RightChild(K, s, l)}
        PROVE  i = j
    <3>1. Size(K) \in Nat \ {0} /\ Nested(K) /\ Parts(K, i, f, s, l)
      BY <1>0, <1>2
    <3> HIDE DEF K
    <3> QED
      BY <2>2, <2>3, <3>1, ParentOnce
  <2> QED
    BY <1>1, <1>17, <2>3
<1>13. ASSUME NEW j \in threads', NEW r \in {tree'.left[j], tree'.right[j]}
       PROVE  r \in RadixNodes /\ tree'.parent[r] = N + j
  <2>1. CASE j = i
    BY <1>5, <1>8, <1>9, <2>1
  <2>2. CASE j # i
    <3>1. j \in threads /\ j \in Internal
      BY <1>1, <2>2
    <3>2. r \in {tree.left[j], tree.right[j]}
      BY <1>8, <2>2, <3>1
    <3>3. r \in RadixNodes /\ tree.parent[r] = N + j
      BY <3>1, <3>2 DEF Wired, N
    <3> QED
      BY <1>9, <1>12, <3>1, <3>2, <3>3
  <2> QED
    BY <2>1, <2>2
<1>14. ASSUME NEW r \in RadixNodes, tree'.parent[r] # None
       PROVE  \E j \in threads' : tree'.parent[r] = N + j /\ r \in {tree'.left[j], tree'.right[j]}
  <2>1. CASE r = lc \/ r = rc
    BY <1>1, <1>8, <1>9, <2>1
  <2>2. CASE ~(r = lc \/ r = rc)
    <3>1. tree'.parent[r] = tree.parent[r]
      BY <1>9, <2>2
    <3>2. PICK j \in threads : tree.parent[r] = N + j /\ r \in {tree.left[j], tree.right[j]}
      BY <1>14, <3>1 DEF Wired, N
    <3>3. j # i /\ j \in Internal /\ j \in threads'
      BY <1>1
    <3> QED
      BY <1>8, <3>1, <3>2, <3>3
  <2> QED
    BY <2>1, <2>2
<1>15. threads' \subseteq Internal'
  BY <1>1, <1>6
<1>16. \A j \in threads' : \E t \in Int : Made(j, t)'
  BY <1>1, <1>10, <1>11
<1> QED
  BY <1>6, <1>7, <1>13, <1>14, <1>15, <1>16 DEF Wired, N

(* What a node covers is its range. *)
LEMMA RangeIs ==
  ASSUME Grouped, Wired(Internal), NEW r \in RadixNodes, NEW f, NEW l, Covers(groups.uniqueKeys, r, f, l)
  PROVE  RadixRange(r) = f .. l
<1> DEFINE K == groups.uniqueKeys
<1>0. /\ Nested(K) /\ Size(K) = nLeaves /\ nLeaves \in Nat \ {0}
      /\ Internal = 0 .. nLeaves - 2 /\ RadixNodes = 0 .. 2 * nLeaves - 2
  BY Sizes
<1>1. CASE r < nLeaves
  BY <1>0, <1>1 DEF Covers, RadixRange
<1>2. CASE ~(r < nLeaves)
  <2>1. r - nLeaves \in Internal /\ Spans(K, r - nLeaves, f, l)
    BY <1>0, <1>2 DEF Covers
  <2>2. PICK s \in Int : Made(r - nLeaves, s)
    BY <2>1 DEF Wired
  <2>3. Spans(K, r - nLeaves, tree.rangeFirst[r - nLeaves], tree.rangeLast[r - nLeaves])
    BY <2>2 DEF Made, Parts
  <2>4. tree.rangeFirst[r - nLeaves] = f /\ tree.rangeLast[r - nLeaves] = l
    <3> DEFINE i == r - nLeaves
               g == tree.rangeFirst[r - nLeaves]
               m == tree.rangeLast[r - nLeaves]
    <3>1. Spans(K, i, f, l) /\ Spans(K, i, g, m) /\ Nested(K) /\ Size(K) \in Nat \ {0}
      BY <1>0, <2>1, <2>3
    <3> HIDE DEF i, g, m, K
    <3>2. f = g /\ l = m
      BY <3>1, SpansOnce
    <3> QED
      BY <3>2 DEF g, m
  <2> QED
    BY <1>2, <2>4 DEF RadixRange
<1> QED
  BY <1>1, <1>2

(* Two keys agree on a prefix if the longest one they share is no shorter. *)
LEMMA SharedBits ==
  ASSUME Grouped, NEW j \in 0 .. nLeaves - 1, NEW k \in 0 .. nLeaves - 1, j # k, NEW length \in Int
  PROVE  Xor(groups.uniqueKeys[j], groups.uniqueKeys[k]) \subseteq 0 .. 31 - length
           <=> longestCommonPrefix(groups.uniqueKeys, j, k) >= length
<1> DEFINE K == groups.uniqueKeys
           b == Max(Xor(K[j], K[k]))
<1>0. AreSorted(K) /\ Size(K) = nLeaves
  BY Sizes DEF Grouped
<1>1. /\ K[j] \in SUBSET BitPositions /\ K[k] \in SUBSET BitPositions /\ K[j] # K[k]
      /\ longestCommonPrefix(K, j, k) = 31 - b
  <2> HIDE DEF K
  <2> QED
    BY <1>0, PrefixOf DEF b
<1>2. b \in Xor(K[j], K[k]) /\ b \in 0 .. 31 /\ \A c \in Xor(K[j], K[k]) : c <= b
  <2> HIDE DEF K
  <2> QED
    BY <1>1, TopBit DEF b
<1>3. \A c \in Xor(K[j], K[k]) : c \in Nat
  BY <1>1 DEF Xor, BitPositions, kMortonStorageBits
<1> HIDE DEF b
<1> QED
  BY <1>1, <1>2, <1>3

(* The keys between two share what these share. *)
LEMMA RangeShares ==
  ASSUME Grouped, NEW f \in 0 .. nLeaves - 1, NEW l \in 0 .. nLeaves - 1, NEW length \in Int,
         length <= 32, f < l => longestCommonPrefix(groups.uniqueKeys, f, l) >= length
  PROVE  SharePrefix(f .. l, length)
<1> DEFINE K == groups.uniqueKeys
<1>0. Nested(K) /\ Size(K) = nLeaves /\ nLeaves \in Nat \ {0}
  BY Sizes
<1> SUFFICES ASSUME NEW j \in f .. l, NEW k \in f .. l
             PROVE  Xor(K[j], K[k]) \subseteq 0 .. 31 - length
  BY DEF SharePrefix
<1>1. j \in 0 .. nLeaves - 1 /\ k \in 0 .. nLeaves - 1 /\ f <= j /\ j <= l /\ f <= k /\ k <= l
  BY <1>0
<1>2. CASE j = k
  BY <1>2 DEF Xor
<1>3. CASE j # k
  <2>1. longestCommonPrefix(K, f, l) \in 0 .. 31 /\ longestCommonPrefix(K, j, k) \in 0 .. 31
        /\ longestCommonPrefix(K, j, k) = longestCommonPrefix(K, k, j) /\ f < l
    <3>1. f < l /\ f # l
      BY <1>0, <1>1, <1>3
    <3> HIDE DEF K
    <3> QED
      BY <1>0, <1>1, <1>3, <3>1 DEF Nested
  <2>2. longestCommonPrefix(K, j, k) >= longestCommonPrefix(K, f, l)
    <3>1. j < k \/ k < j
      BY <1>0, <1>1, <1>3
    <3>2. CASE j < k
      <4> HIDE DEF K
      <4> QED
        BY <1>0, <1>1, <3>2, InnerPrefix
    <3>3. CASE k < j
      <4>1. longestCommonPrefix(K, k, j) >= longestCommonPrefix(K, f, l)
        <5> HIDE DEF K
        <5> QED
          BY <1>0, <1>1, <3>3, InnerPrefix
      <4> QED
        BY <2>1, <4>1
    <3> QED
      BY <3>1, <3>2, <3>3
  <2>3. longestCommonPrefix(K, j, k) >= length
    <3> DEFINE a == longestCommonPrefix(K, j, k)
               b == longestCommonPrefix(K, f, l)
    <3>1. a >= b /\ b >= length /\ a \in Int /\ b \in Int
      BY <2>1, <2>2
    <3> HIDE DEF a, b
    <3>2. a >= length
      BY <3>1
    <3> QED
      BY <3>2 DEF a
  <2> QED
    BY <1>1, <1>3, <2>3, SharedBits
<1> QED
  BY <1>2, <1>3

(* A tree all of whose nodes are made is the radix tree of the keys. *)
LEMMA WiredIsRadixTree ==
  ASSUME Grouped, Wired(Internal)
  PROVE  IsRadixTree
<1> DEFINE K == groups.uniqueKeys
           N == nLeaves
           lcp(x, y) == longestCommonPrefix(K, x, y)
<1>0. /\ Nested(K) /\ Size(K) = N /\ N \in Nat \ {0}
      /\ Internal = 0 .. N - 2 /\ RadixNodes = 0 .. 2 * N - 2
  BY Sizes
<1>1. ASSUME NEW i \in Internal
      PROVE  \E f, s, l \in 0 .. N - 1 :
               /\ Parts(K, i, f, s, l) /\ f < l /\ f <= s /\ s < l
               /\ tree.rangeFirst[i] = f /\ tree.rangeLast[i] = l
               /\ tree.left[i] = LeftChild(K, f, s) /\ tree.right[i] = RightChild(K, s, l)
               /\ tree.prefixLength[i] = lcp(f, l)
  <2>1. PICK s \in Int : Made(i, s)
    BY DEF Wired
  <2>2. PICK f, l : /\ f = tree.rangeFirst[i] /\ l = tree.rangeLast[i] /\ Parts(K, i, f, s, l)
                    /\ tree.left[i] = LeftChild(K, f, s) /\ tree.right[i] = RightChild(K, s, l)
                    /\ tree.prefixLength[i] = lcp(f, l)
    BY <2>1 DEF Made
  <2>3. s \in f .. l - 1 /\ f \in 0 .. N - 1 /\ l \in 0 .. N - 1 /\ f < l
    BY <1>0, <2>2 DEF Parts, SplitsAt, Spans
  <2>4. s \in 0 .. N - 1 /\ f <= s /\ s < l
    BY <1>0, <2>3
  <2> QED
    BY <2>2, <2>3, <2>4
<1>2. N > 1 => RadixRange(N) = 0 .. N - 1
  <2> SUFFICES ASSUME N > 1
               PROVE  RadixRange(N) = 0 .. N - 1
    OBVIOUS
  <2>1. 0 \in Internal /\ N - N = 0
    BY <1>0
  <2>2. PICK f, s, l \in 0 .. N - 1 : /\ Parts(K, 0, f, s, l) /\ f < l
                                      /\ tree.rangeFirst[0] = f /\ tree.rangeLast[0] = l
    BY <1>1, <2>1
  <2>3. f = 0 /\ lcp(f, f - 1) >= lcp(l, l + 1)
    <3>1. 0 = IF lcp(f, f - 1) >= lcp(l, l + 1) THEN f ELSE l
      BY <2>2 DEF Parts, Spans
    <3>2. l # 0
      BY <1>0, <2>2
    <3> QED
      BY <3>1, <3>2
  <2>4. lcp(f, f - 1) = -1
    BY <1>0, <2>3 DEF Nested
  <2>5. l = N - 1
    <3>1. l # N - 1 => l + 1 \in 0 .. N - 1 /\ l # l + 1
      BY <1>0, <2>2
    <3>2. l # N - 1 => lcp(l, l + 1) \in 0 .. 31
      BY <1>0, <2>2, <3>1 DEF Nested
    <3> QED
      BY <2>3, <2>4, <3>2
  <2> QED
    BY <1>0, <2>1, <2>2, <2>3, <2>5 DEF RadixRange
<1>3. ASSUME NEW i \in Internal
      PROVE  LET children == {tree.left[i], tree.right[i]}
                 length == tree.prefixLength[i]
                 range == RadixRange(nLeaves + i)
             IN /\ children = {r \in RadixNodes : tree.parent[r] = nLeaves + i}
                /\ UNION {RadixRange(r) : r \in children} = range
                /\ \A j \in RadixRange(tree.left[i]), k \in RadixRange(tree.right[i]) : j < k
                /\ SharePrefix(range, length) /\ ~SharePrefix(range, length + 1)
                /\ \A r \in children : SharePrefix(RadixRange(r), length + 1)
  <2>1. PICK f, s, l \in 0 .. N - 1 :
               /\ Parts(K, i, f, s, l) /\ f < l /\ f <= s /\ s < l
               /\ tree.rangeFirst[i] = f /\ tree.rangeLast[i] = l
               /\ tree.left[i] = LeftChild(K, f, s) /\ tree.right[i] = RightChild(K, s, l)
               /\ tree.prefixLength[i] = lcp(f, l)
    BY <1>1
  <2>2. PICK a, b : a = tree.left[i] /\ b = tree.right[i]
    OBVIOUS
  <2>3. a \in RadixNodes /\ Covers(K, a, f, s) /\ b \in RadixNodes /\ Covers(K, b, s + 1, l)
    <3>1. Nested(K) /\ Size(K) \in Nat \ {0} /\ Parts(K, i, f, s, l) /\ RadixNodes = 0 .. 2 * Size(K) - 2
      BY <1>0, <2>1
    <3>2. a = LeftChild(K, f, s) /\ b = RightChild(K, s, l)
      BY <2>1, <2>2
    <3> HIDE DEF K
    <3> QED
      BY <3>1, <3>2, ChildrenCover
  <2>4. RadixRange(a) = f .. s /\ RadixRange(b) = s + 1 .. l
    BY <2>3, RangeIs
  <2>5. RadixRange(nLeaves + i) = f .. l
    <3>1. ~(nLeaves + i < nLeaves) /\ (nLeaves + i) - nLeaves = i
      BY <1>0
    <3> QED
      BY <2>1, <3>1 DEF RadixRange
  <2>6. {a, b} = {r \in RadixNodes : tree.parent[r] = nLeaves + i}
    <3>1. tree.parent[a] = nLeaves + i /\ tree.parent[b] = nLeaves + i
      BY <2>2 DEF Wired
    <3>2. ASSUME NEW r \in RadixNodes, tree.parent[r] = nLeaves + i
          PROVE  r \in {a, b}
      <4>1. tree.parent[r] # None
        BY <1>0, <3>2 DEF None
      <4>2. PICK j \in Internal : tree.parent[r] = nLeaves + j /\ r \in {tree.left[j], tree.right[j]}
        BY <4>1 DEF Wired
      <4>3. i = j
        BY <1>0, <3>2, <4>2
      <4> QED
        BY <2>2, <4>2, <4>3
    <3> QED
      BY <2>3, <3>1, <3>2
  <2>7. UNION {RadixRange(r) : r \in {a, b}} = f .. l
    <3>1. (f .. s) \cup (s + 1 .. l) = f .. l
      BY <1>0, <2>1
    <3>2. UNION {RadixRange(r) : r \in {a, b}} = RadixRange(a) \cup RadixRange(b)
      OBVIOUS
    <3> QED
      BY <2>4, <3>1, <3>2
  <2>8. \A j \in RadixRange(a), k \in RadixRange(b) : j < k
    BY <1>0, <2>1, <2>4
  <2>15. f # l
    BY <1>0, <2>1
  <2>9. lcp(f, l) \in 0 .. 31
    <3> HIDE DEF K
    <3> QED
      BY <1>0, <2>15 DEF Nested
  <2>10. SharePrefix(f .. l, lcp(f, l))
    <3>1. lcp(f, l) \in Int /\ lcp(f, l) <= 32 /\ lcp(f, l) >= lcp(f, l)
      BY <2>9
    <3> QED
      BY <3>1, RangeShares
  <2>11. ~SharePrefix(f .. l, lcp(f, l) + 1)
    <3>1. lcp(f, l) + 1 \in Int /\ ~(lcp(f, l) >= lcp(f, l) + 1) /\ f # l
      <4> DEFINE p == lcp(f, l)
      <4>1. p \in 0 .. 31
        BY <2>9
      <4> HIDE DEF p
      <4>2. p + 1 \in Int /\ ~(p >= p + 1)
        BY <4>1
      <4> QED
        BY <2>15, <4>2 DEF p
    <3>2. ~(Xor(K[f], K[l]) \subseteq 0 .. 31 - (lcp(f, l) + 1))
      BY <3>1, SharedBits
    <3>3. f \in f .. l /\ l \in f .. l
      BY <1>0, <2>1
    <3> QED
      BY <3>2, <3>3 DEF SharePrefix
  <2>12. SharePrefix(f .. s, lcp(f, l) + 1)
    <3>1. f < s => lcp(f, s) > lcp(f, l)
      BY <2>1 DEF Parts, SplitsAt
    <3>2. f < s => lcp(f, s) \in 0 .. 31
      <4>1. f < s => f # s
        BY <1>0
      <4> HIDE DEF K
      <4> QED
        BY <1>0, <4>1 DEF Nested
    <3>3. /\ lcp(f, l) + 1 \in Int /\ lcp(f, l) + 1 <= 32
          /\ f < s => lcp(f, s) >= lcp(f, l) + 1
      BY <2>9, <3>1, <3>2
    <3> QED
      BY <3>3, RangeShares
  <2>13. SharePrefix(s + 1 .. l, lcp(f, l) + 1)
    <3>0. s + 1 \in 0 .. N - 1
      BY <1>0, <2>1
    <3>1. s + 1 < l => lcp(s + 1, l) > lcp(f, l)
      BY <2>1 DEF Parts, SplitsAt
    <3>2. s + 1 < l => lcp(s + 1, l) \in 0 .. 31
      <4>1. s + 1 < l => s + 1 # l
        BY <1>0
      <4> HIDE DEF K
      <4> QED
        BY <1>0, <3>0, <4>1 DEF Nested
    <3>3. /\ lcp(f, l) + 1 \in Int /\ lcp(f, l) + 1 <= 32
          /\ s + 1 < l => lcp(s + 1, l) >= lcp(f, l) + 1
      BY <2>9, <3>1, <3>2
    <3> QED
      BY <3>0, <3>3, RangeShares
  <2>14. \A r \in {a, b} : SharePrefix(RadixRange(r), lcp(f, l) + 1)
    BY <2>4, <2>12, <2>13
  <2> QED
    BY <2>1, <2>2, <2>4, <2>5, <2>6, <2>7, <2>8, <2>10, <2>11, <2>14
<1> QED
  BY <1>2, <1>3 DEF IsRadixTree

----------------------------------------------------------------------------
(* The invariant of the construction up to the radix tree *)

Stages == {"keys", "sort", "groups", "tree", "materialize", "built", "failed"}

TreeInv ==
  /\ positions \in Layouts
  /\ stage \in Stages
  /\ stage = "sort" => Unsorted
  /\ stage \notin {"keys", "sort"} => InOrder
  /\ stage \notin {"keys", "sort", "groups"} => Grouped
  /\ stage = "tree" => threads \subseteq Internal /\ Wired(threads)
  /\ stage \in {"materialize", "built"} => Wired(Internal)

(* What the invariant says of a stage is kept by a step that leaves its variables alone. *)
LEMMA SameTree ==
  ASSUME UNCHANGED <<positions, box, indices, keys>>
  PROVE  /\ InOrder => InOrder'
         /\ groups' = groups => UNCHANGED <<nLeaves, Internal, RadixNodes>> /\ (Grouped => Grouped')
         /\ groups' = groups /\ tree' = tree => \A done : Wired(done) => Wired(done)'
<1>1. Particles' = Particles
  BY DEF Particles
<1>2. InOrder => InOrder'
  BY <1>1 DEF InOrder
<1>3. ASSUME groups' = groups
      PROVE  UNCHANGED <<nLeaves, Internal, RadixNodes>> /\ (Grouped => Grouped')
  <2>1. UNCHANGED <<nLeaves, Internal, RadixNodes>>
    BY <1>3 DEF nLeaves, Internal, RadixNodes
  <2>2. Grouped => Grouped'
    BY <1>1, <1>3, <2>1 DEF Grouped
  <2> QED
    BY <2>1, <2>2
<1>4. ASSUME groups' = groups, tree' = tree, NEW done, Wired(done)
      PROVE  Wired(done)'
  <2>1. UNCHANGED <<nLeaves, Internal, RadixNodes>>
    BY <1>3, <1>4
  <2>2. TreeArrays => TreeArrays'
    BY <1>4, <2>1 DEF TreeArrays
  <2>3. \A i, s : Made(i, s) => Made(i, s)'
    BY <1>4 DEF Made
  <2> QED
    BY <1>4, <2>1, <2>2, <2>3 DEF Wired
<1> QED
  BY <1>2, <1>3, <1>4

(* The traversal reads the octree and writes nothing of the construction. *)
LEMMA WalkReads ==
  ASSUME Traverse
  PROVE  stage = "built" /\ UNCHANGED <<positions, box, indices, octree>> /\ UNCHANGED buildVars
BY DEF Traverse, Walk, Launch, VisitLeaf, SkipMassless, AcceptNode, OpenNode, Goes

(* What each stage leaves is what the next one needs, whatever the order of the threads. *)
THEOREM TreeInvariant == Spec => []TreeInv
<1>1. Init => TreeInv
  BY DEF Init, BuildInit, TreeInv, Stages
<1>2. TreeInv /\ [Next]_vars => TreeInv'
  <2> SUFFICES ASSUME TreeInv, [Next]_vars
               PROVE  TreeInv'
    OBVIOUS
  <2>1. CASE BuildKeys
    BY <2>1 DEF BuildKeys, TreeInv, Stages, Unsorted, Particles
  <2>2. CASE SortKeys
    <3>1. InOrder'
      BY <2>2, SortSorts DEF TreeInv, SortKeys
    <3> QED
      BY <2>2, <3>1 DEF SortKeys, TreeInv, Stages
  <2>3. CASE BuildGroups
    <3>1. /\ InOrder /\ positions \in Layouts /\ stage' = "tree" /\ threads' = {}
          /\ UNCHANGED <<positions, box, indices, keys>>
          /\ tree' = EmptyTree(nLeaves')
      BY <2>3 DEF TreeInv, BuildGroups, nLeaves
    <3>2. Grouped' /\ InOrder'
      BY <2>3, <3>1, GroupsMade, SameTree
    <3>3. Wired({})'
      BY <3>1, EmptyWired
    <3>4. Wired(threads)' /\ threads' \subseteq Internal'
      BY <3>1, <3>3
    <3> QED
      BY <3>1, <3>2, <3>4 DEF TreeInv, Stages
  <2>4. ASSUME NEW i \in 0 .. Cardinality(Particles) - 2, BuildNode(i)
        PROVE  TreeInv'
    <3>1. /\ InOrder /\ Grouped /\ positions \in Layouts /\ stage = "tree" /\ stage' = "tree"
          /\ UNCHANGED <<positions, box, indices, keys, groups>>
          /\ threads \subseteq Internal /\ Wired(threads)
      BY <2>4 DEF TreeInv, BuildNode
    <3>2. InOrder' /\ Grouped'
      BY <3>1, SameTree
    <3>3. Wired(threads)' /\ threads' \subseteq Internal'
      BY <2>4, <3>1, BuildNodeWires
    <3> QED
      BY <3>1, <3>2, <3>3 DEF TreeInv, Stages
  <2>5. CASE BuildPlan
    <3>1. /\ InOrder /\ Grouped /\ positions \in Layouts /\ stage' \in {"materialize", "failed"}
          /\ UNCHANGED <<positions, box, indices, keys, groups, tree>>
          /\ Wired(Internal)
      BY <2>5 DEF TreeInv, BuildPlan
    <3>2. InOrder' /\ Grouped' /\ Wired(Internal)'
      BY <3>1, SameTree
    <3> QED
      BY <3>1, <3>2 DEF TreeInv, Stages
  <2>6. ASSUME NEW r, LinkNode(r) \/ LeaveEdge(r)
        PROVE  TreeInv'
    <3>1. /\ InOrder /\ Grouped /\ positions \in Layouts /\ stage' = "materialize"
          /\ UNCHANGED <<positions, box, indices, keys, groups, tree>>
          /\ Wired(Internal)
      BY <2>6 DEF TreeInv, LinkNode, LeaveEdge
    <3>2. InOrder' /\ Grouped' /\ Wired(Internal)'
      BY <3>1, SameTree
    <3> QED
      BY <3>1, <3>2 DEF TreeInv, Stages
  <2>7. CASE ComputeGeometry
    <3>1. /\ InOrder /\ Grouped /\ positions \in Layouts /\ stage' \in {"built", "failed"}
          /\ UNCHANGED <<positions, box, indices, keys, groups, tree>>
          /\ Wired(Internal)
      BY <2>7 DEF TreeInv, ComputeGeometry
    <3>2. InOrder' /\ Grouped' /\ Wired(Internal)'
      BY <3>1, SameTree
    <3> QED
      BY <3>1, <3>2 DEF TreeInv, Stages
  <2>8. CASE Traverse \/ UNCHANGED vars
    <3>1. UNCHANGED <<positions, box, indices, stage, keys, groups, tree, threads>>
      BY <2>8, WalkReads DEF vars, buildVars
    <3>2. /\ InOrder => InOrder'
          /\ Grouped => Grouped'
          /\ \A done : Wired(done) => Wired(done)'
          /\ Internal' = Internal
      BY <3>1, SameTree
    <3>3. Unsorted => Unsorted'
      BY <3>1 DEF Unsorted, Particles
    <3>4. (stage = "tree" => threads \subseteq Internal /\ Wired(threads))'
      BY <3>1, <3>2 DEF TreeInv
    <3> QED
      BY <3>1, <3>2, <3>3, <3>4 DEF TreeInv
  <2> QED
    BY <2>1, <2>2, <2>3, <2>4, <2>5, <2>6, <2>7, <2>8 DEF Next, Build, BuildNext
<1> QED
  BY <1>1, <1>2, PTL DEF Spec

(* For every layout of the particles and whatever the order in which the threads of the kernel *)
(* run, the tree is the radix tree of the sorted keys when they have ended.                     *)
THEOREM RadixTreeIsBuilt == Spec => []RadixTreeBuilt
<1>1. TreeInv => RadixTreeBuilt
  BY WiredIsRadixTree DEF TreeInv, RadixTreeBuilt
<1> QED
  BY <1>1, TreeInvariant, PTL
=============================================================================

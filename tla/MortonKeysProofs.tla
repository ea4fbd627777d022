-------------------------- MODULE MortonKeysProofs --------------------------
(***************************************************************************)
(* Morton keys and the cube they divide, for every layout of the           *)
(* particles: the bits of a key are those of its particle's place along    *)
(* the three axes, no place has to be clamped, two keys share the prefix   *)
(* of a level when their particles share the cell, and the centre and      *)
(* size that a prefix gives are those of the cell.                         *)
(***************************************************************************)
EXTENDS RadixTreeProofs

(* The constants of the keys: ten levels of three bits, and thirty bits are the mask. *)
LEMMA Constants ==
  /\ kMortonSpatialBits = 30 /\ kMortonDimensions = 3 /\ kMortonPaddingBits = 2 /\ kOctreeMaxLevel = 10
  /\ kMortonSpatialMask = 0 .. 29
  /\ \A level : RemainingBits(level) = 30 - level * 3
BY DEF kMortonSpatialMask, kMortonSpatialBits, kMortonDimensions, kMortonBitsPerAxis, kMortonPaddingBits,
       kMortonStorageBits, kOctreeMaxLevel, RemainingBits

----------------------------------------------------------------------------
(* The bits of small numbers *)

(* The powers of two a word has to do with. *)
LEMMA Powers ==
  ASSUME NEW k \in 0 .. 29
  PROVE  2^k \in Nat \ {0} /\ (k >= 3 => 2^k >= 8) /\ (k >= 10 => 2^k >= 1024)
<1>0. CASE k = 0
  BY <1>0
<1>1. CASE k = 1
  BY <1>1
<1>2. CASE k = 2
  BY <1>2
<1>3. CASE k = 3
  BY <1>3
<1>4. CASE k = 4
  BY <1>4
<1>5. CASE k = 5
  BY <1>5
<1>6. CASE k = 6
  BY <1>6
<1>7. CASE k = 7
  BY <1>7
<1>8. CASE k = 8
  BY <1>8
<1>9. CASE k = 9
  BY <1>9
<1>10. CASE k = 10
  BY <1>10
<1>11. CASE k = 11
  BY <1>11
<1>12. CASE k = 12
  BY <1>12
<1>13. CASE k = 13
  BY <1>13
<1>14. CASE k = 14
  BY <1>14
<1>15. CASE k = 15
  BY <1>15
<1>16. CASE k = 16
  BY <1>16
<1>17. CASE k = 17
  BY <1>17
<1>18. CASE k = 18
  BY <1>18
<1>19. CASE k = 19
  BY <1>19
<1>20. CASE k = 20
  BY <1>20
<1>21. CASE k = 21
  BY <1>21
<1>22. CASE k = 22
  BY <1>22
<1>23. CASE k = 23
  BY <1>23
<1>24. CASE k = 24
  BY <1>24
<1>25. CASE k = 25
  BY <1>25
<1>26. CASE k = 26
  BY <1>26
<1>27. CASE k = 27
  BY <1>27
<1>28. CASE k = 28
  BY <1>28
<1>29. CASE k = 29
  BY <1>29
<1> QED
  BY <1>0, <1>1, <1>2, <1>3, <1>4, <1>5, <1>6, <1>7, <1>8, <1>9, <1>10, <1>11, <1>12, <1>13, <1>14, <1>15, <1>16, <1>17, <1>18, <1>19, <1>20, <1>21, <1>22, <1>23, <1>24, <1>25, <1>26, <1>27, <1>28, <1>29

(* A number has no bits beyond its size. *)
LEMMA SmallWord ==
  ASSUME NEW n \in Nat
  PROVE  /\ n < 8 => Word(n) \subseteq 0 .. 2
         /\ n < 1024 => Word(n) \subseteq 0 .. 9
<1>1. ASSUME NEW b \in 0 .. 29, NEW w \in Nat, w = 2^b, n < w
      PROVE  b \notin Word(n)
  <2>1. n \div w = 0
    BY <1>1
  <2>2. PICK q : q = n \div 2^b /\ q = 0
    BY <1>1, <2>1
  <2>3. ~(q % 2 = 1)
    BY <2>2
  <2> QED
    BY <2>2, <2>3 DEF Word
<1>2. \A b \in 0 .. 29 : 2^b \in Nat \ {0} /\ (b >= 3 => 2^b >= 8) /\ (b >= 10 => 2^b >= 1024)
  BY Powers
<1>3. \A b \in Word(n) : b \in 0 .. 29 /\ ~(n < 2^b)
  <2>1. ASSUME NEW b \in Word(n)
        PROVE  b \in 0 .. 29 /\ ~(n < 2^b)
    <3>1. b \in 0 .. 29
      BY DEF Word
    <3>2. PICK w \in Nat : w = 2^b
      BY <1>2, <3>1
    <3> QED
      BY <1>1, <3>1, <3>2
  <2> QED
    BY <2>1
<1>4. ASSUME n < 8, NEW b \in Word(n)
      PROVE  b \in 0 .. 2
  <2>1. PICK w \in Nat : w = 2^b /\ (b >= 3 => w >= 8) /\ b \in 0 .. 29 /\ ~(n < w)
    BY <1>2, <1>3
  <2> QED
    BY <1>4, <2>1
<1>5. ASSUME n < 1024, NEW b \in Word(n)
      PROVE  b \in 0 .. 9
  <2>1. PICK w \in Nat : w = 2^b /\ (b >= 10 => w >= 1024) /\ b \in 0 .. 29 /\ ~(n < w)
    BY <1>2, <1>3
  <2> QED
    BY <1>5, <2>1
<1> QED
  BY <1>4, <1>5

(* The bits of an octant. *)
LEMMA OctantWord ==
  ASSUME NEW o \in Octants
  PROVE  /\ Word(o) \subseteq 0 .. 2
         /\ 2 \in Word(o) <=> o \div 4 = 1
         /\ 1 \in Word(o) <=> (o \div 2) % 2 = 1
         /\ 0 \in Word(o) <=> o % 2 = 1
<1>1. o \in 0 .. 7
  BY DEF Octants
<1>2. Word(o) \subseteq 0 .. 2
  BY <1>1, SmallWord
<1>3. 2 \in Word(o) <=> (o \div 4) % 2 = 1
  <2>1. 2^2 = 4
    OBVIOUS
  <2>2. \A b \in 0 .. 29 : b \in Word(o) <=> (o \div 2^b) % 2 = 1
    BY DEF Word
  <2>3. 2 \in Word(o) <=> (o \div 2^2) % 2 = 1
    BY <2>2
  <2> QED
    BY <2>1, <2>3
<1>4. 1 \in Word(o) <=> (o \div 2) % 2 = 1
  <2>1. 2^1 = 2
    OBVIOUS
  <2> QED
    BY <2>1 DEF Word
<1>5. 0 \in Word(o) <=> (o \div 1) % 2 = 1
  <2>1. 2^0 = 1
    OBVIOUS
  <2> QED
    BY <2>1 DEF Word
<1> QED
  BY <1>1, <1>2, <1>3, <1>4, <1>5

(* Every word of three bits is that of one octant. *)
LEMMA WordOctant ==
  ASSUME NEW w, w \subseteq 0 .. 2
  PROVE  \E o \in Octants : Word(o) = w
<1> DEFINE o == (IF 2 \in w THEN 4 ELSE 0) + (IF 1 \in w THEN 2 ELSE 0) + (IF 0 \in w THEN 1 ELSE 0)
<1>1. /\ o \in 0 .. 7
      /\ o \div 4 = 1 <=> 2 \in w
      /\ (o \div 2) % 2 = 1 <=> 1 \in w
      /\ o % 2 = 1 <=> 0 \in w
  BY Z3
<1> HIDE DEF o
<1>2. o \in Octants
  BY <1>1 DEF Octants
<1>3. /\ Word(o) \subseteq 0 .. 2
      /\ 2 \in Word(o) <=> 2 \in w
      /\ 1 \in Word(o) <=> 1 \in w
      /\ 0 \in Word(o) <=> 0 \in w
  BY <1>1, <1>2, OctantWord
<1>4. \A b \in 0 .. 2 : b = 0 \/ b = 1 \/ b = 2
  OBVIOUS
<1>5. \A b \in 0 .. 2 : b \in Word(o) <=> b \in w
  BY <1>3, <1>4
<1>6. Word(o) = w
  BY <1>3, <1>5
<1> QED
  BY <1>2, <1>6

(* The octant of a key at a level has the three bits of the key there. *)
LEMMA OctantIs ==
  ASSUME NEW key, key \subseteq Int, NEW level \in 1 .. 10
  PROVE  /\ octantAtLevel(key, level) \in Octants
         /\ \A b \in 0 .. 2 : b \in Word(octantAtLevel(key, level)) <=> b + (30 - level * 3) \in key
<1> DEFINE w == ShiftRight(key, RemainingBits(level)) \cap 0 .. 2
<1>1. \E o \in Octants : Word(o) = w
  <2>1. w \subseteq 0 .. 2
    OBVIOUS
  <2> HIDE DEF w
  <2> QED
    BY <2>1, WordOctant
<1>2. octantAtLevel(key, level) \in Octants /\ Word(octantAtLevel(key, level)) = w
  BY <1>1 DEF octantAtLevel
<1>3. ASSUME NEW b \in 0 .. 2
      PROVE  b \in w <=> b + (30 - level * 3) \in key
  <2>1. RemainingBits(level) = 30 - level * 3
    BY Constants
  <2>2. b \in BitPositions
    BY DEF BitPositions, kMortonStorageBits
  <2>3. b \in w <=> \E c \in key : b = c - (30 - level * 3)
    BY <2>1, <2>2 DEF ShiftRight
  <2> QED
    BY <2>3
<1> HIDE DEF w
<1> QED
  BY <1>2, <1>3

----------------------------------------------------------------------------
(* The bits of a key *)

(* A bit is in x | (x << k) under a mask if it or the one k below is in x. *)
LEMMA SpreadHas ==
  ASSUME NEW x, x \subseteq Int, NEW k \in Int, NEW mask, mask \subseteq Int, NEW c \in Int
  PROVE  c \in Spread(x, k, mask) <=> c \in mask /\ (c \in x \/ c - k \in x)
BY DEF Spread

(* The four spreads move every bit of a coordinate to its place in the key: each takes the upper *)
(* half of what is left together and moves it up.                                                *)
LEMMA ExpandedBits ==
  ASSUME NEW v, v \subseteq 0 .. 9
  PROVE  /\ expand_bits(v) \subseteq {3 * b : b \in 0 .. 9}
         /\ \A b \in 0 .. 9 : 3 * b \in expand_bits(v) <=> b \in v
<1>1. PICK m16, m8, m4, m2 : /\ m16 = (0 .. 7) \cup {24, 25}
                             /\ m8 = (0 .. 3) \cup (12 .. 15) \cup {24, 25}
                             /\ m4 = {0, 1, 6, 7, 12, 13, 18, 19, 24, 25}
                             /\ m2 = {3 * b : b \in 0 .. 9}
  OBVIOUS
<1>2. m16 \subseteq Int /\ m8 \subseteq Int /\ m4 \subseteq Int /\ m2 \subseteq Int
  BY <1>1
<1>3. PICK v0, by16, by8, by4 : /\ v0 = v \cap 0 .. 9
                                /\ by16 = Spread(v0, 16, m16) /\ by8 = Spread(by16, 8, m8)
                                /\ by4 = Spread(by8, 4, m4)
  OBVIOUS
<1>4. \A x, k, mask : Spread(x, k, mask) \subseteq mask
  BY DEF Spread
<1>12. by16 \subseteq m16 /\ by8 \subseteq m8 /\ by4 \subseteq m4
  BY <1>3, <1>4
<1>11. \A c \in v : c \in 0 .. 9
  OBVIOUS
<1>5. v0 \subseteq Int /\ by16 \subseteq Int /\ by8 \subseteq Int /\ by4 \subseteq Int /\ v0 = v
  <2>1. v0 = v
    BY <1>3
  <2>2. v \subseteq Int
    BY <1>11
  <2> QED
    BY <1>2, <1>12, <2>1, <2>2
<1>6. PICK out : out = expand_bits(v) /\ out = Spread(by4, 2, m2)
  BY <1>1, <1>3 DEF expand_bits
<1>7. \A c \in Int : c \in by16 <=> c \in m16 /\ (c \in v \/ c - 16 \in v)
  <2>1. by16 = Spread(v, 16, m16) /\ v \subseteq Int /\ m16 \subseteq Int /\ 16 \in Int
    BY <1>2, <1>3, <1>5
  <2> QED
    BY <2>1, SpreadHas
<1>8. \A c \in Int : c \in by8 <=> c \in m8 /\ (c \in by16 \/ c - 8 \in by16)
  <2>1. by8 = Spread(by16, 8, m8) /\ by16 \subseteq Int /\ m8 \subseteq Int /\ 8 \in Int
    BY <1>2, <1>3, <1>5
  <2> QED
    BY <2>1, SpreadHas
<1>9. \A c \in Int : c \in by4 <=> c \in m4 /\ (c \in by8 \/ c - 4 \in by8)
  <2>1. by4 = Spread(by8, 4, m4) /\ by8 \subseteq Int /\ m4 \subseteq Int /\ 4 \in Int
    BY <1>2, <1>3, <1>5
  <2> QED
    BY <2>1, SpreadHas
<1>10. \A c \in Int : c \in out <=> c \in m2 /\ (c \in by4 \/ c - 2 \in by4)
  <2>1. out = Spread(by4, 2, m2) /\ by4 \subseteq Int /\ m2 \subseteq Int /\ 2 \in Int
    BY <1>2, <1>5, <1>6
  <2> QED
    BY <2>1, SpreadHas
<1>13. /\ 0 \in by16 <=> 0 \in v
       /\ 1 \in by16 <=> 1 \in v
       /\ 2 \in by16 <=> 2 \in v
       /\ 3 \in by16 <=> 3 \in v
       /\ 4 \in by16 <=> 4 \in v
       /\ 5 \in by16 <=> 5 \in v
       /\ 6 \in by16 <=> 6 \in v
       /\ 7 \in by16 <=> 7 \in v
       /\ 24 \in by16 <=> 8 \in v
       /\ 25 \in by16 <=> 9 \in v
  BY <1>1, <1>7, <1>11
<1>14. /\ 0 \in by8 <=> 0 \in v
       /\ 1 \in by8 <=> 1 \in v
       /\ 2 \in by8 <=> 2 \in v
       /\ 3 \in by8 <=> 3 \in v
       /\ 12 \in by8 <=> 4 \in v
       /\ 13 \in by8 <=> 5 \in v
       /\ 14 \in by8 <=> 6 \in v
       /\ 15 \in by8 <=> 7 \in v
       /\ 24 \in by8 <=> 8 \in v
       /\ 25 \in by8 <=> 9 \in v
  BY <1>1, <1>8, <1>12, <1>13
<1>15. /\ 0 \in by4 <=> 0 \in v
       /\ 1 \in by4 <=> 1 \in v
       /\ 6 \in by4 <=> 2 \in v
       /\ 7 \in by4 <=> 3 \in v
       /\ 12 \in by4 <=> 4 \in v
       /\ 13 \in by4 <=> 5 \in v
       /\ 18 \in by4 <=> 6 \in v
       /\ 19 \in by4 <=> 7 \in v
       /\ 24 \in by4 <=> 8 \in v
       /\ 25 \in by4 <=> 9 \in v
  BY <1>1, <1>9, <1>12, <1>14
<1>16. /\ 0 \in out <=> 0 \in v
       /\ 3 \in out <=> 1 \in v
       /\ 6 \in out <=> 2 \in v
       /\ 9 \in out <=> 3 \in v
       /\ 12 \in out <=> 4 \in v
       /\ 15 \in out <=> 5 \in v
       /\ 18 \in out <=> 6 \in v
       /\ 21 \in out <=> 7 \in v
       /\ 24 \in out <=> 8 \in v
       /\ 27 \in out <=> 9 \in v
  BY <1>1, <1>10, <1>12, <1>15
<1>17. \A b \in 0 .. 9 : 3 * b \in out <=> b \in v
  BY <1>16
<1>18. out \subseteq m2
  BY <1>4, <1>6
<1> QED
  BY <1>1, <1>6, <1>17, <1>18

(* Bit b of the coordinate along axis a is bit 3 - a of the b-th three bits of the key. *)
LEMMA KeyBit ==
  ASSUME NEW x, x \subseteq 0 .. 9, NEW y, y \subseteq 0 .. 9, NEW z, z \subseteq 0 .. 9, NEW b \in 0 .. 9
  PROVE  /\ 3 * b + 2 \in interleave_bits(x, y, z) <=> b \in x
         /\ 3 * b + 1 \in interleave_bits(x, y, z) <=> b \in y
         /\ 3 * b \in interleave_bits(x, y, z) <=> b \in z
<1>1. PICK ex, ey, ez : ex = expand_bits(x) /\ ey = expand_bits(y) /\ ez = expand_bits(z)
  OBVIOUS
<1>2. /\ ex \subseteq {3 * c : c \in 0 .. 9} /\ ey \subseteq {3 * c : c \in 0 .. 9}
      /\ ez \subseteq {3 * c : c \in 0 .. 9}
      /\ 3 * b \in ex <=> b \in x
      /\ 3 * b \in ey <=> b \in y
      /\ 3 * b \in ez <=> b \in z
  BY <1>1, ExpandedBits
<1>3. interleave_bits(x, y, z) = ({c + 2 : c \in ex} \cap 0 .. 31) \cup ({c + 1 : c \in ey} \cap 0 .. 31) \cup ez
  BY <1>1 DEF interleave_bits, ShiftLeft, BitPositions, kMortonStorageBits
<1>4. ASSUME NEW e, e \subseteq {3 * c : c \in 0 .. 9}, NEW k \in 0 .. 2, NEW i \in 0 .. 2
      PROVE  3 * b + i \in {c + k : c \in e} <=> i = k /\ 3 * b \in e
  <2>1. \A c \in e : \E d \in 0 .. 9 : c = 3 * d
    BY <1>4
  <2>2. ASSUME NEW c \in e, 3 * b + i = c + k
        PROVE  i = k /\ 3 * b \in e
    <3>1. PICK d \in 0 .. 9 : c = 3 * d
      BY <2>1
    <3>2. 3 * b + i = 3 * d + k
      BY <2>2, <3>1
    <3>3. i = k /\ b = d
      BY <3>2
    <3> QED
      BY <3>1, <3>3
  <2> QED
    BY <2>2
<1>5. ASSUME NEW i \in 0 .. 2
      PROVE  3 * b + i \in interleave_bits(x, y, z) <=>
               (i = 2 /\ 3 * b \in ex) \/ (i = 1 /\ 3 * b \in ey) \/ (i = 0 /\ 3 * b \in ez)
  <2>1. 3 * b + i \in {c + 2 : c \in ex} <=> i = 2 /\ 3 * b \in ex
    BY <1>2, <1>4
  <2>2. 3 * b + i \in {c + 1 : c \in ey} <=> i = 1 /\ 3 * b \in ey
    BY <1>2, <1>4
  <2>3. 3 * b + i \in {c + 0 : c \in ez} <=> i = 0 /\ 3 * b \in ez
    BY <1>2, <1>4
  <2>4. {c + 0 : c \in ez} = ez
    <3>1. \A c \in ez : c \in Int
      BY <1>2
    <3> QED
      BY <3>1
  <2>5. 3 * b + i \in 0 .. 31
    OBVIOUS
  <2> QED
    BY <1>3, <2>1, <2>2, <2>3, <2>4, <2>5
<1>6. 3 * b + 0 = 3 * b
  OBVIOUS
<1>7. 3 * b + 2 \in interleave_bits(x, y, z) <=> b \in x
  BY <1>2, <1>5
<1>8. 3 * b + 1 \in interleave_bits(x, y, z) <=> b \in y
  BY <1>2, <1>5
<1>9. 3 * b + 0 \in interleave_bits(x, y, z) <=> b \in z
  BY <1>2, <1>5
<1> QED
  BY <1>6, <1>7, <1>8, <1>9

----------------------------------------------------------------------------
(* The cube and its cells *)

(* Of all particles along one axis, as in Bbox. *)
Coordinates(a) == {positions[p][a] : p \in Particles}

(* The particles lie well inside the cube: the quantisation never has to clamp. *)
LEMMA Boxed ==
  ASSUME positions \in Layouts, box = Bbox(positions)
  PROVE  /\ Unit(box) \in Nat \ {0}
         /\ \A p \in Particles, a \in Axes :
              /\ Normalised(box, a, positions[p][a]) \in Nat
              /\ Normalised(box, a, positions[p][a]) < Unit(box)
<1> DEFINE lo(a) == Min(Coordinates(a))
           hi(a) == Max(Coordinates(a))
           Extents == {hi(a) - lo(a) : a \in Axes}
<1>1. /\ IsFiniteSet(Particles) /\ Particles # {}
      /\ \A p \in Particles, a \in Axes : positions[p][a] \in Int
  <2>1. /\ Particles = 0 .. Cardinality(Particles) - 1 /\ Cardinality(Particles) \in Nat \ {0}
        /\ \A p \in Particles : positions[p] \in [Axes -> Int]
    BY LayoutAssumption DEF Particles
  <2>2. IsFiniteSet(0 .. Cardinality(Particles) - 1) /\ 0 \in 0 .. Cardinality(Particles) - 1
    BY <2>1, FS_Interval
  <2> QED
    BY <2>1, <2>2
<1>2. ASSUME NEW a \in Axes
      PROVE  /\ lo(a) \in Int /\ hi(a) \in Int /\ lo(a) <= hi(a)
             /\ \A p \in Particles : lo(a) <= positions[p][a] /\ positions[p][a] <= hi(a)
  <2> DEFINE at == [p \in Particles |-> positions[p][a]]
  <2>1. at \in Surjection(Particles, Coordinates(a))
    BY DEF Surjection, Coordinates
  <2>2. IsFiniteSet(Coordinates(a))
    BY <1>1, <2>1, FS_Surjection
  <2>3. Coordinates(a) \subseteq Int /\ Coordinates(a) # {}
    BY <1>1 DEF Coordinates
  <2>4. lo(a) \in Coordinates(a) /\ \A x \in Coordinates(a) : lo(a) <= x
    BY <2>2, <2>3, FiniteMin
  <2>5. hi(a) \in Coordinates(a) /\ \A x \in Coordinates(a) : hi(a) >= x
    BY <2>2, <2>3, FiniteMax
  <2>6. \A p \in Particles : positions[p][a] \in Coordinates(a)
    BY DEF Coordinates
  <2> HIDE DEF lo, hi
  <2> QED
    BY <1>1, <2>3, <2>4, <2>5, <2>6
<1>3. /\ Max(Extents) \in Nat
      /\ \A a \in Axes : hi(a) - lo(a) <= Max(Extents)
  <2> DEFINE extent == [a \in Axes |-> hi(a) - lo(a)]
  <2>1. Extents \subseteq Nat /\ Extents # {}
    <3> HIDE DEF lo, hi
    <3> QED
      BY <1>2 DEF Axes
  <2>2. extent \in Surjection(Axes, Extents)
    BY DEF Surjection
  <2>3. IsFiniteSet(Extents)
    <3>1. 1 \in Int /\ 3 \in Int
      OBVIOUS
    <3>2. IsFiniteSet(1 .. 3)
      BY <3>1, FS_Interval
    <3> QED
      BY <2>2, <3>2, FS_Surjection DEF Axes
  <2>4. \A a \in Axes : hi(a) - lo(a) \in Extents
    OBVIOUS
  <2> HIDE DEF lo, hi, Extents
  <2>5. Max(Extents) \in Extents /\ \A x \in Extents : Max(Extents) >= x
    <3>1. Extents \subseteq Int
      BY <2>1
    <3> QED
      BY <2>1, <2>3, <3>1, FiniteMax
  <2> QED
    BY <2>1, <2>4, <2>5
<1>4. /\ \A a \in Axes : box.twiceCentre[a] = lo(a) + hi(a)
      /\ box.tenSides = IF Max(Extents) = 0 THEN 10 ELSE 11 * Max(Extents)
  BY DEF Bbox, Coordinates, Particles
<1> HIDE DEF lo, hi, Extents
<1>5. box.tenSides \in Nat \ {0}
  BY <1>3, <1>4
<1>6. ASSUME NEW p \in Particles, NEW a \in Axes
      PROVE  /\ Normalised(box, a, positions[p][a]) \in Nat
             /\ Normalised(box, a, positions[p][a]) < Unit(box)
  <2> DEFINE v == positions[p][a]
             extent == Max(Extents)
  <2>1. /\ v \in Int /\ lo(a) \in Int /\ hi(a) \in Int /\ extent \in Nat
        /\ lo(a) <= v /\ v <= hi(a) /\ hi(a) - lo(a) <= extent
    BY <1>1, <1>2, <1>3
  <2>2. Normalised(box, a, v) = 20 * v - 10 * (lo(a) + hi(a)) + box.tenSides
    BY <1>4 DEF Normalised
  <2>3. box.tenSides = IF extent = 0 THEN 10 ELSE 11 * extent
    BY <1>4
  <2>4. Unit(box) = 2 * box.tenSides
    BY DEF Unit
  <2> HIDE DEF v, extent
  <2>5. /\ 20 * v - 10 * (lo(a) + hi(a)) + box.tenSides \in Nat
        /\ 20 * v - 10 * (lo(a) + hi(a)) + box.tenSides < 2 * box.tenSides
    BY <2>1, <2>3
  <2>6. Normalised(box, a, v) \in Nat /\ Normalised(box, a, v) < Unit(box)
    BY <2>2, <2>4, <2>5
  <2> QED
    BY <2>6 DEF v
<1>7. Unit(box) \in Nat \ {0}
  BY <1>5 DEF Unit
<1> QED
  BY <1>6, <1>7

(* The place of a particle on the finest grid. *)
LEMMA QuantisedIs ==
  ASSUME positions \in Layouts, box = Bbox(positions), NEW p \in Particles, NEW a \in Axes
  PROVE  LET q == Quantised(box, a, positions[p][a])
             v == Normalised(box, a, positions[p][a])
         IN  q \in 0 .. 1023 /\ q * Unit(box) <= 1024 * v /\ 1024 * v < (q + 1) * Unit(box)
<1> DEFINE v == Normalised(box, a, positions[p][a])
           u == Unit(box)
           x == (1024 * v) \div u
<1>1. v \in Nat /\ u \in Nat \ {0} /\ v < u
  BY Boxed
<1>2. Quantised(box, a, positions[p][a]) = Min({Max({x, 0}), 1023})
  BY DEF Quantised, gridSize, kMortonBitsPerAxis
<1> HIDE DEF v, u
<1>3. /\ x \in Int /\ x * u <= 1024 * v /\ 1024 * v < (x + 1) * u
  BY <1>1
<1> HIDE DEF x
<1>4. x >= 0
  <2> SUFFICES ASSUME x + 1 <= 0
               PROVE  FALSE
    BY <1>3
  <2>1. (x + 1) * u <= 0
    BY <1>1, <1>3
  <2> QED
    BY <1>1, <1>3, <2>1
<1>5. x <= 1023
  <2> SUFFICES ASSUME x >= 1024
               PROVE  FALSE
    BY <1>3
  <2>1. x * u >= 1024 * u
    BY <1>1, <1>3
  <2> QED
    BY <1>1, <1>3, <2>1
<1>6. Max({x, 0}) = x
  BY <1>3, <1>4 DEF Max
<1>7. Min({x, 1023}) = x
  BY <1>3, <1>5 DEF Min
<1>8. Quantised(box, a, positions[p][a]) = x
  BY <1>2, <1>6, <1>7
<1> QED
  BY <1>3, <1>4, <1>5, <1>8 DEF v, u

(* A cell is twice as wide as one of the level below. *)
LEMMA Widths ==
  ASSUME NEW k \in 0 .. 9
  PROVE  2^k \in Nat \ {0} /\ 2^(k + 1) = 2 * 2^k
<1>0. CASE k = 0
  BY <1>0
<1>1. CASE k = 1
  BY <1>1
<1>2. CASE k = 2
  BY <1>2
<1>3. CASE k = 3
  BY <1>3
<1>4. CASE k = 4
  BY <1>4
<1>5. CASE k = 5
  BY <1>5
<1>6. CASE k = 6
  BY <1>6
<1>7. CASE k = 7
  BY <1>7
<1>8. CASE k = 8
  BY <1>8
<1>9. CASE k = 9
  BY <1>9
<1> QED
  BY <1>0, <1>1, <1>2, <1>3, <1>4, <1>5, <1>6, <1>7, <1>8, <1>9

(* Halving a place of one level gives the place of the level above. *)
LEMMA Halving ==
  ASSUME NEW q \in 0 .. 1023, NEW l \in 1 .. 10
  PROVE  (q \div 2^(10 - l)) \div 2 = q \div 2^(10 - (l - 1))
<1> DEFINE k == 10 - l
           w == 2^k
<1>1. k \in 0 .. 9 /\ 10 - (l - 1) = k + 1
  OBVIOUS
<1>2. w \in Nat \ {0} /\ 2^(k + 1) = 2 * w
  BY <1>1, Widths
<1> HIDE DEF w
<1>3. (q \div w) \div 2 = q \div (2 * w)
  BY <1>2
<1> HIDE DEF k
<1>4. 2^(10 - (l - 1)) = 2 * w
  BY <1>1, <1>2
<1> QED
  BY <1>3, <1>4 DEF w, k

(* The cell around a cell of a particle is the particle's cell of the level above; level 0 has one. *)
LEMMA CellsNest ==
  ASSUME positions \in Layouts, box = Bbox(positions), NEW p \in Particles
  PROVE  /\ \A l \in 1 .. 10 : Enclosing(CellOf(p, l)) = CellOf(p, l - 1)
         /\ \A q \in Particles : CellOf(q, 0) = CellOf(p, 0)
<1>1. \A q \in Particles, a \in Axes : Quantised(box, a, positions[q][a]) \in 0 .. 1023
  BY QuantisedIs
<1>2. ASSUME NEW l \in 1 .. 10
      PROVE  Enclosing(CellOf(p, l)) = CellOf(p, l - 1)
  <2>1. \A a \in Axes : (Quantised(box, a, positions[p][a]) \div 2^(10 - l)) \div 2
                          = Quantised(box, a, positions[p][a]) \div 2^(10 - (l - 1))
    <3> DEFINE q(a) == Quantised(box, a, positions[p][a])
    <3>1. \A a \in Axes : q(a) \in 0 .. 1023
      BY <1>1
    <3> HIDE DEF q
    <3>2. \A a \in Axes : (q(a) \div 2^(10 - l)) \div 2 = q(a) \div 2^(10 - (l - 1))
      BY <3>1, Halving
    <3> QED
      BY <3>2 DEF q
  <2>2. Enclosing(CellOf(p, l)).at = CellOf(p, l - 1).at
    BY <2>1 DEF Enclosing, CellOf, kOctreeMaxLevel, kMortonBitsPerAxis
  <2> QED
    BY <2>2 DEF Enclosing, CellOf
<1>3. ASSUME NEW q \in Particles
      PROVE  CellOf(q, 0) = CellOf(p, 0)
  <2>1. \A x \in 0 .. 1023 : x \div 1024 = 0
    OBVIOUS
  <2>2. 2^(10 - 0) = 1024
    OBVIOUS
  <2>3. \A r \in Particles, a \in Axes : Quantised(box, a, positions[r][a]) \div 2^(10 - 0) = 0
    BY <1>1, <2>1, <2>2
  <2> QED
    BY <2>3 DEF CellOf, kOctreeMaxLevel, kMortonBitsPerAxis
<1> QED
  BY <1>2, <1>3


(* A number is twice its half and its last bit. *)
LEMMA HalfAndBit ==
  ASSUME NEW x \in Nat
  PROVE  \E y, d : y = x \div 2 /\ d = x % 2 /\ y \in Nat /\ d \in 0 .. 1 /\ x = 2 * y + d
<1>1. PICK y, d : y = x \div 2 /\ d = x % 2 /\ d \in 0 .. 1 /\ x = 2 * y + d
  OBVIOUS
<1>2. x \div 2 \in Nat
  OBVIOUS
<1> QED
  BY <1>1, <1>2

(* A place is twice that of the level above and the bit of the level. *)
LEMMA PlaceStep ==
  ASSUME NEW q \in 0 .. 1023, NEW l \in 1 .. 10
  PROVE  /\ q \div 2^(10 - l) \in Nat /\ q \div 2^(10 - (l - 1)) \in Nat
         /\ q \div 2^(10 - l) = 2 * (q \div 2^(10 - (l - 1))) + ((q \div 2^(10 - l)) % 2)
         /\ (q \div 2^(10 - l)) % 2 \in 0 .. 1
         /\ 10 - l \in Word(q) <=> (q \div 2^(10 - l)) % 2 = 1
<1>1. PICK k : k = 10 - l /\ k \in 0 .. 9 /\ k \in 0 .. 29
  OBVIOUS
<1>2. PICK w : w = 2^k /\ w \in Nat \ {0}
  BY <1>1, Widths
<1>3. PICK x : x = q \div w /\ x \in Nat
  BY <1>2
<1>4. x \div 2 = q \div 2^(10 - (l - 1))
  BY <1>1, <1>2, <1>3, Halving
<1>5. PICK y, d : y = x \div 2 /\ d = x % 2 /\ y \in Nat /\ d \in 0 .. 1 /\ x = 2 * y + d
  BY <1>3, HalfAndBit
<1>6. k \in Word(q) <=> x % 2 = 1
  BY <1>1, <1>2, <1>3 DEF Word
<1> QED
  BY <1>1, <1>2, <1>3, <1>4, <1>5, <1>6

(* The place in a level, along one axis, of the cell that a place of the finest grid is in. *)
Coarse(q, level) == q \div 2^(10 - level)

(* Two places have the same bits down to one. *)
SameBits(q, r, lowest) == \A b \in lowest .. 9 : b \in Word(q) <=> b \in Word(r)

(* Two places are the same at a level if their bits down to it are. *)
LEMMA PlaceBits ==
  ASSUME NEW level, NEW c, NEW r, level \in 0 .. 10, c \in 0 .. 1023, r \in 0 .. 1023
  PROVE  Coarse(c, level) = Coarse(r, level) <=> SameBits(c, r, 10 - level)
<1> DEFINE Same(l) == c \div 2^(10 - l) = r \div 2^(10 - l)
           Bitwise(l) == \A b \in 10 - l .. 9 : b \in Word(c) <=> b \in Word(r)
           G == {l \in Nat : Same(l) <=> Bitwise(l)}
<1>1. 0 \in G
  <2>1. 2^(10 - 0) = 1024
    OBVIOUS
  <2>2. c \div 1024 = 0 /\ r \div 1024 = 0
    OBVIOUS
  <2>3. Bitwise(0)
    OBVIOUS
  <2> QED
    BY <2>1, <2>2, <2>3
<1>2. ASSUME NEW l \in 0 .. 10 - 1, l \in G
      PROVE  l + 1 \in G
  <2>1. PICK m : m = l + 1 /\ m \in 1 .. 10 /\ m - 1 = l
    OBVIOUS
  <2>2. PICK x, y, u, v : /\ x = c \div 2^(10 - m) /\ y = c \div 2^(10 - l)
                          /\ u = r \div 2^(10 - m) /\ v = r \div 2^(10 - l)
    OBVIOUS
  <2>3. PICK d, o : d = x % 2 /\ o = u % 2
    OBVIOUS
  <2>4. /\ y \in Nat /\ x = 2 * y + d /\ d \in 0 .. 1 /\ (10 - m \in Word(c) <=> d = 1)
        /\ v \in Nat /\ u = 2 * v + o /\ o \in 0 .. 1 /\ (10 - m \in Word(r) <=> o = 1)
    <3>1. /\ c \div 2^(10 - (m - 1)) \in Nat
          /\ c \div 2^(10 - m) = 2 * (c \div 2^(10 - (m - 1))) + ((c \div 2^(10 - m)) % 2)
          /\ (c \div 2^(10 - m)) % 2 \in 0 .. 1
          /\ 10 - m \in Word(c) <=> (c \div 2^(10 - m)) % 2 = 1
      BY <2>1, PlaceStep
    <3>2. /\ r \div 2^(10 - (m - 1)) \in Nat
          /\ r \div 2^(10 - m) = 2 * (r \div 2^(10 - (m - 1))) + ((r \div 2^(10 - m)) % 2)
          /\ (r \div 2^(10 - m)) % 2 \in 0 .. 1
          /\ 10 - m \in Word(r) <=> (r \div 2^(10 - m)) % 2 = 1
      BY <2>1, PlaceStep
    <3> QED
      BY <2>1, <2>2, <2>3, <3>1, <3>2
  <2>5. /\ x = u <=> (y = v /\ d = o)
        /\ d = o <=> (10 - m \in Word(c) <=> 10 - m \in Word(r))
    <3>1. y \in Nat /\ v \in Nat /\ d \in 0 .. 1 /\ o \in 0 .. 1 /\ x = 2 * y + d /\ u = 2 * v + o
      BY <2>4
    <3>2. x = u <=> (y = v /\ d = o)
      BY <3>1
    <3>3. d = o <=> (10 - m \in Word(c) <=> 10 - m \in Word(r))
      BY <2>4
    <3> QED
      BY <3>2, <3>3
  <2>6. y = v <=> Bitwise(l)
    BY <1>2, <2>2
  <2>7. Bitwise(m) <=> Bitwise(l) /\ (10 - m \in Word(c) <=> 10 - m \in Word(r))
    <3>1. 10 - m .. 9 = (10 - l .. 9) \cup {10 - m}
      BY <2>1
    <3> QED
      BY <3>1
  <2>8. Same(m) <=> Bitwise(m)
    <3> HIDE DEF Bitwise
    <3> QED
      BY <2>1, <2>2, <2>5, <2>6, <2>7
  <2> HIDE DEF Same, Bitwise
  <2> QED
    BY <2>1, <2>8
<1>3. level \in G
  <2> HIDE DEF G
  <2>1. 0 .. 10 \subseteq G
    BY <1>1, <1>2, NatInductionUpTo
  <2> QED
    BY <2>1
<1> QED
  BY <1>3 DEF SameBits, Coarse

----------------------------------------------------------------------------
(* Keys and cells *)

(* The bounding box of particles the model can have. *)
Boxing == positions \in Layouts /\ box = Bbox(positions)

(* Where a particle is on the finest grid along an axis, and its key. *)
PlaceOf(p, a) == Quantised(box, a, positions[p][a])
KeyOf(p) == MortonKey(box, positions[p])

(* The bits of a particle's key are those of its place along the three axes. *)
LEMMA MortonBits ==
  ASSUME Boxing, NEW p \in Particles
  PROVE  /\ \A a \in Axes : PlaceOf(p, a) \in 0 .. 1023
         /\ \A a \in Axes, b \in 0 .. 9 : 3 * b + (3 - a) \in KeyOf(p) <=> b \in Word(PlaceOf(p, a))
<1>1. \A a \in Axes : PlaceOf(p, a) \in 0 .. 1023
  <2>1. \A a \in Axes : Quantised(box, a, positions[p][a]) \in 0 .. 1023
    BY QuantisedIs DEF Boxing
  <2> QED
    BY <2>1 DEF PlaceOf
<1>2. 1 \in Axes /\ 2 \in Axes /\ 3 \in Axes /\ \A a \in Axes : a = 1 \/ a = 2 \/ a = 3
  BY DEF Axes
<1>3. PICK x, y, z : x = Word(PlaceOf(p, 1)) /\ y = Word(PlaceOf(p, 2)) /\ z = Word(PlaceOf(p, 3))
  OBVIOUS
<1>4. x \subseteq 0 .. 9 /\ y \subseteq 0 .. 9 /\ z \subseteq 0 .. 9
  <2>1. \A a \in Axes : PlaceOf(p, a) \in Nat /\ PlaceOf(p, a) < 1024
    BY <1>1
  <2> QED
    BY <1>2, <1>3, <2>1, SmallWord
<1>5. KeyOf(p) = interleave_bits(x, y, z)
  BY <1>3 DEF KeyOf, MortonKey, PlaceOf
<1>6. ASSUME NEW b \in 0 .. 9
      PROVE  /\ 3 * b + 2 \in KeyOf(p) <=> b \in x
             /\ 3 * b + 1 \in KeyOf(p) <=> b \in y
             /\ 3 * b \in KeyOf(p) <=> b \in z
  <2>1. /\ 3 * b + 2 \in interleave_bits(x, y, z) <=> b \in x
        /\ 3 * b + 1 \in interleave_bits(x, y, z) <=> b \in y
        /\ 3 * b \in interleave_bits(x, y, z) <=> b \in z
    BY <1>4, KeyBit
  <2> QED
    BY <1>5, <2>1
<1>7. ASSUME NEW a \in Axes, NEW b \in 0 .. 9
      PROVE  3 * b + (3 - a) \in KeyOf(p) <=> b \in Word(PlaceOf(p, a))
  <2>1. CASE a = 1
    <3>1. 3 * b + (3 - a) = 3 * b + 2
      BY <2>1
    <3> QED
      BY <1>3, <1>6, <2>1, <3>1
  <2>2. CASE a = 2
    <3>1. 3 * b + (3 - a) = 3 * b + 1
      BY <2>2
    <3> QED
      BY <1>3, <1>6, <2>2, <3>1
  <2>3. CASE a = 3
    <3>1. 3 * b + (3 - a) = 3 * b
      BY <2>3
    <3> QED
      BY <1>3, <1>6, <2>3, <3>1
  <2> QED
    BY <1>2, <2>1, <2>2, <2>3
<1> QED
  BY <1>1, <1>7

(* Two particles are in the same cell of a level if that part of their keys is the same. *)
LEMMA CellKeys ==
  ASSUME Boxing, NEW p \in Particles, NEW q \in Particles, NEW level \in 0 .. 10
  PROVE  CellOf(p, level) = CellOf(q, level)
           <=> mortonPrefixAtLevel(KeyOf(p), level) = mortonPrefixAtLevel(KeyOf(q), level)
<1> DEFINE Here(a) == Coarse(PlaceOf(p, a), level) = Coarse(PlaceOf(q, a), level)
<1>1. CellOf(p, level) = CellOf(q, level) <=> \A a \in Axes : Here(a)
  <2>1. CellOf(p, level) = CellOf(q, level) <=>
          [a \in Axes |-> Coarse(PlaceOf(p, a), level)] = [a \in Axes |-> Coarse(PlaceOf(q, a), level)]
    BY Constants DEF CellOf, PlaceOf, Coarse
  <2> QED
    BY <2>1
<1>2. \A r \in Particles, a \in Axes : PlaceOf(r, a) \in 0 .. 1023
  BY MortonBits
<1>3. ASSUME NEW a \in Axes
      PROVE  Here(a) <=> SameBits(PlaceOf(p, a), PlaceOf(q, a), 10 - level)
  <2>1. PICK x, y : x = PlaceOf(p, a) /\ y = PlaceOf(q, a) /\ x \in 0 .. 1023 /\ y \in 0 .. 1023
    BY <1>2
  <2>2. Coarse(x, level) = Coarse(y, level) <=> SameBits(x, y, 10 - level)
    BY <2>1, PlaceBits
  <2> QED
    BY <2>1, <2>2
<1>4. \A a \in Axes, b \in 0 .. 9 : /\ 3 * b + (3 - a) \in KeyOf(p) <=> b \in Word(PlaceOf(p, a))
                                    /\ 3 * b + (3 - a) \in KeyOf(q) <=> b \in Word(PlaceOf(q, a))
  <2>1. \A a \in Axes, b \in 0 .. 9 : 3 * b + (3 - a) \in KeyOf(p) <=> b \in Word(PlaceOf(p, a))
    BY MortonBits, Zenon
  <2>2. \A a \in Axes, b \in 0 .. 9 : 3 * b + (3 - a) \in KeyOf(q) <=> b \in Word(PlaceOf(q, a))
    BY MortonBits, Zenon
  <2> QED
    BY <2>1, <2>2, Zenon
<1> HIDE DEF Here
<1>5. (\A a \in Axes : Here(a)) <=>
        \A a \in Axes, b \in 10 - level .. 9 : 3 * b + (3 - a) \in KeyOf(p) <=> 3 * b + (3 - a) \in KeyOf(q)
  <2>1. \A b \in 10 - level .. 9 : b \in 0 .. 9
    OBVIOUS
  <2> QED
    BY <1>3, <1>4, <2>1 DEF SameBits
<1>6. (\A a \in Axes, b \in 10 - level .. 9 : 3 * b + (3 - a) \in KeyOf(p) <=> 3 * b + (3 - a) \in KeyOf(q))
        <=> \A c \in 30 - level * 3 .. 29 : c \in KeyOf(p) <=> c \in KeyOf(q)
  <2>1. ASSUME NEW a \in Axes, NEW b \in 10 - level .. 9
        PROVE  3 * b + (3 - a) \in 30 - level * 3 .. 29
    BY DEF Axes
  <2>2. ASSUME NEW c \in 30 - level * 3 .. 29
        PROVE  \E a \in Axes, b \in 10 - level .. 9 : c = 3 * b + (3 - a)
    <3>1. PICK b, m : b = c \div 3 /\ m = c % 3 /\ b \in 10 - level .. 9 /\ m \in 0 .. 2 /\ c = 3 * b + m
      OBVIOUS
    <3>2. 3 - m \in Axes /\ c = 3 * b + (3 - (3 - m))
      BY <3>1 DEF Axes
    <3> QED
      BY <3>1, <3>2
  <2> QED
    BY <2>1, <2>2
<1>7. mortonPrefixAtLevel(KeyOf(p), level) = mortonPrefixAtLevel(KeyOf(q), level)
        <=> \A c \in 30 - level * 3 .. 29 : c \in KeyOf(p) <=> c \in KeyOf(q)
  <2>1. 30 - 1 = 29
    OBVIOUS
  <2>2. \A key : mortonPrefixAtLevel(key, level) = key \cap (30 - level * 3 .. 29)
    BY <2>1, Constants DEF mortonPrefixAtLevel
  <2> QED
    BY <2>2
<1> QED
  BY <1>1, <1>5, <1>6, <1>7

(* Octants with the same bits are the same. *)
LEMMA OctantSame ==
  ASSUME NEW o \in Octants, NEW s \in Octants, \A b \in 0 .. 2 : b \in Word(o) <=> b \in Word(s)
  PROVE  o = s
<1>1. o \in 0 .. 7 /\ s \in 0 .. 7
  BY DEF Octants
<1>2. /\ 2 \in Word(o) <=> o \div 4 = 1
      /\ 1 \in Word(o) <=> (o \div 2) % 2 = 1
      /\ 0 \in Word(o) <=> o % 2 = 1
      /\ 2 \in Word(s) <=> s \div 4 = 1
      /\ 1 \in Word(s) <=> (s \div 2) % 2 = 1
      /\ 0 \in Word(s) <=> s % 2 = 1
  BY OctantWord
<1>3. (o \div 4 = 1 <=> s \div 4 = 1) /\ ((o \div 2) % 2 = 1 <=> (s \div 2) % 2 = 1) /\ (o % 2 = 1 <=> s % 2 = 1)
  BY <1>2
<1> QED
  BY <1>1, <1>3

(* The octant of a key at a level is that of its cell. *)
LEMMA CellOctant ==
  ASSUME Boxing, NEW p \in Particles, NEW level \in 1 .. 10
  PROVE  octantAtLevel(KeyOf(p), level) = OctantOf(CellOf(p, level))
<1> DEFINE o == octantAtLevel(KeyOf(p), level)
           at(a) == PlaceOf(p, a) \div 2^(10 - level)
<1>1. KeyOf(p) \subseteq Int
  BY KeyBits, Constants DEF KeyOf
<1>2. o \in Octants /\ \A b \in 0 .. 2 : b \in Word(o) <=> b + (30 - level * 3) \in KeyOf(p)
  BY <1>1, OctantIs
<1>3. ASSUME NEW a \in Axes
      PROVE  at(a) \in Nat /\ (3 - a \in Word(o) <=> at(a) % 2 = 1)
  <2>1. PlaceOf(p, a) \in 0 .. 1023
    BY MortonBits
  <2>2. at(a) \in Nat /\ (10 - level \in Word(PlaceOf(p, a)) <=> at(a) % 2 = 1)
    BY <2>1, PlaceStep
  <2>3. 3 * (10 - level) + (3 - a) \in KeyOf(p) <=> 10 - level \in Word(PlaceOf(p, a))
    <3>1. 10 - level \in 0 .. 9
      OBVIOUS
    <3> QED
      BY <3>1, MortonBits
  <2>4. 3 - a \in 0 .. 2 /\ 3 * (10 - level) + (3 - a) = (3 - a) + (30 - level * 3)
    BY DEF Axes
  <2> HIDE DEF o, at
  <2> QED
    BY <1>2, <2>2, <2>3, <2>4
<1>4. OctantOf(CellOf(p, level)) = 4 * (at(1) % 2) + 2 * (at(2) % 2) + (at(3) % 2)
  BY Constants DEF OctantOf, CellOf, PlaceOf, Axes
<1> HIDE DEF o, at
<1>5. 1 \in Axes /\ 2 \in Axes /\ 3 \in Axes /\ 3 - 1 = 2 /\ 3 - 2 = 1 /\ 3 - 3 = 0
  BY DEF Axes
<1>6. /\ at(1) \in Nat /\ at(2) \in Nat /\ at(3) \in Nat
      /\ 2 \in Word(o) <=> at(1) % 2 = 1
      /\ 1 \in Word(o) <=> at(2) % 2 = 1
      /\ 0 \in Word(o) <=> at(3) % 2 = 1
  BY <1>3, <1>5
<1>7. o \in 0 .. 7 /\ (o \div 4 = 1 <=> at(1) % 2 = 1) /\ ((o \div 2) % 2 = 1 <=> at(2) % 2 = 1)
      /\ (o % 2 = 1 <=> at(3) % 2 = 1)
  <2>1. o \in Octants
    BY <1>2
  <2>2. o \in 0 .. 7
    BY <2>1 DEF Octants
  <2> QED
    BY <1>6, <2>1, <2>2, OctantWord
<1>8. PICK x, y, z : x = at(1) % 2 /\ y = at(2) % 2 /\ z = at(3) % 2 /\ x \in 0 .. 1 /\ y \in 0 .. 1 /\ z \in 0 .. 1
  BY <1>6
<1>9. o = 4 * x + 2 * y + z
  <2>1. /\ o \in 0 .. 7 /\ x \in 0 .. 1 /\ y \in 0 .. 1 /\ z \in 0 .. 1
        /\ o \div 4 = 1 <=> x = 1
        /\ (o \div 2) % 2 = 1 <=> y = 1
        /\ o % 2 = 1 <=> z = 1
    BY <1>7, <1>8
  <2>2. o = 0 \/ o = 1 \/ o = 2 \/ o = 3 \/ o = 4 \/ o = 5 \/ o = 6 \/ o = 7
    BY <2>1
  <2> QED
    BY <2>1, <2>2
<1> QED
  BY <1>4, <1>8, <1>9 DEF o

(* The part of a key that names a cell has the octants of the key. *)
LEMMA PrefixOctant ==
  ASSUME NEW key, key \subseteq Int, NEW level \in 0 .. 10, NEW depth \in 1 .. level
  PROVE  octantAtLevel(mortonPrefixAtLevel(key, level), depth) = octantAtLevel(key, depth)
<1>0. 30 - 1 = 29 /\ depth \in 1 .. 10
  OBVIOUS
<1>1. PICK w : w = mortonPrefixAtLevel(key, level) /\ w = key \cap (30 - level * 3 .. 29) /\ w \subseteq Int
  BY <1>0, Constants DEF mortonPrefixAtLevel
<1>2. PICK o, s : o = octantAtLevel(w, depth) /\ s = octantAtLevel(key, depth)
  OBVIOUS
<1>3. /\ o \in Octants /\ \A b \in 0 .. 2 : b \in Word(o) <=> b + (30 - depth * 3) \in w
      /\ s \in Octants /\ \A b \in 0 .. 2 : b \in Word(s) <=> b + (30 - depth * 3) \in key
  BY <1>0, <1>1, <1>2, OctantIs
<1>4. \A b \in 0 .. 2 : b + (30 - depth * 3) \in 30 - level * 3 .. 29
  BY <1>0
<1>5. \A b \in 0 .. 2 : b \in Word(o) <=> b \in Word(s)
  BY <1>1, <1>3, <1>4
<1> QED
  BY <1>1, <1>2, <1>3, <1>5, OctantSame

----------------------------------------------------------------------------
(* The geometry of a node *)

(* Half the sides of the cells. *)
LEMMA HalfSizes ==
  ASSUME NEW level, level \in 0 .. 10
  PROVE  /\ HalfSizeAt(level) \in {1, 2, 4, 8, 16, 32, 64, 128, 256, 512, 1024}
         /\ HalfSizeAt(level) = 2^(10 - level)
         /\ level > 0 => HalfSizeAt(level - 1) = 2 * HalfSizeAt(level)
<1>1. \A l \in 0 .. 10 : HalfSizeAt(l) = 2^(10 - l)
  BY Constants DEF HalfSizeAt
<1>2. /\ 2^(10 - 0) = 1024 /\ 2^(10 - 1) = 512 /\ 2^(10 - 2) = 256 /\ 2^(10 - 3) = 128
      /\ 2^(10 - 4) = 64 /\ 2^(10 - 5) = 32 /\ 2^(10 - 6) = 16 /\ 2^(10 - 7) = 8
      /\ 2^(10 - 8) = 4 /\ 2^(10 - 9) = 2 /\ 2^(10 - 10) = 1
  OBVIOUS
<1>3. /\ HalfSizeAt(0) = 1024 /\ HalfSizeAt(1) = 512 /\ HalfSizeAt(2) = 256 /\ HalfSizeAt(3) = 128
      /\ HalfSizeAt(4) = 64 /\ HalfSizeAt(5) = 32 /\ HalfSizeAt(6) = 16 /\ HalfSizeAt(7) = 8
      /\ HalfSizeAt(8) = 4 /\ HalfSizeAt(9) = 2 /\ HalfSizeAt(10) = 1
  <2>1. \A l \in {0, 1, 2, 3, 4, 5, 6, 7, 8, 9, 10} : l \in 0 .. 10
    OBVIOUS
  <2> QED
    BY <1>1, <1>2, <2>1
<1>4. \/ level = 0 \/ level = 1 \/ level = 2 \/ level = 3 \/ level = 4 \/ level = 5 \/ level = 6
      \/ level = 7 \/ level = 8 \/ level = 9 \/ level = 10
  OBVIOUS
<1>5. HalfSizeAt(level) \in {1, 2, 4, 8, 16, 32, 64, 128, 256, 512, 1024}
  BY <1>3, <1>4
<1>6. ASSUME level > 0
      PROVE  HalfSizeAt(level - 1) = 2 * HalfSizeAt(level)
  <2>1. 1 - 1 = 0 /\ 2 - 1 = 1 /\ 3 - 1 = 2 /\ 4 - 1 = 3 /\ 5 - 1 = 4 /\ 6 - 1 = 5 /\ 7 - 1 = 6
        /\ 8 - 1 = 7 /\ 9 - 1 = 8 /\ 10 - 1 = 9
    OBVIOUS
  <2> QED
    BY <1>3, <1>4, <1>6, <2>1
<1> QED
  BY <1>1, <1>5, <1>6

(* The upper half along an axis is where the place of the level is odd. *)
LEMMA HalfTaken ==
  ASSUME Boxing, NEW p \in Particles, NEW a \in Axes, NEW level \in 0 .. 10, NEW depth \in 1 .. level
  PROVE  UpperHalf(octantAtLevel(mortonPrefixAtLevel(KeyOf(p), level), depth), a)
           <=> Coarse(PlaceOf(p, a), depth) % 2 = 1
<1>1. depth \in 1 .. 10 /\ 3 - a \in 0 .. 2 /\ 10 - depth \in 0 .. 9
      /\ 3 * (10 - depth) + (3 - a) = (3 - a) + (30 - depth * 3)
  BY DEF Axes
<1>2. KeyOf(p) \subseteq Int
  BY KeyBits, Constants DEF KeyOf
<1>3. PICK q : q = PlaceOf(p, a) /\ q \in 0 .. 1023
  BY MortonBits
<1>4. PICK o : o = octantAtLevel(KeyOf(p), depth)
               /\ o = octantAtLevel(mortonPrefixAtLevel(KeyOf(p), level), depth)
  BY <1>2, PrefixOctant
<1>5. 3 - a \in Word(o) <=> (3 - a) + (30 - depth * 3) \in KeyOf(p)
  BY <1>1, <1>2, <1>4, OctantIs
<1>6. 3 * (10 - depth) + (3 - a) \in KeyOf(p) <=> 10 - depth \in Word(PlaceOf(p, a))
  BY <1>1, MortonBits
<1>7. 10 - depth \in Word(q) <=> Coarse(q, depth) % 2 = 1
  BY <1>1, <1>3, PlaceStep DEF Coarse
<1> QED
  BY <1>1, <1>3, <1>4, <1>5, <1>6, <1>7 DEF UpperHalf

(* The centre computeOctreeGeometry gives the node of a particle's cell is that of the cell. *)
LEMMA CentreIs ==
  ASSUME Boxing, NEW p \in Particles, NEW level, level \in 0 .. 10
  PROVE  Centre(mortonPrefixAtLevel(KeyOf(p), level), level)
           = [a \in Axes |-> HalfSizeAt(level) * (2 * Coarse(PlaceOf(p, a), level) + 1)]
<1> DEFINE word == mortonPrefixAtLevel(KeyOf(p), level)
           move(a) == [depth \in 1 .. level |->
                         IF UpperHalf(octantAtLevel(word, depth), a) THEN HalfSizeAt(depth)
                         ELSE -HalfSizeAt(depth)]
<1>1. Centre(word, level) = [a \in Axes |-> HalfSizeAt(0) + SumOver(move(a), 1 .. level)]
  BY DEF Centre, SumOver
<1>2. ASSUME NEW a \in Axes
      PROVE  HalfSizeAt(0) + SumOver(move(a), 1 .. level) = HalfSizeAt(level) * (2 * Coarse(PlaceOf(p, a), level) + 1)
  <2>1. PICK q : q = PlaceOf(p, a) /\ q \in 0 .. 1023
    BY MortonBits
  <2>2. PICK f : f = move(a)
    OBVIOUS
  <2>3. \A depth \in 1 .. level : /\ Coarse(q, depth) % 2 = 1 => f[depth] = HalfSizeAt(depth)
                                  /\ Coarse(q, depth) % 2 # 1 => f[depth] = -HalfSizeAt(depth)
    BY <2>1, <2>2, HalfTaken
  <2> HIDE DEF move
  <2>4. \A depth \in 0 .. level : HalfSizeAt(depth) \in Nat
    <3>1. \A depth \in 0 .. 10 : HalfSizeAt(depth) \in {1, 2, 4, 8, 16, 32, 64, 128, 256, 512, 1024}
      BY HalfSizes
    <3>2. \A depth \in 0 .. level : depth \in 0 .. 10
      OBVIOUS
    <3> QED
      BY <3>1, <3>2
  <2> DEFINE S == 1 .. level
  <2>5. IsFiniteSet(S) /\ \A x \in S : f[x] \in Int
    <3>1. 1 \in Int /\ level \in Int
      OBVIOUS
    <3>2. IsFiniteSet(S)
      BY <3>1, FS_Interval
    <3>3. \A x \in S : x \in 0 .. level
      OBVIOUS
    <3>4. \A x \in S : HalfSizeAt(x) \in Nat
      BY <2>4, <3>3
    <3> QED
      BY <2>3, <3>2, <3>4
  <2>6. PICK h : IsSum(h, f, S) /\ SumOver(f, S) = h[S]
    BY <2>5, SumFolds
  <2>7. h[{}] = 0 /\ \A T \in SUBSET S : h[T] \in Int /\ \A x \in T : h[T] = f[x] + h[T \ {x}]
    <3> HIDE DEF S
    <3> QED
      BY <2>5, <2>6, SumTake
  <2> DEFINE G == {k \in Nat : HalfSizeAt(0) + h[1 .. k] = HalfSizeAt(k) * (2 * Coarse(q, k) + 1)}
  <2>8. 0 \in G
    <3>1. 1 .. 0 = {} /\ 2^(10 - 0) = 1024 /\ q \div 1024 = 0 /\ 0 \in 0 .. 10
      BY <2>1
    <3>2. HalfSizeAt(0) = 1024
      <4>1. HalfSizeAt(0) = 2^(10 - 0)
        BY Constants DEF HalfSizeAt
      <4> QED
        BY <3>1, <4>1
    <3>3. Coarse(q, 0) = 0
      BY <3>1 DEF Coarse
    <3> QED
      BY <2>7, <3>1, <3>2, <3>3
  <2>9. ASSUME NEW k \in 0 .. level - 1, k \in G
        PROVE  k + 1 \in G
    <3>1. PICK m : m = k + 1 /\ m \in 1 .. 10 /\ m - 1 = k /\ m \in S /\ m \in Nat /\ m > 0
      OBVIOUS
    <3>2. 1 .. m \in SUBSET S /\ m \in 1 .. m /\ (1 .. m) \ {m} = 1 .. k /\ 1 .. k \in SUBSET S
      BY <3>1
    <3>3. PICK s, t : s = h[1 .. k] /\ t = h[1 .. m] /\ s \in Int
      BY <2>7, <3>2
    <3>4. t = f[m] + s
      <4>1. h[1 .. m] = f[m] + h[(1 .. m) \ {m}]
        BY <2>7, <3>2
      <4> QED
        BY <3>2, <3>3, <4>1
    <3>5. PICK w, u : w = HalfSizeAt(m) /\ u = HalfSizeAt(k) /\ w \in {1, 2, 4, 8, 16, 32, 64, 128, 256, 512, 1024} /\ u = 2 * w
      BY <3>1, HalfSizes
    <3>6. PICK x, y, b : x = Coarse(q, m) /\ y = Coarse(q, k) /\ b = x % 2
      OBVIOUS
    <3>7. y \in Nat /\ x = 2 * y + b /\ b \in 0 .. 1
      <4>1. q \in 0 .. 1023 /\ m \in 1 .. 10
        BY <2>1, <3>1
      <4>2. /\ q \div 2^(10 - (m - 1)) \in Nat
            /\ q \div 2^(10 - m) = 2 * (q \div 2^(10 - (m - 1))) + ((q \div 2^(10 - m)) % 2)
            /\ (q \div 2^(10 - m)) % 2 \in 0 .. 1
        BY <4>1, PlaceStep, Zenon
      <4> QED
        BY <3>1, <3>6, <4>2 DEF Coarse
    <3>8. f[m] = IF b = 1 THEN w ELSE -w
      BY <2>3, <3>1, <3>5, <3>6
    <3>9. PICK o : o = HalfSizeAt(0) /\ o \in Nat
      <4>1. 0 \in 0 .. level
        OBVIOUS
      <4> QED
        BY <2>4, <4>1
    <3>10. o + s = u * (2 * y + 1)
      BY <2>9, <3>3, <3>5, <3>6, <3>9
    <3>11. o + t = w * (2 * x + 1)
      <4>1. CASE b = 1
        <5>1. t = w + s /\ x = 2 * y + 1
          BY <3>4, <3>7, <3>8, <4>1
        <5>2. o + t = w + (2 * w) * (2 * y + 1)
          BY <3>3, <3>5, <3>9, <3>10, <5>1, <3>7
        <5> QED
          BY <3>5, <3>7, <5>1, <5>2
      <4>2. CASE b = 0
        <5>1. t = -w + s /\ x = 2 * y
          BY <3>4, <3>7, <3>8, <4>2
        <5>2. o + t = (2 * w) * (2 * y + 1) - w
          BY <3>3, <3>5, <3>9, <3>10, <5>1, <3>7
        <5>3. (2 * w) * (2 * y + 1) - w = w * (2 * (2 * y) + 1)
          BY <3>5, <3>7
        <5> QED
          BY <5>1, <5>2, <5>3
      <4> QED
        BY <3>7, <4>1, <4>2
    <3> QED
      BY <3>1, <3>3, <3>5, <3>6, <3>9, <3>11
  <2>10. level \in G
    <3> HIDE DEF G
    <3>1. \A k \in 0 .. level - 1 : k \in G => k + 1 \in G
      BY <2>9
    <3>2. 0 .. level \subseteq G
      BY <2>8, <3>1, NatInductionUpTo
    <3> QED
      BY <3>2
  <2> QED
    BY <2>1, <2>2, <2>6, <2>10
<1> HIDE DEF move
<1> QED
  BY <1>1, <1>2

(* The place of a cell from its centre and its size. *)
LEMMA DivBack ==
  ASSUME NEW w \in {1, 2, 4, 8, 16, 32, 64, 128, 256, 512, 1024}, NEW c \in Nat
  PROVE  (w * (2 * c + 1) - w) \div (2 * w) = c
<1>1. CASE w = 1
  BY <1>1
<1>2. CASE w = 2
  BY <1>2
<1>3. CASE w = 4
  BY <1>3
<1>4. CASE w = 8
  BY <1>4
<1>5. CASE w = 16
  BY <1>5
<1>6. CASE w = 32
  BY <1>6
<1>7. CASE w = 64
  BY <1>7
<1>8. CASE w = 128
  BY <1>8
<1>9. CASE w = 256
  BY <1>9
<1>10. CASE w = 512
  BY <1>10
<1>11. CASE w = 1024
  BY <1>11
<1> QED
  BY <1>1, <1>2, <1>3, <1>4, <1>5, <1>6, <1>7, <1>8, <1>9, <1>10, <1>11

(* A node with the level, the size and the centre of a particle's cell is at that cell. *)
LEMMA CellOfNode ==
  ASSUME Boxing, NEW p \in Particles, NEW level, level \in 0 .. 10, NEW n,
         octree.level[n] = level, octree.halfSize[n] = HalfSizeAt(level),
         octree.centre[n] = Centre(mortonPrefixAtLevel(KeyOf(p), level), level)
  PROVE  CellAt(n) = CellOf(p, level) /\ IsExactCell(n)
<1>1. PICK w : w = HalfSizeAt(level) /\ w = 2^(10 - level) /\ w \in {1, 2, 4, 8, 16, 32, 64, 128, 256, 512, 1024}
  BY HalfSizes
<1>2. ASSUME NEW a \in Axes
      PROVE  Coarse(PlaceOf(p, a), level) \in Nat
  <2>1. PICK q : q = PlaceOf(p, a) /\ q \in 0 .. 1023
    BY MortonBits
  <2>2. q \div w \in Nat
    BY <1>1, <2>1
  <2>3. Coarse(q, level) = q \div w
    BY <1>1 DEF Coarse
  <2> QED
    BY <2>1, <2>2, <2>3
<1>3. \A a \in Axes : octree.centre[n][a] = w * (2 * Coarse(PlaceOf(p, a), level) + 1)
  <2>1. octree.centre[n] = [a \in Axes |-> HalfSizeAt(level) * (2 * Coarse(PlaceOf(p, a), level) + 1)]
    BY CentreIs
  <2> QED
    BY <1>1, <2>1
<1>4. ASSUME NEW a \in Axes
      PROVE  (octree.centre[n][a] - octree.halfSize[n]) \div (2 * octree.halfSize[n]) = Coarse(PlaceOf(p, a), level)
  <2>1. PICK c : c = Coarse(PlaceOf(p, a), level) /\ c \in Nat
    BY <1>2
  <2>2. octree.centre[n][a] = w * (2 * c + 1) /\ octree.halfSize[n] = w
    BY <1>1, <1>3, <2>1
  <2>3. (w * (2 * c + 1) - w) \div (2 * w) = c
    BY <1>1, <2>1, DivBack
  <2> QED
    BY <2>1, <2>2, <2>3
<1>5. CellOf(p, level) = [level |-> level, at |-> [a \in Axes |-> Coarse(PlaceOf(p, a), level)]]
  BY Constants DEF CellOf, Coarse, PlaceOf
<1>6. CellAt(n) = [level |-> level, at |-> [a \in Axes |-> Coarse(PlaceOf(p, a), level)]]
  BY <1>4 DEF CellAt
<1>7. IsExactCell(n)
  <2>1. octree.halfSize[n] = 2^(kOctreeMaxLevel - octree.level[n])
    BY <1>1, Constants
  <2>2. \A a \in Axes : CellAt(n).at[a] = Coarse(PlaceOf(p, a), level)
    BY <1>6
  <2> QED
    BY <1>1, <1>3, <2>1, <2>2 DEF IsExactCell
<1> QED
  BY <1>5, <1>6, <1>7

=============================================================================

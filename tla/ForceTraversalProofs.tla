------------------------ MODULE ForceTraversalProofs ------------------------
(***************************************************************************)
(* The traversal of the octree, for every layout of the particles, every   *)
(* choice of particles without mass and whatever nodes are accepted: it    *)
(* adds every other body exactly once and finds nothing malformed.  What   *)
(* it knows of the octree is IsSparseOctree, which the construction        *)
(* reaches (OctreeIsBuilt).                                                *)
(***************************************************************************)
EXTENDS OctreeBuilderProofs, SequenceTheorems

(* The nodes of a climb of N steps from n; nothing is above the root. *)
Climb(n, N) ==
  LET up == [octree.parent EXCEPT ![Root] = Root]
      above[k \in 0 .. N] == IF k = 0 THEN n ELSE up[above[k - 1]]
  IN above

(* Such a function exists for every bound, so Climb is one. *)
LEMMA ClimbIs ==
  ASSUME NEW n, NEW N \in Nat
  PROVE  Climb(n, N) =
           [k \in 0 .. N |-> IF k = 0 THEN n ELSE [octree.parent EXCEPT ![Root] = Root][Climb(n, N)[k - 1]]]
<1> DEFINE up == [octree.parent EXCEPT ![Root] = Root]
<1>1. PICK g : g = [k \in 0 .. N |-> IF k = 0 THEN n ELSE up[g[k - 1]]]
  <2> HIDE DEF up
  <2>1. PICK g : Climbs(g, up, n, N)
    BY ClimbExists
  <2> QED
    BY <2>1 DEF Climbs
<1>2. Climb(n, N) = CHOOSE f : f = [k \in 0 .. N |-> IF k = 0 THEN n ELSE up[f[k - 1]]]
  BY DEF Climb
<1> HIDE DEF up
<1>3. Climb(n, N) = [k \in 0 .. N |-> IF k = 0 THEN n ELSE up[Climb(n, N)[k - 1]]]
  BY <1>1, <1>2
<1> QED
  BY <1>3 DEF up

----------------------------------------------------------------------------
(* The nodes of the octree *)

Sound == positions \in Layouts /\ box = Bbox(positions) /\ IsSparseOctree

(* A node is the cell of some particle at the node's level. *)
LEMMA NodeCells ==
  ASSUME Sound
  PROVE  /\ Particles # {}
         /\ \A n \in Nodes : /\ octree.level[n] \in 0 .. 10
                             /\ CellAt(n).level = octree.level[n]
                             /\ \E p \in Particles : CellAt(n) = CellOf(p, octree.level[n])
         /\ \A n \in Nodes : n \in Nat
<1>1. Particles # {}
  BY LayoutAssumption DEF Sound, Particles
<1>2. \A c \in OccupiedCells : \E p \in Particles, l \in 0 .. 10 : c = CellOf(p, l) /\ c.level = l
  BY DEF OccupiedCells, CellOf, kOctreeMaxLevel, kMortonBitsPerAxis
<1>3. \A n \in Nodes : CellAt(n) \in OccupiedCells
  BY DEF Sound, IsSparseOctree
<1>4. \A n \in Nodes : CellAt(n).level = octree.level[n]
  BY DEF CellAt
<1>5. \A n \in Nodes : n \in Nat
  BY DEF Sound, IsSparseOctree
<1> QED
  BY <1>1, <1>2, <1>3, <1>4, <1>5

(* The root is the one node of level 0; a node's parent is a level above it. *)
LEMMA NodeLevels ==
  ASSUME Sound
  PROVE  /\ Root \in Nodes /\ NoNode \notin Nodes
         /\ \A n \in Nodes : octree.level[n] = 0 <=> n = Root
         /\ \A n \in Nodes \ {Root} :
              octree.parent[n] \in Nodes /\ octree.level[octree.parent[n]] = octree.level[n] - 1
<1>1. \A n \in Nodes \ {Root} :
        octree.parent[n] \in Nodes /\ octree.level[octree.parent[n]] = octree.level[n] - 1
  BY DEF Sound, IsSparseOctree, CellAt, Enclosing
<1>2. \A n \in Nodes : octree.level[n] = 0 => n = Root
  BY <1>1, NodeCells
<1>3. PICK p \in Particles : TRUE
  BY NodeCells
<1>4. CellOf(p, 0) \in OccupiedCells
  BY DEF OccupiedCells
<1>5. PICK n \in Nodes : CellAt(n) = CellOf(p, 0)
  BY <1>4 DEF Sound, IsSparseOctree
<1>6. octree.level[n] = 0
  BY <1>5 DEF CellAt, CellOf
<1>7. NoNode \notin Nodes
  BY NodeCells DEF NoNode
<1> QED
  BY <1>1, <1>2, <1>5, <1>6, <1>7

(* A climb stays among the nodes and gains a level with each step, up to the root. *)
LEMMA ClimbLevels ==
  ASSUME Sound, NEW n \in Nodes, NEW N \in Nat
  PROVE  /\ Climb(n, N)[0] = n
         /\ \A k \in 0 .. N : /\ Climb(n, N)[k] \in Nodes
                              /\ octree.level[Climb(n, N)[k]] =
                                   IF k <= octree.level[n] THEN octree.level[n] - k ELSE 0
         /\ \A k \in 0 .. N - 1 :
              Climb(n, N)[k + 1] = IF Climb(n, N)[k] = Root THEN Root ELSE octree.parent[Climb(n, N)[k]]
<1> DEFINE f == Climb(n, N)
           L == octree.level
           up == [octree.parent EXCEPT ![Root] = Root]
           G == {k \in 0 .. N : f[k] \in Nodes /\ L[f[k]] = IF k <= L[n] THEN L[n] - k ELSE 0}
<1>1. f = [k \in 0 .. N |-> IF k = 0 THEN n ELSE up[f[k - 1]]]
  BY ClimbIs
<1>2. \A m \in Nodes : up[m] = IF m = Root THEN Root ELSE octree.parent[m]
  BY DEF Nodes
<1>3. /\ L[n] \in 0 .. 10 /\ Root \in Nodes /\ L[Root] = 0
      /\ \A m \in Nodes : m # Root => octree.parent[m] \in Nodes /\ L[octree.parent[m]] = L[m] - 1 /\ L[m] # 0
  BY NodeCells, NodeLevels
<1> HIDE DEF f, L, up
<1>4. f[0] = n /\ \A k \in 0 .. N - 1 : f[k + 1] = up[f[k]]
  <2>1. \A k \in 0 .. N : f[k] = IF k = 0 THEN n ELSE up[f[k - 1]]
    BY <1>1
  <2>2. ASSUME NEW k \in 0 .. N - 1
        PROVE  f[k + 1] = up[f[k]]
    <3>1. k + 1 \in 0 .. N /\ k + 1 # 0 /\ (k + 1) - 1 = k
      OBVIOUS
    <3> QED
      BY <2>1, <3>1
  <2> QED
    BY <2>1, <2>2
<1>5. 0 \in G
  BY <1>3, <1>4
<1>6. ASSUME NEW k \in 0 .. N - 1, k \in G
      PROVE  k + 1 \in G
  <2>1. f[k] \in Nodes /\ L[f[k]] = IF k <= L[n] THEN L[n] - k ELSE 0
    BY <1>6
  <2>2. f[k + 1] = IF f[k] = Root THEN Root ELSE octree.parent[f[k]]
    BY <1>2, <1>4, <2>1
  <2>3. f[k + 1] \in Nodes /\ L[f[k + 1]] = IF k + 1 <= L[n] THEN L[n] - (k + 1) ELSE 0
    <3>1. CASE f[k] = Root
      BY <1>3, <2>1, <2>2, <3>1
    <3>2. CASE f[k] # Root
      BY <1>3, <2>1, <2>2, <3>2
    <3> QED
      BY <3>1, <3>2
  <2> QED
    BY <2>3
<1>7. 0 .. N \subseteq G
  <2> HIDE DEF G
  <2> QED
    BY <1>5, <1>6, NatInductionUpTo
<1> QED
  BY <1>2, <1>4, <1>7 DEF f, L

(* A node's ancestry is the node and its parent's ancestry; the root's is the root. *)
LEMMA AncestryIs ==
  ASSUME Sound, NEW n \in Nodes
  PROVE  /\ n \in Ancestry(n) /\ Ancestry(n) \subseteq Nodes
         /\ n = Root => Ancestry(n) = {Root}
         /\ n # Root => Ancestry(n) = {n} \cup Ancestry(octree.parent[n])
<1> DEFINE L == octree.level
           f(m) == Climb(m, 10)
<1>1. \A m : Ancestry(m) = {f(m)[k] : k \in 0 .. 10}
  BY DEF Ancestry, Climb, kOctreeMaxLevel, kMortonBitsPerAxis
<1>2. \A m \in Nodes :
        /\ f(m)[0] = m
        /\ \A k \in 0 .. 10 : f(m)[k] \in Nodes /\ L[f(m)[k]] = IF k <= L[m] THEN L[m] - k ELSE 0
        /\ \A k \in 0 .. 9 : f(m)[k + 1] = IF f(m)[k] = Root THEN Root ELSE octree.parent[f(m)[k]]
  <2>1. 10 \in Nat /\ 10 - 1 = 9
    OBVIOUS
  <2> QED
    BY <2>1, ClimbLevels
<1>3. /\ \A m \in Nodes : L[m] \in 0 .. 10 /\ (L[m] = 0 <=> m = Root)
      /\ \A m \in Nodes \ {Root} : octree.parent[m] \in Nodes /\ L[octree.parent[m]] = L[m] - 1
  BY NodeCells, NodeLevels
<1> HIDE DEF f, L
<1>4. n \in Ancestry(n) /\ Ancestry(n) \subseteq Nodes
  <2>1. 0 \in 0 .. 10 /\ f(n)[0] = n /\ \A k \in 0 .. 10 : f(n)[k] \in Nodes
    BY <1>2
  <2> QED
    BY <1>1, <2>1
<1>5. ASSUME n = Root
      PROVE  Ancestry(n) = {Root}
  <2>1. \A k \in 0 .. 10 : L[f(n)[k]] = 0
    <3>1. L[n] = 0
      BY <1>3, <1>5
    <3>2. \A k \in 0 .. 10 : L[f(n)[k]] = IF k <= 0 THEN 0 - k ELSE 0
      BY <1>2, <3>1
    <3> QED
      BY <3>2
  <2>2. \A k \in 0 .. 10 : f(n)[k] = Root
    BY <1>2, <1>3, <2>1
  <2> QED
    BY <1>1, <2>2
<1>6. ASSUME n # Root
      PROVE  Ancestry(n) = {n} \cup Ancestry(octree.parent[n])
  <2> DEFINE m == octree.parent[n]
             G == {k \in 0 .. 9 : f(m)[k] = f(n)[k + 1]}
  <2>1. m \in Nodes /\ L[m] = L[n] - 1 /\ L[n] \in 0 .. 10 /\ L[m] \in 0 .. 10
    BY <1>3, <1>6
  <2>2. 0 \in G
    <3>1. f(n)[0 + 1] = m
      <4>1. 0 \in 0 .. 9
        OBVIOUS
      <4>2. f(n)[0 + 1] = IF f(n)[0] = Root THEN Root ELSE octree.parent[f(n)[0]]
        BY <1>2, <4>1
      <4> QED
        BY <1>2, <1>6, <4>2
    <3> QED
      BY <1>2, <2>1, <3>1
  <2>3. ASSUME NEW k \in 0 .. 8, k \in G
        PROVE  k + 1 \in G
    <3>1. f(m)[k + 1] = IF f(m)[k] = Root THEN Root ELSE octree.parent[f(m)[k]]
      BY <1>2, <2>1
    <3>2. f(n)[(k + 1) + 1] = IF f(n)[k + 1] = Root THEN Root ELSE octree.parent[f(n)[k + 1]]
      BY <1>2
    <3>3. f(m)[k] = f(n)[k + 1]
      BY <2>3
    <3> QED
      BY <3>1, <3>2, <3>3
  <2>4. 0 .. 9 \subseteq G
    <3>1. 9 - 1 = 8 /\ 9 \in Nat
      OBVIOUS
    <3> HIDE DEF G
    <3> QED
      BY <2>2, <2>3, <3>1, NatInductionUpTo
  <2>5. \A k \in 0 .. 9 : f(m)[k] = f(n)[k + 1]
    BY <2>4
  <2>6. f(m)[10] = Root /\ f(m)[9] = Root
    <3>1. L[f(m)[10]] = 0 /\ L[f(m)[9]] = 0
      BY <1>2, <2>1
    <3> QED
      BY <1>2, <1>3, <2>1, <3>1
  <2> HIDE DEF m, G
  <2>7. {f(n)[k] : k \in 0 .. 10} = {n} \cup {f(n)[k + 1] : k \in 0 .. 9}
    <3>1. \A k \in 0 .. 10 : k = 0 \/ (k - 1 \in 0 .. 9 /\ (k - 1) + 1 = k)
      OBVIOUS
    <3>2. \A k \in 0 .. 9 : k + 1 \in 0 .. 10
      OBVIOUS
    <3>3. f(n)[0] = n
      BY <1>2
    <3> QED
      BY <3>1, <3>2, <3>3
  <2>8. {f(m)[k] : k \in 0 .. 10} = {f(m)[k] : k \in 0 .. 9}
    <3>1. \A k \in 0 .. 10 : k = 10 \/ k \in 0 .. 9
      OBVIOUS
    <3> QED
      BY <2>6, <3>1
  <2>9. {f(m)[k] : k \in 0 .. 9} = {f(n)[k + 1] : k \in 0 .. 9}
    BY <2>5
  <2> QED
    BY <1>1, <2>7, <2>8, <2>9 DEF m
<1> QED
  BY <1>4, <1>5, <1>6

(* What holds of the root, and of every node whose parent it holds of, holds of all nodes. *)
LEMMA NodeInduction ==
  ASSUME Sound, NEW G, Root \in G, \A n \in Nodes \ {Root} : octree.parent[n] \in G => n \in G
  PROVE  Nodes \subseteq G
<1> DEFINE H == {l \in 0 .. 10 : \A n \in Nodes : octree.level[n] = l => n \in G}
<1>1. 0 \in H
  BY NodeLevels
<1>2. ASSUME NEW l \in 0 .. 9, l \in H
      PROVE  l + 1 \in H
  <2>1. ASSUME NEW n \in Nodes, octree.level[n] = l + 1
        PROVE  n \in G
    <3>1. n # Root
      BY <2>1, NodeLevels
    <3>2. octree.parent[n] \in Nodes /\ octree.level[octree.parent[n]] = l
      BY <2>1, <3>1, NodeLevels
    <3> QED
      BY <1>2, <3>1, <3>2
  <2> QED
    BY <2>1
<1>3. 0 .. 10 \subseteq H
  <2>1. 10 \in Nat /\ 10 - 1 = 9
    OBVIOUS
  <2> HIDE DEF H
  <2> QED
    BY <1>1, <1>2, <2>1, NatInductionUpTo
<1> QED
  BY <1>3, NodeCells

(* The slots hold the nodes whose parent is the slots' node, each once. *)
LEMMA Slots ==
  ASSUME Sound, NEW n \in Nodes
  PROVE  /\ \A o \in Octants : LET c == octree.children[n][o]
                               IN  c # NoNode => /\ c \in Nodes \ {Root} /\ octree.parent[c] = n
                                                 /\ OctantOf(CellAt(c)) = o
         /\ \A c \in ChildrenOf(n) : /\ c \in Nodes \ {Root} /\ octree.parent[c] = n
                                     /\ OctantOf(CellAt(c)) \in Octants
                                     /\ octree.children[n][OctantOf(CellAt(c))] = c
         /\ n # Root => n \in ChildrenOf(octree.parent[n])
<1>1. \A o \in Octants : LET c == octree.children[n][o]
                         IN  c # NoNode => /\ c \in Nodes \ {Root} /\ octree.parent[c] = n
                                           /\ OctantOf(CellAt(c)) = o
  BY DEF Sound, IsSparseOctree
<1>2. \A c \in ChildrenOf(n) : \E o \in Octants : c = octree.children[n][o] /\ c # NoNode
  BY DEF ChildrenOf
<1>3. \A c \in ChildrenOf(n) : /\ c \in Nodes \ {Root} /\ octree.parent[c] = n
                               /\ OctantOf(CellAt(c)) \in Octants
                               /\ octree.children[n][OctantOf(CellAt(c))] = c
  BY <1>1, <1>2
<1>4. n # Root => n \in ChildrenOf(octree.parent[n])
  <2> SUFFICES ASSUME n # Root
               PROVE  n \in ChildrenOf(octree.parent[n])
    OBVIOUS
  <2>1. octree.children[octree.parent[n]][OctantOf(CellAt(n))] = n
    BY DEF Sound, IsSparseOctree
  <2>2. \A x \in 0 .. 1, y \in 0 .. 1, z \in 0 .. 1 : 4 * x + 2 * y + z \in 0 .. 7
    OBVIOUS
  <2>3. PICK p \in Particles : CellAt(n) = CellOf(p, octree.level[n])
    BY NodeCells
  <2>4. \A a \in Axes : CellAt(n).at[a] \in Int
    <3>1. \A a \in Axes : Quantised(box, a, positions[p][a]) \in 0 .. 1023
      BY QuantisedIs DEF Sound
    <3>2. 10 - octree.level[n] \in 0 .. 9
      BY NodeCells, NodeLevels
    <3>3. 2^(10 - octree.level[n]) \in Nat \ {0}
      BY <3>2, Widths
    <3>4. \A x \in 0 .. 1023, w \in Nat \ {0} : x \div w \in Int
      OBVIOUS
    <3>5. \A a \in Axes : Quantised(box, a, positions[p][a]) \div 2^(10 - octree.level[n]) \in Int
      BY <3>1, <3>3, <3>4
    <3> QED
      BY <2>3, <3>5 DEF CellOf, kOctreeMaxLevel, kMortonBitsPerAxis
  <2>5. \A a \in Axes : CellAt(n).at[a] % 2 \in 0 .. 1
    BY <2>4
  <2>6. OctantOf(CellAt(n)) \in Octants
    BY <2>2, <2>5 DEF OctantOf, Octants, Axes
  <2> QED
    BY <2>1, <2>6, NodeLevels DEF ChildrenOf
<1> QED
  BY <1>1, <1>3, <1>4

(* The ancestry of an ancestor is part of a node's ancestry. *)
LEMMA AncestryTransitive ==
  ASSUME Sound, NEW m \in Nodes, NEW n \in Ancestry(m)
  PROVE  n \in Nodes /\ Ancestry(n) \subseteq Ancestry(m)
<1> DEFINE G == {x \in Nodes : \A y \in Ancestry(x) : Ancestry(y) \subseteq Ancestry(x)}
<1>1. Root \in G
  BY NodeLevels, AncestryIs
<1>2. ASSUME NEW x \in Nodes \ {Root}, octree.parent[x] \in G
      PROVE  x \in G
  <2>1. Ancestry(x) = {x} \cup Ancestry(octree.parent[x])
    BY AncestryIs
  <2> QED
    BY <1>2, <2>1
<1>3. Nodes \subseteq G
  <2> HIDE DEF G
  <2> QED
    BY <1>1, <1>2, NodeInduction
<1> QED
  BY <1>3, AncestryIs

(* The path from an ancestor down to a node begins with a child of the ancestor. *)
LEMMA AncestryChild ==
  ASSUME Sound, NEW m \in Nodes, NEW n \in Ancestry(m), n # m
  PROVE  \E c \in ChildrenOf(n) : c \in Ancestry(m)
<1> DEFINE G == {x \in Nodes : \A y \in Ancestry(x) \ {x} : \E c \in ChildrenOf(y) : c \in Ancestry(x)}
<1>1. Root \in G
  BY NodeLevels, AncestryIs
<1>2. ASSUME NEW x \in Nodes \ {Root}, octree.parent[x] \in G
      PROVE  x \in G
  <2>1. Ancestry(x) = {x} \cup Ancestry(octree.parent[x])
    BY AncestryIs
  <2>2. x \in ChildrenOf(octree.parent[x])
    BY Slots
  <2>3. \A y \in Ancestry(x) \ {x} : \E c \in ChildrenOf(y) : c \in Ancestry(x)
    <3> SUFFICES ASSUME NEW y \in Ancestry(x) \ {x}
                 PROVE  \E c \in ChildrenOf(y) : c \in Ancestry(x)
      OBVIOUS
    <3>1. CASE y = octree.parent[x]
      BY <2>1, <2>2, <3>1
    <3>2. CASE y # octree.parent[x]
      BY <1>2, <2>1, <3>2
    <3> QED
      BY <3>1, <3>2
  <2> QED
    BY <2>3
<1>3. Nodes \subseteq G
  <2> HIDE DEF G
  <2> QED
    BY <1>1, <1>2, NodeInduction
<1> QED
  BY <1>3

(* The cell of an ancestor holds what the cell of the node holds. *)
LEMMA AncestryCells ==
  ASSUME Sound, NEW m \in Nodes, NEW n \in Ancestry(m)
  PROVE  Inside(CellAt(m)) \subseteq Inside(CellAt(n))
<1> DEFINE G == {x \in Nodes : \A y \in Ancestry(x) : Inside(CellAt(x)) \subseteq Inside(CellAt(y))}
<1>1. Root \in G
  BY NodeLevels, AncestryIs
<1>2. ASSUME NEW x \in Nodes \ {Root}, octree.parent[x] \in G
      PROVE  x \in G
  <2> DEFINE l == octree.level[x]
  <2>1. l \in 1 .. 10 /\ CellAt(x).level = l
    BY NodeCells, NodeLevels
  <2>2. /\ CellAt(octree.parent[x]) = Enclosing(CellAt(x))
        /\ CellAt(octree.parent[x]).level = l - 1
    <3>1. octree.parent[x] \in Nodes /\ octree.level[octree.parent[x]] = l - 1
      BY NodeLevels
    <3> QED
      BY <3>1, NodeCells DEF Sound, IsSparseOctree
  <2> HIDE DEF l
  <2>3. ASSUME NEW p \in Inside(CellAt(x))
        PROVE  p \in Inside(CellAt(octree.parent[x]))
    <3>1. p \in Particles /\ CellOf(p, l) = CellAt(x)
      BY <2>1 DEF Inside
    <3>2. Enclosing(CellOf(p, l)) = CellOf(p, l - 1)
      BY <2>1, <3>1, CellsNest DEF Sound
    <3> QED
      BY <2>2, <3>1, <3>2 DEF Inside
  <2>4. Ancestry(x) = {x} \cup Ancestry(octree.parent[x])
    BY AncestryIs
  <2> QED
    BY <1>2, <2>3, <2>4
<1>3. Nodes \subseteq G
  <2> HIDE DEF G
  <2> QED
    BY <1>1, <1>2, NodeInduction
<1> QED
  BY <1>3

----------------------------------------------------------------------------
(* The particles below a node *)

(* A particle is below a node when it is in a leaf that has the node in its ancestry. *)
LEMMA BelowIs ==
  ASSUME NEW n, NEW p
  PROVE  p \in ParticlesBelow(n) <=> \E m \in Nodes : IsLeaf(m) /\ n \in Ancestry(m) /\ p \in ParticlesOf(m)
BY DEF ParticlesBelow

(* They lie in the node's cell, and an ancestor has them too. *)
LEMMA BelowInside ==
  ASSUME Sound, NEW n \in Nodes
  PROVE  /\ ParticlesBelow(n) \subseteq Inside(CellAt(n))
         /\ \A a \in Ancestry(n) : ParticlesBelow(n) \subseteq ParticlesBelow(a)
<1>1. \A m \in Nodes : IsLeaf(m) => ParticlesOf(m) = Inside(CellAt(m))
  BY DEF Sound, IsSparseOctree
<1>2. \A m \in Nodes : n \in Ancestry(m) => Inside(CellAt(m)) \subseteq Inside(CellAt(n))
  BY AncestryCells
<1>3. \A a \in Ancestry(n), m \in Nodes : n \in Ancestry(m) => a \in Ancestry(m)
  BY AncestryTransitive
<1> QED
  BY <1>1, <1>2, <1>3, BelowIs

(* Below a leaf are its own particles ... *)
LEMMA BelowLeaf ==
  ASSUME Sound, NEW n \in Nodes, IsLeaf(n)
  PROVE  ParticlesBelow(n) = ParticlesOf(n)
<1>1. ChildrenOf(n) = {}
  BY DEF Sound, IsSparseOctree
<1>2. \A m \in Nodes : n \in Ancestry(m) => m = n
  BY <1>1, AncestryChild
<1>3. n \in Ancestry(n)
  BY AncestryIs
<1>4. \A p : p \in ParticlesBelow(n) <=> p \in ParticlesOf(n)
  BY <1>2, <1>3, BelowIs
<1> QED
  BY <1>4

(* ... below any other node what is below its children. *)
LEMMA BelowInner ==
  ASSUME Sound, NEW n \in Nodes, ~IsLeaf(n)
  PROVE  ParticlesBelow(n) = UNION {ParticlesBelow(c) : c \in ChildrenOf(n)}
<1>1. ASSUME NEW p \in ParticlesBelow(n)
      PROVE  \E c \in ChildrenOf(n) : p \in ParticlesBelow(c)
  <2>1. PICK m \in Nodes : IsLeaf(m) /\ n \in Ancestry(m) /\ p \in ParticlesOf(m)
    BY BelowIs
  <2>2. PICK c \in ChildrenOf(n) : c \in Ancestry(m)
    BY <2>1, AncestryChild
  <2> QED
    BY <2>1, <2>2, BelowIs
<1>2. ASSUME NEW c \in ChildrenOf(n)
      PROVE  ParticlesBelow(c) \subseteq ParticlesBelow(n)
  <2>1. c \in Nodes \ {Root} /\ octree.parent[c] = n
    BY Slots
  <2>2. n \in Ancestry(c)
    BY <2>1, AncestryIs
  <2> QED
    BY <2>1, <2>2, BelowInside
<1> QED
  BY <1>1, <1>2

(* No particle is below two children of a node. *)
LEMMA SiblingsApart ==
  ASSUME Sound, NEW n \in Nodes, NEW c \in ChildrenOf(n), NEW d \in ChildrenOf(n), c # d
  PROVE  ParticlesBelow(c) \cap ParticlesBelow(d) = {}
<1>1. /\ c \in Nodes \ {Root} /\ d \in Nodes \ {Root} /\ octree.parent[c] = n /\ octree.parent[d] = n
      /\ octree.children[n][OctantOf(CellAt(c))] = c /\ octree.children[n][OctantOf(CellAt(d))] = d
  BY Slots
<1>2. /\ CellAt(c).level = octree.level[c] /\ CellAt(d).level = octree.level[d]
      /\ octree.level[c] \in 0 .. 10 /\ octree.level[d] \in 0 .. 10
      /\ octree.level[c] - 1 = octree.level[n] /\ octree.level[d] - 1 = octree.level[n]
  BY <1>1, NodeCells, NodeLevels
<1>3. CellAt(c).level = CellAt(d).level
  BY <1>2
<1>4. ASSUME NEW p \in Inside(CellAt(c)) \cap Inside(CellAt(d))
      PROVE  FALSE
  <2>1. CellAt(c) = CellAt(d)
    BY <1>3 DEF Inside
  <2> QED
    BY <1>1, <2>1
<1>5. ParticlesBelow(c) \subseteq Inside(CellAt(c)) /\ ParticlesBelow(d) \subseteq Inside(CellAt(d))
  BY <1>1, BelowInside
<1>6. \A p : ~ (p \in Inside(CellAt(c)) /\ p \in Inside(CellAt(d)))
  BY <1>4
<1> QED
  BY <1>5, <1>6

(* Every particle is below the root: the last of the cells around it that have nodes is a leaf's. *)
LEMMA BelowRoot ==
  ASSUME Sound
  PROVE  ParticlesBelow(Root) = Particles
<1>1. ParticlesBelow(Root) \subseteq Particles
  BY BelowInside, NodeLevels DEF Inside
<1>2. ASSUME NEW p \in Particles
      PROVE  p \in ParticlesBelow(Root)
  <2> DEFINE D == {k \in 0 .. 10 : CellOf(p, 10 - k) \in OccupiedCells}
  <2>1. 10 \in D
    BY DEF OccupiedCells
  <2>2. PICK k \in D : \A j \in D : k <= j
    <3>1. D \in SUBSET Nat /\ D # {}
      BY <2>1
    <3> HIDE DEF D
    <3> QED
      BY <3>1, NatLeast
  <2> DEFINE l == 10 - k
  <2>3. /\ l \in 0 .. 10 /\ CellOf(p, l) \in OccupiedCells
        /\ l < 10 => CellOf(p, l + 1) \notin OccupiedCells
    <3>1. k \in 0 .. 10 /\ CellOf(p, 10 - k) \in OccupiedCells
      OBVIOUS
    <3>2. ASSUME l < 10, CellOf(p, l + 1) \in OccupiedCells
          PROVE  FALSE
      <4>1. k - 1 \in 0 .. 10 /\ 10 - (k - 1) = l + 1
        BY <3>1, <3>2
      <4>2. k - 1 \in D
        BY <3>2, <4>1
      <4> QED
        BY <2>2, <3>1, <4>2
    <3> QED
      BY <3>1, <3>2
  <2> HIDE DEF l, D
  <2>4. PICK n \in Nodes : CellAt(n) = CellOf(p, l)
    BY <2>3 DEF Sound, IsSparseOctree
  <2>5. octree.level[n] = l /\ p \in Inside(CellAt(n))
    BY <2>4 DEF CellAt, CellOf, Inside
  <2>6. IsLeaf(n)
    <3> SUFFICES ASSUME ~IsLeaf(n)
                 PROVE  FALSE
      OBVIOUS
    <3>1. PICK c \in ChildrenOf(n) : TRUE
      BY DEF Sound, IsSparseOctree
    <3>2. c \in Nodes \ {Root} /\ octree.parent[c] = n
      BY Slots
    <3>3. octree.level[c] = l + 1 /\ l + 1 \in 1 .. 10 /\ CellAt(c).level = l + 1
      BY <2>3, <2>5, <3>2, NodeCells, NodeLevels
    <3>4. Enclosing(CellAt(c)) = CellOf(p, l)
      BY <2>4, <3>2 DEF Sound, IsSparseOctree
    <3>5. CellAt(c) \in OccupiedCells
      BY <3>2 DEF Sound, IsSparseOctree
    <3>6. l + 1 = 1 \/ ~OneKey(Inside(CellOf(p, l)))
      <4>1. \A q \in Particles : CellOf(q, 0).level = 0
        BY DEF CellOf
      <4> QED
        BY <3>3, <3>4, <3>5, <4>1 DEF OccupiedCells
    <3>7. Enclosing(CellOf(p, l + 1)) = CellOf(p, l) /\ CellOf(p, l + 1).level = l + 1
      <4>1. Enclosing(CellOf(p, l + 1)) = CellOf(p, (l + 1) - 1)
        BY <3>3, CellsNest DEF Sound
      <4>2. (l + 1) - 1 = l
        BY <2>3
      <4> QED
        BY <4>1, <4>2 DEF CellOf
    <3>8. CellOf(p, l + 1) \in OccupiedCells
      BY <3>3, <3>6, <3>7 DEF OccupiedCells, kOctreeMaxLevel, kMortonBitsPerAxis
    <3> QED
      BY <2>3, <3>3, <3>8
  <2>7. p \in ParticlesBelow(n)
    <3>1. ParticlesOf(n) = Inside(CellAt(n))
      BY <2>6 DEF Sound, IsSparseOctree
    <3> QED
      BY <2>5, <2>6, <3>1, BelowLeaf
  <2>8. Root \in Ancestry(n)
    <3> DEFINE G == {x \in Nodes : Root \in Ancestry(x)}
    <3>1. Root \in G
      BY AncestryIs, NodeLevels
    <3>2. \A x \in Nodes \ {Root} : octree.parent[x] \in G => x \in G
      BY AncestryIs
    <3>3. Nodes \subseteq G
      <4> HIDE DEF G
      <4> QED
        BY <3>1, <3>2, NodeInduction
    <3> QED
      BY <3>3
  <2> QED
    BY <2>7, <2>8, BelowInside
<1> QED
  BY <1>1, <1>2

----------------------------------------------------------------------------
(* The order of the traversal *)

(* There are more nodes than levels above any of them, so a climb reaches the root. *)
LEMMA Depth ==
  ASSUME Sound, NEW n \in Nodes
  PROVE  Cardinality(Nodes) \in Nat /\ octree.level[n] < Cardinality(Nodes)
<1> DEFINE L == octree.level[n]
           Cells == {CellOf(x[1], x[2]) : x \in Particles \X (0 .. 10)}
           cell == [x \in Particles \X (0 .. 10) |-> CellOf(x[1], x[2])]
           f == [k \in 0 .. L |-> Climb(n, L)[k]]
<1>1. IsFiniteSet(Particles) /\ IsFiniteSet(0 .. 10)
  <2>1. Particles = 0 .. Cardinality(Particles) - 1 /\ Cardinality(Particles) \in Nat
    BY LayoutAssumption DEF Sound, Particles
  <2>2. 0 \in Int /\ 10 \in Int /\ Cardinality(Particles) - 1 \in Int
    BY <2>1
  <2>3. IsFiniteSet(0 .. Cardinality(Particles) - 1) /\ IsFiniteSet(0 .. 10)
    BY <2>2, FS_Interval
  <2> QED
    BY <2>1, <2>3
<1>2. IsFiniteSet(Cells)
  <2>1. cell \in Surjection(Particles \X (0 .. 10), Cells)
    BY DEF Surjection
  <2> QED
    BY <1>1, <2>1, FS_Product, FS_Surjection
<1>3. OccupiedCells \subseteq Cells
  <2>1. \A p \in Particles, l \in 0 .. 10 : <<p, l>> \in Particles \X (0 .. 10)
    OBVIOUS
  <2>2. ASSUME NEW p \in Particles, NEW l \in 0 .. 10
        PROVE  CellOf(p, l) \in Cells
    <3>1. <<p, l>>[1] = p /\ <<p, l>>[2] = l
      OBVIOUS
    <3>2. CellOf(<<p, l>>[1], <<p, l>>[2]) \in Cells
      BY <2>1
    <3> HIDE DEF Cells
    <3> QED
      BY <3>1, <3>2
  <2> HIDE DEF Cells
  <2> QED
    BY <2>2 DEF OccupiedCells, kOctreeMaxLevel, kMortonBitsPerAxis
<1>4. Cardinality(OccupiedCells) \in Nat
  <2> HIDE DEF Cells
  <2> QED
    BY <1>2, <1>3, FS_Subset, FS_CardinalityType
<1>5. IsFiniteSet(Nodes) /\ Cardinality(Nodes) \in Nat
  <2>1. 0 \in Int /\ Cardinality(OccupiedCells) - 1 \in Int
    BY <1>4
  <2>2. IsFiniteSet(0 .. Cardinality(OccupiedCells) - 1)
    BY <2>1, FS_Interval
  <2>3. IsFiniteSet(Nodes)
    BY <2>2 DEF Sound, IsSparseOctree
  <2> QED
    BY <2>3, FS_CardinalityType
<1>6. L \in 0 .. 10
  BY NodeCells
<1>7. f \in Injection(0 .. L, Nodes)
  <2>1. L \in Nat
    BY <1>6
  <2>2. \A k \in 0 .. L : Climb(n, L)[k] \in Nodes /\ octree.level[Climb(n, L)[k]] = L - k
    <3> HIDE DEF L
    <3>1. \A k \in 0 .. L : Climb(n, L)[k] \in Nodes
                            /\ octree.level[Climb(n, L)[k]] = IF k <= L THEN L - k ELSE 0
      BY <2>1, ClimbLevels DEF L
    <3> QED
      BY <2>1, <3>1
  <2> HIDE DEF L
  <2>3. \A j, k \in 0 .. L : L - j = L - k => j = k
    BY <2>1
  <2> QED
    BY <2>2, <2>3 DEF Injection, IsInjective
<1>8. Cardinality(0 .. L) <= Cardinality(Nodes)
  <2> HIDE DEF f, L
  <2> QED
    BY <1>5, <1>7, FS_Injection
<1>9. Cardinality(0 .. L) = L + 1
  <2>1. 0 \in Int /\ L \in Int /\ ~ (0 > L) /\ L - 0 + 1 = L + 1
    BY <1>6
  <2> HIDE DEF L
  <2> QED
    BY <2>1, FS_Interval
<1> QED
  BY <1>5, <1>6, <1>8, <1>9

(* The particles below some slots of a node, those below the siblings that follow a node, and *)
(* all that follow below its ancestors.                                                       *)
Under(n, slots) == UNION {ParticlesBelow(octree.children[n][o]) : o \in slots}
Lower(n) == Under(octree.parent[n], LowerSlots(n))
After(n) == UNION {Lower(m) : m \in Ancestry(n) \ {Root}}

(* What follows a node is what is below its later siblings and what follows its parent. *)
LEMMA AfterIs ==
  ASSUME Sound, NEW n \in Nodes
  PROVE  /\ n = Root => After(n) = {}
         /\ n # Root => After(n) = Lower(n) \cup After(octree.parent[n])
<1>1. n = Root => Ancestry(n) \ {Root} = {}
  BY AncestryIs
<1>2. n # Root => Ancestry(n) \ {Root} = {n} \cup (Ancestry(octree.parent[n]) \ {Root})
  BY AncestryIs
<1> QED
  BY <1>1, <1>2 DEF After

(* The nodes in some slots of a node, and what then waits on the stack. *)
SlotNodes(n, slots) == {octree.children[n][o] : o \in slots}

(* At the root nothing waits; at another node its later siblings and what waits at its parent. *)
LEMMA WaitingIs ==
  ASSUME Sound, NEW n \in Nodes
  PROVE  /\ n = Root => Waiting(n) = {}
         /\ n # Root => Waiting(n) = SlotNodes(octree.parent[n], LowerSlots(n)) \cup Waiting(octree.parent[n])
<1>1. n = Root => Ancestry(n) \ {Root} = {}
  BY AncestryIs
<1>2. n # Root => Ancestry(n) \ {Root} = {n} \cup (Ancestry(octree.parent[n]) \ {Root})
  BY AncestryIs
<1>3. \A m : Waiting(m) = UNION {SlotNodes(octree.parent[a], LowerSlots(a)) : a \in Ancestry(m) \ {Root}}
  BY DEF Waiting, SlotNodes
<1> QED
  BY <1>1, <1>2, <1>3

(* The slots after a node's own, in a scan that finds nothing amiss. *)
LEMMA Scan ==
  ASSUME Sound, NEW n \in Nodes \ {Root}
  PROVE  /\ LowerSlots(n) = {o \in SlotsOf(octree.parent[n]) : o < OctantOf(CellAt(n))}
         /\ LinkError(n) = 0
<1> DEFINE m == octree.parent[n]
<1>1. m \in Nodes /\ n \in ChildrenOf(m) /\ NoNode \notin Nodes
  BY NodeLevels, Slots
<1>2. OctantOf(CellAt(n)) \in Octants /\ octree.children[m][OctantOf(CellAt(n))] = n
  BY <1>1, Slots
<1>3. \A o \in Octants : octree.children[m][o] = n => o = OctantOf(CellAt(n))
  BY <1>1, Slots
<1>4. \A o \in SlotsOf(m) : ValidChild(m, o)
  BY <1>1, Slots DEF SlotsOf, ValidChild
<1> HIDE DEF m
<1>5. LowerSlots(n) = {o \in SlotsOf(m) : o < OctantOf(CellAt(n))}
  BY <1>2, <1>3 DEF LowerSlots, m
<1>6. LinkError(n) = 0
  <2>1. {o \in Octants : octree.children[m][o] = n} # {}
    BY <1>2
  <2>2. ~ (\E o \in {o3 \in SlotsOf(m) : \A s \in {o2 \in Octants : octree.children[m][o2] = n} : o3 > s} :
             ~ValidChild(m, o))
    BY <1>4
  <2> QED
    BY <1>1, <2>1, <2>2 DEF LinkError, m
<1> QED
  BY <1>5, <1>6 DEF m

(* The highest of some slots of a node holds a child; what is below the child, and below the *)
(* siblings after it, is what is below all the slots that are not above it; so it is with    *)
(* what waits.                                                                               *)
LEMMA HighestSlot ==
  ASSUME Sound, NEW n \in Nodes, NEW slots \in SUBSET SlotsOf(n), slots # {},
         \A o \in SlotsOf(n), s \in slots : o < s => o \in slots
  PROVE  \E c \in ChildrenOf(n) :
           /\ HighestChild(n, slots) = To(c)
           /\ c \in Nodes \ {Root}
           /\ ParticlesBelow(c) \cup After(c) =
                Under(n, slots) \cup After(n)
           /\ Waiting(c) \cup {c} = SlotNodes(n, slots) \cup Waiting(n)
<1> DEFINE top == Max(slots)
           c == octree.children[n][top]
<1>1. top \in slots /\ \A o \in slots : o <= top
  <2>1. slots \subseteq 0 .. 7 /\ slots \subseteq Int
    BY DEF SlotsOf, Octants
  <2>2. IsFiniteSet(slots)
    <3>1. 0 \in Int /\ 7 \in Int
      OBVIOUS
    <3>2. IsFiniteSet(0 .. 7)
      BY <3>1, FS_Interval
    <3> QED
      BY <2>1, <3>2, FS_Subset
  <2>3. top \in slots /\ \A o \in slots : top >= o
    BY <2>1, <2>2, FiniteMax
  <2> HIDE DEF top
  <2> QED
    BY <2>1, <2>3
<1> HIDE DEF top
<1>2. top \in Octants /\ top \in SlotsOf(n) /\ c # NoNode
  BY <1>1 DEF SlotsOf
<1>3. /\ c \in Nodes \ {Root} /\ octree.parent[c] = n /\ OctantOf(CellAt(c)) = top
      /\ c \in ChildrenOf(n)
  BY <1>2, Slots DEF ChildrenOf
<1>4. HighestChild(n, slots) = To(c)
  BY <1>3 DEF HighestChild, ValidChild, top
<1>5. LowerSlots(c) = {o \in SlotsOf(n) : o < top}
  BY <1>3, Scan
<1> HIDE DEF c
<1>6. slots = {top} \cup LowerSlots(c)
  <2>1. \A o \in SlotsOf(n) : o \in Int
    BY DEF SlotsOf, Octants
  <2>2. \A o \in slots : o = top \/ o < top
    BY <1>1, <1>2, <2>1
  <2>3. \A o \in slots : o \in SlotsOf(n)
    OBVIOUS
  <2>4. \A o \in SlotsOf(n) : o < top => o \in slots
    BY <1>1
  <2> QED
    BY <1>1, <1>5, <2>2, <2>3, <2>4
<1>7. After(c) = Lower(c) \cup After(n)
  BY <1>3, AfterIs
<1>8. Lower(c) = Under(n, LowerSlots(c))
  BY <1>3 DEF Lower
<1>9. Under(n, slots) = ParticlesBelow(c) \cup Lower(c)
  <2>1. c = octree.children[n][top]
    BY DEF c
  <2> QED
    BY <1>6, <1>8, <2>1 DEF Under
<1>10. ParticlesBelow(c) \cup After(c) = Under(n, slots) \cup After(n)
  BY <1>7, <1>9
<1>11. Waiting(c) \cup {c} = SlotNodes(n, slots) \cup Waiting(n)
  <2>1. Waiting(c) = SlotNodes(n, LowerSlots(c)) \cup Waiting(n)
    BY <1>3, WaitingIs
  <2>2. c = octree.children[n][top]
    BY DEF c
  <2>3. SlotNodes(n, slots) = SlotNodes(n, LowerSlots(c)) \cup {c}
    BY <1>6, <2>2 DEF SlotNodes
  <2> QED
    BY <2>1, <2>3
<1> QED
  BY <1>3, <1>4, <1>10, <1>11

(* Opening a node passes over no particle. *)
LEMMA FirstChild ==
  ASSUME Sound, NEW n \in Nodes, ~IsLeaf(n)
  PROVE  \E c \in Nodes \ {Root} :
           /\ firstTraversalChild(n) = To(c)
           /\ ParticlesBelow(c) \cup After(c) = ParticlesBelow(n) \cup After(n)
           /\ Waiting(c) \cup {c} = SlotNodes(n, SlotsOf(n)) \cup Waiting(n)
<1>1. ChildrenOf(n) = {octree.children[n][o] : o \in SlotsOf(n)}
  BY DEF ChildrenOf, SlotsOf
<1>2. ChildrenOf(n) # {}
  BY DEF Sound, IsSparseOctree
<1>3. SlotsOf(n) # {}
  BY <1>1, <1>2
<1>4. firstTraversalChild(n) = HighestChild(n, SlotsOf(n))
  BY <1>3 DEF firstTraversalChild
<1>5. ParticlesBelow(n) = Under(n, SlotsOf(n))
  BY <1>1, BelowInner DEF Under
<1>6. PICK c \in ChildrenOf(n) :
           /\ HighestChild(n, SlotsOf(n)) = To(c)
           /\ c \in Nodes \ {Root}
           /\ ParticlesBelow(c) \cup After(c) =
                Under(n, SlotsOf(n)) \cup After(n)
           /\ Waiting(c) \cup {c} = SlotNodes(n, SlotsOf(n)) \cup Waiting(n)
  BY <1>3, HighestSlot
<1>7. ParticlesBelow(c) \cup After(c) = ParticlesBelow(n) \cup After(n)
  BY <1>5, <1>6
<1> QED
  BY <1>4, <1>6, <1>7

(* Leaving a node goes on with what follows it, or to the end when nothing does. *)
LEMMA NextNode ==
  ASSUME Sound, NEW n \in Nodes
  PROVE  \/ nextTraversalNode(n) = To(TraversalEnd) /\ After(n) = {} /\ Waiting(n) = {}
         \/ \E c \in Nodes \ {Root} :
              /\ nextTraversalNode(n) = To(c) /\ ParticlesBelow(c) \cup After(c) = After(n)
              /\ Waiting(c) \cup {c} = Waiting(n)
<1> DEFINE N == Cardinality(Nodes)
           f == Climb(n, N)
           stops(m) == m = Root \/ LinkError(m) # 0 \/ LowerSlots(m) # {}
           first == CHOOSE k \in DOMAIN f : stops(f[k]) /\ \A j \in 0 .. k - 1 : ~stops(f[j])
           stop == f[first]
<1>1. N \in Nat /\ octree.level[n] \in 0 .. N - 1
  BY Depth, NodeCells
<1>2. /\ DOMAIN f = 0 .. N
      /\ f[0] = n
      /\ \A k \in 0 .. N : /\ f[k] \in Nodes
                           /\ octree.level[f[k]] = IF k <= octree.level[n] THEN octree.level[n] - k ELSE 0
      /\ \A k \in 0 .. N - 1 : f[k + 1] = IF f[k] = Root THEN Root ELSE octree.parent[f[k]]
  <2> HIDE DEF N
  <2>1. DOMAIN f = 0 .. N
    BY <1>1, ClimbIs
  <2> QED
    BY <1>1, <2>1, ClimbLevels
<1>3. nextTraversalNode(n) =
        CASE stop = Root -> To(TraversalEnd)
          [] stop # Root /\ LinkError(stop) # 0 -> Malformed(LinkError(stop))
          [] OTHER -> HighestChild(octree.parent[stop], LowerSlots(stop))
  BY DEF nextTraversalNode, Climb
<1> HIDE DEF f, stops
<1>4. first \in 0 .. N /\ stops(f[first]) /\ \A j \in 0 .. first - 1 : ~stops(f[j])
  <2> DEFINE T == {k \in 0 .. N : stops(f[k])}
  <2>1. octree.level[n] \in T
    <3>1. octree.level[f[octree.level[n]]] = 0 /\ f[octree.level[n]] \in Nodes /\ octree.level[n] \in 0 .. N
      BY <1>1, <1>2
    <3> QED
      BY <3>1, NodeLevels DEF stops
  <2>2. PICK k \in T : \A j \in T : k <= j
    <3>1. T \in SUBSET Nat /\ T # {}
      BY <1>1, <2>1
    <3> HIDE DEF T
    <3> QED
      BY <3>1, NatLeast
  <2>3. \A j \in 0 .. k - 1 : ~stops(f[j])
    <3> SUFFICES ASSUME NEW j \in 0 .. k - 1, stops(f[j])
                 PROVE  FALSE
      OBVIOUS
    <3>1. k \in 0 .. N
      OBVIOUS
    <3>2. j \in T /\ j < k
      BY <1>1, <3>1
    <3> QED
      BY <2>2, <3>1, <3>2
  <2>4. k \in DOMAIN f /\ stops(f[k])
    BY <1>2
  <2> HIDE DEF T, N
  <2>5. first \in DOMAIN f /\ stops(f[first]) /\ \A j \in 0 .. first - 1 : ~stops(f[j])
    BY <2>3, <2>4
  <2> QED
    BY <1>2, <2>5
<1> HIDE DEF first, N
<1>5. stop \in Nodes /\ After(stop) = After(n) /\ Waiting(stop) = Waiting(n)
  <2> DEFINE G == {k \in 0 .. first : After(f[k]) = After(n) /\ Waiting(f[k]) = Waiting(n)}
  <2>1. 0 \in G
    BY <1>2, <1>4
  <2>2. ASSUME NEW k \in 0 .. first - 1, k \in G
        PROVE  k + 1 \in G
    <3>1. k \in 0 .. N - 1 /\ k + 1 \in 0 .. first /\ ~stops(f[k]) /\ f[k] \in Nodes
      BY <1>1, <1>2, <1>4
    <3>2. f[k] # Root /\ LowerSlots(f[k]) = {}
      BY <3>1 DEF stops
    <3>3. f[k + 1] = octree.parent[f[k]]
      BY <1>2, <3>1, <3>2
    <3>4. After(f[k]) = Lower(f[k]) \cup After(f[k + 1])
      BY <3>1, <3>2, <3>3, AfterIs
    <3>5. Lower(f[k]) = {}
      BY <3>2 DEF Lower, Under
    <3>6. Waiting(f[k]) = Waiting(f[k + 1])
      <4>1. Waiting(f[k]) = SlotNodes(octree.parent[f[k]], LowerSlots(f[k])) \cup Waiting(octree.parent[f[k]])
        BY <3>1, <3>2, WaitingIs
      <4>2. SlotNodes(octree.parent[f[k]], LowerSlots(f[k])) = {}
        BY <3>2 DEF SlotNodes
      <4> QED
        BY <3>3, <4>1, <4>2
    <3> QED
      BY <2>2, <3>1, <3>4, <3>5, <3>6
  <2>3. first \in Nat
    BY <1>4
  <2>4. 0 .. first \subseteq G
    <3> HIDE DEF G
    <3> QED
      BY <2>1, <2>2, <2>3, NatInductionUpTo
  <2> QED
    BY <1>2, <1>4, <2>3, <2>4
<1> HIDE DEF stop
<1>6. CASE stop = Root
  BY <1>3, <1>5, <1>6, AfterIs, WaitingIs
<1>7. CASE stop # Root
  <2> DEFINE m == octree.parent[stop]
             slots == LowerSlots(stop)
  <2>1. /\ LinkError(stop) = 0 /\ m \in Nodes
        /\ slots = {o \in SlotsOf(m) : o < OctantOf(CellAt(stop))}
    BY <1>5, <1>7, NodeLevels, Scan
  <2>2. slots # {}
    BY <1>4, <1>7, <2>1 DEF stops, stop
  <2>3. nextTraversalNode(n) = HighestChild(m, slots)
    BY <1>3, <1>7, <2>1
  <2>4. \A o \in SlotsOf(m), s \in slots : o < s => o \in slots
    <3>1. OctantOf(CellAt(stop)) \in Octants
      BY <1>5, <1>7, <2>1, Slots
    <3>2. \A o \in SlotsOf(m) : o \in Int
      BY DEF SlotsOf, Octants
    <3> QED
      BY <2>1, <3>1, <3>2 DEF Octants
  <2>5. Lower(stop) = Under(m, slots)
    BY DEF Lower
  <2>6. After(n) = Lower(stop) \cup After(m)
    BY <1>5, <1>7, AfterIs
  <2>7. slots \in SUBSET SlotsOf(m)
    BY <2>1
  <2>10. Waiting(n) = SlotNodes(m, slots) \cup Waiting(m)
    BY <1>5, <1>7, WaitingIs
  <2> HIDE DEF slots, m
  <2>8. PICK c \in ChildrenOf(m) :
           /\ HighestChild(m, slots) = To(c)
           /\ c \in Nodes \ {Root}
           /\ ParticlesBelow(c) \cup After(c) =
                Under(m, slots) \cup After(m)
           /\ Waiting(c) \cup {c} = SlotNodes(m, slots) \cup Waiting(m)
    BY <2>1, <2>2, <2>4, <2>7, HighestSlot
  <2>9. ParticlesBelow(c) \cup After(c) = After(n)
    BY <2>5, <2>6, <2>8
  <2> QED
    BY <2>3, <2>8, <2>9, <2>10
<1> QED
  BY <1>6, <1>7

(* Nothing below a node follows it. *)
LEMMA AfterApart ==
  ASSUME Sound, NEW n \in Nodes
  PROVE  ParticlesBelow(n) \cap After(n) = {}
<1> SUFFICES ASSUME NEW p \in ParticlesBelow(n), p \in After(n)
             PROVE  FALSE
  OBVIOUS
<1>1. PICK m \in Ancestry(n) \ {Root} : p \in Lower(m)
  BY DEF After
<1>2. PICK o \in LowerSlots(m) : p \in ParticlesBelow(octree.children[octree.parent[m]][o])
  BY <1>1 DEF Lower, Under
<1> DEFINE c == octree.children[octree.parent[m]][o]
<1>3. m \in Nodes \ {Root} /\ octree.parent[m] \in Nodes /\ m \in ChildrenOf(octree.parent[m])
  BY AncestryIs, NodeLevels, Slots
<1>4. o \in SlotsOf(octree.parent[m]) /\ o < OctantOf(CellAt(m)) /\ OctantOf(CellAt(m)) \in Octants
  BY <1>3, Scan, Slots
<1>5. c \in ChildrenOf(octree.parent[m]) /\ OctantOf(CellAt(c)) = o
  BY <1>3, <1>4, Slots DEF SlotsOf, ChildrenOf
<1>6. c # m
  BY <1>4, <1>5 DEF Octants
<1>7. p \in ParticlesBelow(m)
  BY BelowInside
<1> QED
  BY <1>2, <1>3, <1>5, <1>6, <1>7, SiblingsApart

----------------------------------------------------------------------------
(* What a step of the thread leaves alone *)

(* Who is above a node depends on the octree only ... *)
LEMMA SameAncestry ==
  ASSUME UNCHANGED octree, NEW n
  PROVE  Ancestry(n)' = Ancestry(n)
BY DEF Ancestry

(* ... and so do, with the particles, what is below it and what follows it. *)
LEMMA SameBelow ==
  ASSUME UNCHANGED <<positions, box, indices, octree>>
  PROVE  /\ Nodes' = Nodes /\ Particles' = Particles
         /\ \A n : ParticlesBelow(n)' = ParticlesBelow(n) /\ After(n)' = After(n)
<1>1. \A m : Ancestry(m)' = Ancestry(m)
  BY SameAncestry
<1>2. \A m : ParticlesBelow(m)' = ParticlesBelow(m)
  BY <1>1 DEF ParticlesBelow, Nodes, IsLeaf, ParticlesOf
<1>3. \A m : LowerSlots(m)' = LowerSlots(m)
  BY DEF LowerSlots, SlotsOf
<1>4. \A m : Lower(m)' = Lower(m)
  BY <1>2, <1>3 DEF Lower, Under
<1>5. \A m : After(m)' = After(m)
  BY <1>1, <1>4 DEF After
<1> QED
  BY <1>2, <1>5 DEF Nodes, Particles

----------------------------------------------------------------------------
(* A node that has the target below it contains the target *)

(* The rounded place of the target is in the cell, so its exact place is between the cell's faces. *)
LEMMA Contained ==
  ASSUME Sound, target \in Particles, NEW n \in Nodes, target \in ParticlesBelow(n)
  PROVE  nodeContainsTarget(n)
<1> DEFINE u == Unit(box)
           w == octree.halfSize[n]
<1>1. u \in Nat \ {0}
  BY Boxed DEF Sound
<1>2. w = 2^(10 - octree.level[n]) /\ w \in Nat \ {0}
  <2>1. octree.halfSize[n] = 2^(10 - octree.level[n])
    BY DEF Sound, IsSparseOctree, IsExactCell, kOctreeMaxLevel, kMortonBitsPerAxis
  <2>2. 10 - octree.level[n] \in 0 .. 9 \/ 10 - octree.level[n] = 10
    BY NodeCells
  <2>3. 2^10 \in Nat \ {0}
    OBVIOUS
  <2>4. CASE 10 - octree.level[n] = 10
    BY <2>1, <2>3, <2>4
  <2>5. CASE 10 - octree.level[n] \in 0 .. 9
    BY <2>1, <2>5, Widths
  <2> QED
    BY <2>1, <2>2, <2>4, <2>5
<1>3. SUFFICES ASSUME NEW a \in Axes
               PROVE  LET offset == 2 * HalfSide * Normalised(box, a, positions[target][a])
                                      - octree.centre[n][a] * Unit(box)
                      IN  -w * u <= offset /\ offset <= w * u
  BY DEF nodeContainsTarget
<1> DEFINE v == Normalised(box, a, positions[target][a])
           q == Quantised(box, a, positions[target][a])
           x == q \div w
<1>4. v \in Nat
  BY Boxed DEF Sound
<1>5. q \in 0 .. 1023 /\ q * u <= 1024 * v /\ 1024 * v < (q + 1) * u
  BY QuantisedIs DEF Sound
<1>6. CellAt(n) = CellOf(target, octree.level[n])
  <2>1. target \in Inside(CellAt(n)) /\ CellAt(n).level = octree.level[n]
    BY BelowInside, NodeCells
  <2> QED
    BY <2>1 DEF Inside
<1>7. CellAt(n).at[a] = x
  BY <1>2, <1>6 DEF CellOf, kOctreeMaxLevel, kMortonBitsPerAxis
<1>8. octree.centre[n][a] = w * (2 * x + 1)
  BY <1>7 DEF Sound, IsSparseOctree, IsExactCell
<1>9. HalfSide = 1024
  <2>1. 2^10 = 1024
    OBVIOUS
  <2> QED
    BY <2>1 DEF HalfSide, kOctreeMaxLevel, kMortonBitsPerAxis
<1> HIDE DEF u, w, v, q
<1>10. x \in Int /\ x * w <= q /\ q + 1 <= x * w + w
  <2>1. w \in Nat \ {0} /\ q \in Nat
    BY <1>2, <1>5
  <2>2. x \in Int /\ x * w <= q /\ q < (x + 1) * w
    BY <2>1
  <2> HIDE DEF x
  <2>3. (x + 1) * w = x * w + w /\ x * w \in Int
    BY <2>1, <2>2
  <2> QED
    BY <2>1, <2>2, <2>3
<1> HIDE DEF x
<1> DEFINE y == x * w
<1>11. y \in Int /\ y <= q /\ q + 1 <= y + w /\ w * (2 * x + 1) = 2 * y + w
  BY <1>2, <1>10
<1> HIDE DEF y
<1>12. y * u <= q * u /\ (q + 1) * u <= (y + w) * u
  BY <1>1, <1>2, <1>5, <1>11
<1>13. /\ y * u \in Int /\ w * u \in Int /\ (y + w) * u = y * u + w * u
       /\ (2 * y + w) * u = 2 * (y * u) + w * u
  BY <1>1, <1>2, <1>11
<1>14. y * u <= 1024 * v /\ 1024 * v < y * u + w * u
  BY <1>1, <1>4, <1>5, <1>11, <1>12, <1>13
<1> DEFINE yu == y * u
           wu == w * u
<1>15. /\ yu \in Int /\ wu \in Int /\ yu <= 1024 * v /\ 1024 * v < yu + wu
       /\ octree.centre[n][a] * u = 2 * yu + wu
  BY <1>8, <1>11, <1>13, <1>14
<1>16. -w * u = -wu
  BY <1>1, <1>2
<1> HIDE DEF yu, wu
<1>17. /\ -wu <= 2 * 1024 * v - (2 * yu + wu)
       /\ 2 * 1024 * v - (2 * yu + wu) <= wu
  BY <1>4, <1>15
<1> QED
  BY <1>9, <1>15, <1>16, <1>17 DEF u, v, wu

----------------------------------------------------------------------------
(* The invariant: what has been counted is everything that is neither below the node to be *)
(* visited nor follows it.                                                                  *)

CountsOf(ps) == [p \in Particles |-> IF p \in Bodies(Others(ps)) THEN 1 ELSE 0]
Passed(n) == Particles \ (ParticlesBelow(n) \cup After(n))

WalkInv ==
  /\ positions \in Layouts
  /\ stage # "keys" => box = Bbox(positions)
  /\ walk \in {"idle", "walking", "done", "failed"}
  /\ walk # "idle" => stage = "built" /\ IsSparseOctree /\ target \in Particles
  /\ walk = "walking" => \E n \in Nodes : node = n /\ counted = CountsOf(Passed(n))
  /\ walk = "done" => counted = CountsOf(Particles)
  /\ OnlySingular

(* A thread at a node has a correct octree before it and has counted what it has passed. *)
LEMMA Visits ==
  ASSUME WalkInv, NEW n \in Nodes, Visiting(n)
  PROVE  /\ Sound /\ target \in Particles /\ stage = "built"
         /\ counted = CountsOf(Passed(n))
BY DEF WalkInv, Visiting, Sound

(* The thread stays sound wherever it is sent. *)
LEMMA Sent ==
  ASSUME WalkInv, NEW n \in Nodes, Visiting(n), NEW way, Goes(way), UNCHANGED buildVars,
         walk' = "walking" => \E m \in Nodes : node' = m /\ counted' = CountsOf(Passed(m)),
         walk' = "done" => counted' = CountsOf(Particles),
         walk' = "failed" => walkError' = 6 /\ ~softened
                             /\ \E p \in Bodies(Others(Particles)) : positions[p] = positions[target]
  PROVE  WalkInv'
<1>1. UNCHANGED <<positions, box, indices, octree, target, massless, softened, stage>>
  BY DEF Goes, buildVars
<1>2. Sound /\ target \in Particles /\ stage = "built"
  BY Visits
<1>3. IsSparseOctree' /\ Nodes' = Nodes /\ Particles' = Particles
  BY <1>1, <1>2, SameOctree, SameBelow DEF Sound
<1>4. \A m : Passed(m)' = Passed(m)
  BY <1>1, SameBelow DEF Passed
<1>5. \A ps : CountsOf(ps)' = CountsOf(ps)
  BY <1>1 DEF CountsOf, Bodies, Others, Particles
<1>6. walk' \in {"walking", "done", "failed"}
  BY DEF Goes
<1>7. (walk = "walking" => \E m \in Nodes : node = m /\ counted = CountsOf(Passed(m)))'
  BY <1>3, <1>4, <1>5
<1>8. (walk = "done" => counted = CountsOf(Particles))'
  BY <1>3, <1>5
<1>9. OnlySingular'
  BY <1>1, <1>3 DEF OnlySingular, Bodies, Others
<1> QED
  BY <1>1, <1>2, <1>3, <1>6, <1>7, <1>8, <1>9 DEF WalkInv, Sound

(* The thread leaves a node of which it has added what is below. *)
LEMMA Left ==
  ASSUME WalkInv, NEW n \in Nodes, Visiting(n), UNCHANGED buildVars,
         Goes(nextTraversalNode(n)), counted' = CountsOf(Particles \ After(n))
  PROVE  WalkInv'
<1>1. Sound
  BY Visits
<1>2. CASE nextTraversalNode(n) = To(TraversalEnd) /\ After(n) = {}
  <2>1. walk' = "done" /\ counted' = CountsOf(Particles)
    <3>1. walk' = "done"
      BY <1>2 DEF Goes, To
    <3>2. Particles \ After(n) = Particles
      BY <1>2
    <3> QED
      BY <3>1, <3>2
  <2> QED
    BY <2>1, Sent
<1>3. CASE \E c \in Nodes \ {Root} :
             nextTraversalNode(n) = To(c) /\ ParticlesBelow(c) \cup After(c) = After(n)
  <2>1. PICK c \in Nodes \ {Root} :
             nextTraversalNode(n) = To(c) /\ ParticlesBelow(c) \cup After(c) = After(n)
    BY <1>3
  <2>2. c # TraversalEnd
    BY <1>1, NodeCells DEF TraversalEnd
  <2>3. walk' = "walking" /\ node' = c
    BY <2>1, <2>2 DEF Goes, To
  <2>4. counted' = CountsOf(Passed(c))
    BY <2>1 DEF Passed
  <2> QED
    BY <2>3, <2>4, Sent
<1> QED
  BY <1>1, <1>2, <1>3, NextNode

(* Adding the bodies below a node, each for the first time, leaves only those that follow it. *)
LEMMA Added ==
  ASSUME WalkInv, NEW n \in Nodes, Visiting(n), NEW ps \in SUBSET Particles,
         Bodies(ps) = Bodies(Others(ParticlesBelow(n))),
         counted' = [p \in Particles |-> counted[p] + IF p \in Bodies(ps) THEN 1 ELSE 0]
  PROVE  counted' = CountsOf(Particles \ After(n))
<1>1. Sound /\ counted = CountsOf(Passed(n))
  BY Visits
<1>2. ParticlesBelow(n) \cap After(n) = {}
  BY <1>1, AfterApart
<1>3. ASSUME NEW p \in Particles
      PROVE  counted'[p] = IF p \in Bodies(Others(Particles \ After(n))) THEN 1 ELSE 0
  <2>1. counted[p] = IF p \in Bodies(Others(Passed(n))) THEN 1 ELSE 0
    BY <1>1 DEF CountsOf
  <2>2. counted'[p] = counted[p] + IF p \in Bodies(ps) THEN 1 ELSE 0
    OBVIOUS
  <2>3. CASE p \in Bodies(ps)
    <3>1. p \in ParticlesBelow(n) /\ p \notin massless /\ p # target
      BY <2>3 DEF Bodies, Others
    <3>2. counted[p] = 0
      BY <2>1, <3>1 DEF Bodies, Others, Passed
    <3>3. p \in Bodies(Others(Particles \ After(n)))
      BY <1>2, <3>1 DEF Bodies, Others
    <3> QED
      BY <2>2, <2>3, <3>2, <3>3
  <2>4. CASE p \notin Bodies(ps)
    <3>1. p \in Bodies(Others(Passed(n))) <=> p \in Bodies(Others(Particles \ After(n)))
      BY <2>4 DEF Bodies, Others, Passed
    <3>2. counted'[p] = counted[p]
      BY <2>1, <2>2, <2>4
    <3> QED
      BY <2>1, <3>1, <3>2
  <2> QED
    BY <2>3, <2>4
<1>4. counted' = [p \in Particles |-> counted'[p]]
  OBVIOUS
<1> QED
  BY <1>3, <1>4 DEF CountsOf

----------------------------------------------------------------------------
(* The steps *)

(* A kernel starts at the root, below which everything is. *)
LEMMA LaunchStep ==
  ASSUME WalkInv, OctreeBuilt, stage = "built", Launch, UNCHANGED buildVars
  PROVE  WalkInv'
<1>1. /\ UNCHANGED <<positions, box, indices, octree, stage>> /\ walk = "idle" /\ walk' = "walking"
      /\ target' \in Particles /\ node' = Root /\ counted' = [p \in Particles |-> 0]
  BY DEF Launch, buildVars
<1>2. Sound
  BY <1>1 DEF WalkInv, OctreeBuilt, Sound
<1>3. IsSparseOctree' /\ Nodes' = Nodes /\ Particles' = Particles /\ \A m : Passed(m)' = Passed(m)
  BY <1>1, <1>2, SameOctree, SameBelow DEF Sound, Passed
<1>4. Root \in Nodes /\ Passed(Root) = {}
  BY <1>2, NodeLevels, BelowRoot DEF Passed
<1>5. counted' = CountsOf({})'
  <2>1. CountsOf({})' = [p \in Particles |-> 0]
    BY <1>3 DEF CountsOf, Bodies, Others
  <2> QED
    BY <1>1, <2>1
<1>6. (walk = "walking" => \E m \in Nodes : node = m /\ counted = CountsOf(Passed(m)))'
  <2>1. CountsOf(Passed(Root))' = CountsOf({})'
    BY <1>3, <1>4 DEF CountsOf, Bodies, Others
  <2> QED
    BY <1>1, <1>3, <1>4, <1>5, <2>1
<1> QED
  BY <1>1, <1>2, <1>3, <1>6 DEF WalkInv, Sound, OnlySingular

(* A leaf is in order: all that its visit can report is the singular interaction. *)
LEMMA Orderly ==
  ASSUME Sound, NEW n \in Nodes, IsLeaf(n)
  PROVE  /\ ParticlesOf(n) \subseteq Particles
         /\ LeafError(n) = IF ~softened /\ Bodies(Coincident(ParticlesOf(n))) # {} THEN 6 ELSE 0
<1>1. /\ ChildrenOf(n) = {} /\ ParticlesOf(n) = Inside(CellAt(n))
      /\ octree.firstParticle[n] >= 0
      /\ octree.firstParticle[n] <= Cardinality(Particles) - octree.particleCount[n]
  BY DEF Sound, IsSparseOctree
<1>2. ParticlesOf(n) \subseteq Particles
  BY <1>1 DEF Inside
<1> QED
  BY <1>1, <1>2 DEF LeafError

(* A leaf's bodies are added one by one, without the target. *)
LEMMA VisitLeafStep ==
  ASSUME WalkInv, NEW n \in Nodes, VisitLeaf(n), UNCHANGED buildVars
  PROVE  WalkInv'
<1>1. Visiting(n) /\ IsLeaf(n) /\ Sound
  BY Visits DEF VisitLeaf
<1>2. /\ ParticlesOf(n) \subseteq Particles
      /\ LeafError(n) = IF ~softened /\ Bodies(Coincident(ParticlesOf(n))) # {} THEN 6 ELSE 0
  BY <1>1, Orderly
<1>3. CASE ~softened /\ Bodies(Coincident(ParticlesOf(n))) # {}
  <2>1. LeafError(n) = 6 /\ Goes(Malformed(6))
    BY <1>2, <1>3 DEF VisitLeaf
  <2>2. walk' = "failed" /\ walkError' = 6
    BY <2>1 DEF Goes, Malformed
  <2>3. \E p \in Bodies(Others(Particles)) : positions[p] = positions[target]
    BY <1>2, <1>3 DEF Bodies, Others, Coincident
  <2> QED
    BY <1>1, <1>3, <2>1, <2>2, <2>3, Sent
<1>4. CASE ~ (~softened /\ Bodies(Coincident(ParticlesOf(n))) # {})
  <2>1. LeafError(n) = 0 /\ Goes(nextTraversalNode(n)) /\ Counting(Others(ParticlesOf(n)))
    BY <1>2, <1>4 DEF VisitLeaf
  <2>2. ParticlesOf(n) = ParticlesBelow(n) /\ Others(ParticlesOf(n)) \in SUBSET Particles
    BY <1>1, <1>2, BelowLeaf DEF Others
  <2>3. counted' = CountsOf(Particles \ After(n))
    BY <1>1, <2>1, <2>2, Added DEF Counting
  <2> QED
    BY <1>1, <2>1, <2>3, Left
<1> QED
  BY <1>3, <1>4

(* A node without mass has no body below it that would have to be added. *)
LEMMA SkipMasslessStep ==
  ASSUME WalkInv, NEW n \in Nodes, SkipMassless(n), UNCHANGED buildVars
  PROVE  WalkInv'
<1>1. /\ Visiting(n) /\ Bodies(ParticlesBelow(n)) = {} /\ counted' = counted
      /\ Goes(nextTraversalNode(n)) /\ counted = CountsOf(Passed(n))
  BY Visits DEF SkipMassless, HasMass
<1>2. \A p \in Particles : p \in Bodies(Others(Passed(n))) <=> p \in Bodies(Others(Particles \ After(n)))
  BY <1>1 DEF Bodies, Others, Passed
<1>3. CountsOf(Passed(n)) = CountsOf(Particles \ After(n))
  BY <1>2 DEF CountsOf
<1> QED
  BY <1>1, <1>3, Left

(* An accepted node does not contain the target, so it adds other bodies only. *)
LEMMA AcceptNodeStep ==
  ASSUME WalkInv, NEW n \in Nodes, AcceptNode(n), UNCHANGED buildVars
  PROVE  WalkInv'
<1>1. /\ Visiting(n) /\ ~nodeContainsTarget(n) /\ Counting(ParticlesBelow(n))
      /\ Goes(nextTraversalNode(n)) /\ Sound /\ target \in Particles
  BY Visits DEF AcceptNode, MayAccept
<1>2. target \notin ParticlesBelow(n)
  BY <1>1, Contained
<1>3. ParticlesBelow(n) \in SUBSET Particles
  BY <1>1, BelowInside DEF Inside
<1>4. Bodies(ParticlesBelow(n)) = Bodies(Others(ParticlesBelow(n)))
  BY <1>2 DEF Bodies, Others
<1>5. counted' = CountsOf(Particles \ After(n))
  BY <1>1, <1>3, <1>4, Added DEF Counting
<1> QED
  BY <1>1, <1>5, Left

(* An opened node is replaced by its children. *)
LEMMA OpenNodeStep ==
  ASSUME WalkInv, NEW n \in Nodes, OpenNode(n), UNCHANGED buildVars
  PROVE  WalkInv'
<1>1. /\ Visiting(n) /\ ~IsLeaf(n) /\ counted' = counted /\ Goes(firstTraversalChild(n))
      /\ Sound /\ counted = CountsOf(Passed(n))
  BY Visits DEF OpenNode
<1>2. PICK c \in Nodes \ {Root} :
        /\ firstTraversalChild(n) = To(c)
        /\ ParticlesBelow(c) \cup After(c) = ParticlesBelow(n) \cup After(n)
  BY <1>1, FirstChild
<1>3. c # TraversalEnd
  BY <1>1, NodeCells DEF TraversalEnd
<1>4. walk' = "walking" /\ node' = c
  BY <1>1, <1>2, <1>3 DEF Goes, To
<1>5. counted' = CountsOf(Passed(c))
  BY <1>1, <1>2 DEF Passed
<1> QED
  BY <1>1, <1>4, <1>5, Sent

(* No step of the construction is taken during a traversal, and the cube is that of the positions. *)
LEMMA BuildStep ==
  ASSUME WalkInv, Build
  PROVE  WalkInv'
<1>1. UNCHANGED walkVars /\ BuildNext
  BY DEF Build
<1>2. /\ positions' = positions
      /\ stage # "built"
      /\ IF stage = "keys" THEN box' = Bbox(positions) ELSE box' = box
  <2>1. CASE BuildKeys
    BY <2>1 DEF BuildKeys
  <2>2. CASE SortKeys
    BY <2>2 DEF SortKeys
  <2>3. CASE BuildGroups
    BY <2>3 DEF BuildGroups
  <2>4. CASE \E i \in 0 .. Cardinality(Particles) - 2 : BuildNode(i)
    BY <2>4 DEF BuildNode
  <2>5. CASE BuildPlan
    BY <2>5 DEF BuildPlan
  <2>6. CASE \E r \in 0 .. 2 * Cardinality(Particles) - 2 : LinkNode(r) \/ LeaveEdge(r)
    <3>1. PICK r \in 0 .. 2 * Cardinality(Particles) - 2 : LinkNode(r) \/ LeaveEdge(r)
      BY <2>6
    <3>2. LinkNode(r) => stage = "materialize" /\ UNCHANGED <<positions, box>>
      BY DEF LinkNode
    <3>3. LeaveEdge(r) => stage = "materialize" /\ UNCHANGED <<positions, box>>
      BY DEF LeaveEdge
    <3> QED
      BY <3>1, <3>2, <3>3
  <2>7. CASE ComputeGeometry
    BY <2>7 DEF ComputeGeometry
  <2> QED
    BY <1>1, <2>1, <2>2, <2>3, <2>4, <2>5, <2>6, <2>7 DEF BuildNext
<1>3. walk = "idle" /\ walk' = "idle"
  BY <1>1, <1>2 DEF WalkInv, walkVars
<1> QED
  BY <1>2, <1>3 DEF WalkInv, OnlySingular

----------------------------------------------------------------------------
(* Sequences of nodes in order *)

(* A node's height puts its level first and its slot second. *)
LEMMA HeightIs ==
  ASSUME Sound, NEW n \in Nodes
  PROVE  /\ Height(n) \in Int /\ octree.level[n] \in 0 .. 10
         /\ 8 * octree.level[n] <= Height(n) /\ Height(n) < 8 * (octree.level[n] + 1)
         /\ n # Root => Height(n) = 8 * octree.level[n] + OctantOf(CellAt(n))
<1>1. octree.level[n] \in 0 .. 10 /\ (n = Root => octree.level[n] = 0)
  BY NodeCells, NodeLevels
<1>2. CASE n = Root
  BY <1>1, <1>2 DEF Height
<1>3. CASE n # Root
  <2> DEFINE m == octree.parent[n]
             o == OctantOf(CellAt(n))
  <2>1. m \in Nodes /\ n \in ChildrenOf(m) /\ NoNode \notin Nodes
    BY <1>3, NodeLevels, Slots
  <2>2. o \in Octants /\ octree.children[m][o] = n
    BY <2>1, Slots
  <2>3. \A b \in Octants : octree.children[m][b] = n => b = o
    BY <2>1, Slots
  <2>4. Height(n) = 8 * octree.level[n] + (CHOOSE b \in Octants : octree.children[m][b] = n)
    BY <1>3 DEF Height
  <2> HIDE DEF m, o
  <2>5. (CHOOSE b \in Octants : octree.children[m][b] = n) = o
    BY <2>2, <2>3
  <2>6. Height(n) = 8 * octree.level[n] + o /\ o \in 0 .. 7
    BY <2>2, <2>4, <2>5 DEF Octants
  <2>7. PICK l : l = octree.level[n] /\ l \in 0 .. 10
    BY <1>1
  <2>8. Height(n) = 8 * l + o
    BY <2>6, <2>7
  <2>9. Height(n) \in Int /\ 8 * l <= Height(n) /\ Height(n) < 8 * (l + 1)
    <3>1. PICK h, b : h = Height(n) /\ b = o /\ b \in 0 .. 7 /\ h = 8 * l + b
      BY <2>6, <2>8
    <3>2. h \in Int /\ 8 * l <= h /\ h < 8 * (l + 1)
      BY <2>7, <3>1
    <3> QED
      BY <3>1, <3>2
  <2> QED
    BY <1>3, <2>6, <2>7, <2>9 DEF o
<1> QED
  BY <1>2, <1>3

(* The child in a slot. *)
LEMMA SlotHeight ==
  ASSUME Sound, NEW n \in Nodes, NEW o \in SlotsOf(n)
  PROVE  /\ octree.children[n][o] \in Nodes \ {Root} /\ o \in 0 .. 7
         /\ Height(octree.children[n][o]) = 8 * (octree.level[n] + 1) + o
<1> DEFINE c == octree.children[n][o]
<1>1. o \in Octants /\ c # NoNode
  BY DEF SlotsOf
<1>2. c \in Nodes \ {Root} /\ octree.parent[c] = n /\ OctantOf(CellAt(c)) = o
  BY <1>1, Slots
<1> HIDE DEF c
<1>3. octree.level[n] = octree.level[c] - 1
  BY <1>2, NodeLevels
<1>4. Height(c) = 8 * octree.level[c] + o /\ octree.level[c] \in 0 .. 10
  BY <1>2, HeightIs
<1>5. PICK l : l = octree.level[c] /\ l \in 0 .. 10
  BY <1>4
<1>6. octree.level[n] + 1 = l
  BY <1>3, <1>5
<1> QED
  BY <1>1, <1>2, <1>4, <1>5, <1>6 DEF c, Octants

(* What waits is below the node on the stack. *)
LEMMA WaitingLower ==
  ASSUME Sound, NEW n \in Nodes
  PROVE  \A q \in Waiting(n) : q \in Nodes /\ Height(q) < Height(n)
<1> DEFINE G == {x \in Nodes : \A q \in Waiting(x) : q \in Nodes /\ Height(q) < Height(x)}
<1>1. Root \in G
  BY NodeLevels, WaitingIs
<1>2. ASSUME NEW x \in Nodes \ {Root}, octree.parent[x] \in G
      PROVE  x \in G
  <2> DEFINE m == octree.parent[x]
  <2>1. m \in Nodes /\ \A q \in Waiting(m) : q \in Nodes /\ Height(q) < Height(m)
    BY <1>2
  <2>2. Waiting(x) = SlotNodes(m, LowerSlots(x)) \cup Waiting(m)
    BY WaitingIs
  <2>3. LowerSlots(x) = {o \in SlotsOf(m) : o < OctantOf(CellAt(x))}
    BY Scan
  <2>4. octree.level[m] = octree.level[x] - 1
    BY NodeLevels
  <2> HIDE DEF m
  <2>5. PICK l : l = octree.level[x] /\ l \in 0 .. 10
    BY HeightIs
  <2>6. octree.level[m] + 1 = l
    BY <2>4, <2>5
  <2>7. Height(x) = 8 * l + OctantOf(CellAt(x)) /\ Height(x) \in Int /\ 8 * l <= Height(x)
    BY <2>5, HeightIs
  <2>8. ASSUME NEW q \in SlotNodes(m, LowerSlots(x))
        PROVE  q \in Nodes /\ Height(q) < Height(x)
    <3>1. PICK o \in LowerSlots(x) : q = octree.children[m][o]
      BY <2>8 DEF SlotNodes
    <3>2. o \in SlotsOf(m) /\ o < OctantOf(CellAt(x))
      BY <2>3, <3>1
    <3>3. q \in Nodes /\ Height(q) = 8 * l + o /\ o \in 0 .. 7
      BY <2>1, <2>6, <3>1, <3>2, SlotHeight
    <3>4. OctantOf(CellAt(x)) \in Int
      <4>1. x \in ChildrenOf(octree.parent[x]) /\ octree.parent[x] \in Nodes
        BY NodeLevels, Slots
      <4> QED
        BY <4>1, Slots DEF Octants
    <3> QED
      BY <2>5, <2>7, <3>2, <3>3, <3>4
  <2>9. ASSUME NEW q \in Waiting(m)
        PROVE  q \in Nodes /\ Height(q) < Height(x)
    <3>1. q \in Nodes /\ Height(q) < Height(m) /\ Height(m) < 8 * l /\ Height(q) \in Int /\ Height(m) \in Int
      BY <2>1, <2>6, <2>9, HeightIs
    <3> QED
      BY <2>5, <2>7, <3>1
  <2> QED
    BY <2>2, <2>8, <2>9
<1>3. Nodes \subseteq G
  <2> HIDE DEF G
  <2> QED
    BY <1>1, <1>2, NodeInduction
<1> QED
  BY <1>3

(* A sequence of all the nodes in P, from the lowest to the highest. *)
Lists(s, P) ==
  /\ s \in Seq(Nodes)
  /\ \A i \in 1 .. Len(s) : s[i] \in P
  /\ \A m \in P : \E i \in 1 .. Len(s) : s[i] = m
  /\ \A i, j \in 1 .. Len(s) : i < j => Height(s[i]) < Height(s[j])

(* A higher node is added at the end ... *)
LEMMA ListsAdd ==
  ASSUME NEW s, NEW P, Lists(s, P), NEW m \in Nodes, \A q \in P : Height(q) < Height(m)
  PROVE  Lists(Append(s, m), P \cup {m})
<1> DEFINE t == Append(s, m)
           N == Len(s)
<1>1. /\ s \in Seq(Nodes) /\ N \in Nat
      /\ \A i \in 1 .. N : s[i] \in P
      /\ \A q \in P : \E i \in 1 .. N : s[i] = q
      /\ \A i, j \in 1 .. N : i < j => Height(s[i]) < Height(s[j])
  BY DEF Lists
<1>2. /\ t \in Seq(Nodes) /\ Len(t) = N + 1 /\ t[N + 1] = m
      /\ \A i \in 1 .. N : t[i] = s[i]
  BY <1>1
<1> HIDE DEF t, N
<1>3. \A i \in 1 .. N + 1 : i \in 1 .. N \/ i = N + 1
  BY <1>1
<1>4. N + 1 \in 1 .. N + 1 /\ 1 .. N \subseteq 1 .. N + 1
  BY <1>1
<1>5. \A i \in 1 .. N + 1 : t[i] \in P \cup {m}
  BY <1>1, <1>2, <1>3
<1>6. \A q \in P \cup {m} : \E i \in 1 .. N + 1 : t[i] = q
  <2>1. \A q \in P : \E i \in 1 .. N + 1 : t[i] = q
    <3> SUFFICES ASSUME NEW q \in P
                 PROVE  \E i \in 1 .. N + 1 : t[i] = q
      OBVIOUS
    <3>1. PICK i \in 1 .. N : s[i] = q
      BY <1>1
    <3> QED
      BY <1>2, <1>4, <3>1
  <2> QED
    BY <1>2, <1>4, <2>1
<1>7. ASSUME NEW i \in 1 .. N + 1, NEW j \in 1 .. N + 1, i < j
      PROVE  Height(t[i]) < Height(t[j])
  <2>1. i \in 1 .. N
    BY <1>1, <1>7
  <2>2. CASE j \in 1 .. N
    BY <1>1, <1>2, <1>7, <2>1, <2>2
  <2>3. CASE j = N + 1
    <3>1. t[i] \in P /\ t[j] = m
      BY <1>1, <1>2, <2>1, <2>3
    <3> QED
      BY <3>1
  <2> QED
    BY <1>3, <2>2, <2>3
<1>8. Lists(t, P \cup {m})
  BY <1>2, <1>5, <1>6, <1>7 DEF Lists
<1> QED
  BY <1>8 DEF t

(* ... and the highest node is at the end, and what is before it lists the others. *)
LEMMA ListsRest ==
  ASSUME Sound, NEW s, NEW P, NEW m, m \notin P, Lists(s, P \cup {m}), \A q \in P : Height(q) < Height(m)
  PROVE  s # <<>> /\ s[Len(s)] = m /\ Lists(SubSeq(s, 1, Len(s) - 1), P)
<1> DEFINE N == Len(s)
           t == SubSeq(s, 1, N - 1)
<1>1. /\ s \in Seq(Nodes) /\ N \in Nat
      /\ \A i \in 1 .. N : s[i] \in P \cup {m} /\ s[i] \in Nodes
      /\ \A q \in P \cup {m} : \E i \in 1 .. N : s[i] = q
      /\ \A i, j \in 1 .. N : i < j => Height(s[i]) < Height(s[j])
  BY DEF Lists
<1>2. PICK k \in 1 .. N : s[k] = m
  BY <1>1
<1>3. N \in 1 .. N /\ N >= 1
  BY <1>1, <1>2
<1>4. k = N
  <2> SUFFICES ASSUME k # N
               PROVE  FALSE
    OBVIOUS
  <2>1. k < N
    BY <1>1, <1>2
  <2>2. Height(m) < Height(s[N])
    BY <1>1, <1>2, <1>3, <2>1
  <2>3. m \in Nodes /\ s[N] \in Nodes /\ s[N] \in P \cup {m}
    BY <1>1, <1>2, <1>3
  <2>4. Height(m) \in Int /\ Height(s[N]) \in Int
    BY <2>3, HeightIs
  <2> QED
    BY <2>2, <2>3, <2>4
<1>5. t \in Seq(Nodes) /\ Len(t) = N - 1 /\ \A i \in 1 .. N - 1 : t[i] = s[i]
  <2>1. 1 \in 1 .. Len(s) + 1 /\ N - 1 \in 1 - 1 .. Len(s) /\ (N - 1) - 1 + 1 = N - 1
    BY <1>1, <1>3
  <2>2. /\ SubSeq(s, 1, N - 1) \in Seq(Nodes) /\ Len(SubSeq(s, 1, N - 1)) = (N - 1) - 1 + 1
        /\ \A i \in 1 .. (N - 1) - 1 + 1 : SubSeq(s, 1, N - 1)[i] = s[1 + i - 1]
    BY <1>1, <2>1, SubSeqProperties
  <2>3. \A i \in 1 .. N - 1 : 1 + i - 1 = i
    BY <1>1
  <2> HIDE DEF N
  <2> QED
    BY <2>1, <2>2, <2>3
<1>6. s # <<>>
  BY <1>3
<1>12. s[N] = m
  BY <1>2, <1>4
<1> HIDE DEF t, N
<1>7. 1 .. N - 1 \subseteq 1 .. N /\ N \notin 1 .. N - 1 /\ \A i \in 1 .. N : i = N \/ i \in 1 .. N - 1
  BY <1>1, <1>3
<1>8. \A i \in 1 .. N - 1 : t[i] \in P
  <2> SUFFICES ASSUME NEW i \in 1 .. N - 1
               PROVE  t[i] \in P
    OBVIOUS
  <2>1. i \in 1 .. N /\ i < N /\ t[i] = s[i]
    BY <1>1, <1>5
  <2>2. Height(s[i]) < Height(s[N]) /\ s[i] \in P \cup {m} /\ s[i] \in Nodes
    BY <1>1, <1>3, <2>1
  <2>3. Height(s[i]) \in Int
    BY <2>2, HeightIs
  <2> QED
    BY <1>12, <2>1, <2>2, <2>3
<1>9. \A q \in P : \E i \in 1 .. N - 1 : t[i] = q
  <2> SUFFICES ASSUME NEW q \in P
               PROVE  \E i \in 1 .. N - 1 : t[i] = q
    OBVIOUS
  <2>1. PICK i \in 1 .. N : s[i] = q
    BY <1>1
  <2>2. i # N
    BY <1>12, <2>1
  <2> QED
    BY <1>5, <1>7, <2>1, <2>2
<1>10. \A i, j \in 1 .. N - 1 : i < j => Height(t[i]) < Height(t[j])
  BY <1>1, <1>5, <1>7
<1>11. Lists(t, P)
  BY <1>5, <1>8, <1>9, <1>10 DEF Lists
<1> QED
  BY <1>6, <1>11, <1>12 DEF t, N

(* Nodes are listed in one way only, by how many of them are lower than each. *)
LEMMA ListsOnce ==
  ASSUME Sound, NEW s, NEW P, Lists(s, P)
  PROVE  s = [i \in 1 .. Cardinality(P) |-> CHOOSE m \in P : Cardinality({q \in P : Height(q) < Height(m)}) = i - 1]
<1> DEFINE N == Len(s)
           First(k) == {s[j] : j \in 1 .. k}
           G == {k \in 0 .. N : IsFiniteSet(First(k)) /\ Cardinality(First(k)) = k}
<1>1. /\ s \in Seq(Nodes) /\ N \in Nat
      /\ \A i \in 1 .. N : s[i] \in P /\ Height(s[i]) \in Int
      /\ \A m \in P : \E i \in 1 .. N : s[i] = m
      /\ \A i, j \in 1 .. N : i < j => Height(s[i]) < Height(s[j])
  <2>1. \A i \in 1 .. N : s[i] \in P /\ s[i] \in Nodes
    BY DEF Lists
  <2> QED
    BY <2>1, HeightIs DEF Lists
<1> HIDE DEF N
<1>2. 0 \in G
  <2>1. First(0) = {}
    OBVIOUS
  <2> HIDE DEF First
  <2>2. IsFiniteSet(First(0)) /\ Cardinality(First(0)) = 0
    BY <2>1, FS_EmptySet
  <2>3. 0 \in 0 .. N
    BY <1>1
  <2> QED
    BY <2>2, <2>3
<1>3. ASSUME NEW k \in 0 .. N - 1, k \in G
      PROVE  k + 1 \in G
  <2>1. k + 1 \in 1 .. N /\ 1 .. k + 1 = (1 .. k) \cup {k + 1} /\ \A j \in 1 .. k : j \in 1 .. N /\ j < k + 1
    BY <1>1
  <2>2. First(k + 1) = First(k) \cup {s[k + 1]}
    BY <2>1
  <2>3. s[k + 1] \notin First(k)
    <3> SUFFICES ASSUME NEW j \in 1 .. k, s[k + 1] = s[j]
                 PROVE  FALSE
      OBVIOUS
    <3>1. Height(s[j]) < Height(s[k + 1]) /\ Height(s[j]) \in Int
      BY <1>1, <2>1
    <3> QED
      BY <3>1
  <2>4. IsFiniteSet(First(k)) /\ Cardinality(First(k)) = k
    BY <1>3
  <2> HIDE DEF First
  <2>5. IsFiniteSet(First(k + 1)) /\ Cardinality(First(k + 1)) = k + 1
    BY <2>2, <2>3, <2>4, FS_AddElement
  <2>6. k + 1 \in 0 .. N
    BY <1>1, <2>1
  <2> QED
    BY <2>5, <2>6
<1>4. \A k \in 0 .. N : IsFiniteSet(First(k)) /\ Cardinality(First(k)) = k
  <2>1. 0 .. N \subseteq G
    <3> HIDE DEF G
    <3> QED
      BY <1>1, <1>2, <1>3, NatInductionUpTo
  <2> QED
    BY <2>1
<1>5. P = First(N)
  BY <1>1
<1>6. ASSUME NEW i \in 1 .. N
      PROVE  {q \in P : Height(q) < Height(s[i])} = First(i - 1)
  <2>1. ASSUME NEW j \in 1 .. N
        PROVE  Height(s[j]) < Height(s[i]) <=> j \in 1 .. i - 1
    <3>1. CASE j < i
      BY <1>1, <3>1
    <3>2. CASE j = i
      BY <1>1, <3>2
    <3>3. CASE i < j
      <4>1. Height(s[i]) < Height(s[j]) /\ Height(s[i]) \in Int /\ Height(s[j]) \in Int /\ j \notin 1 .. i - 1
        BY <1>1, <3>3
      <4> QED
        BY <4>1
    <3> QED
      BY <3>1, <3>2, <3>3
  <2>2. \A j \in 1 .. i - 1 : j \in 1 .. N
    BY <1>1
  <2>3. \A q \in P : Height(q) < Height(s[i]) => q \in First(i - 1)
    BY <1>1, <2>1
  <2>4. \A q \in First(i - 1) : q \in P /\ Height(q) < Height(s[i])
    BY <1>1, <2>1, <2>2
  <2> HIDE DEF First
  <2> QED
    BY <2>3, <2>4
<1>7. ASSUME NEW i \in 1 .. N
      PROVE  Cardinality({q \in P : Height(q) < Height(s[i])}) = i - 1
  <2>1. i - 1 \in 0 .. N
    BY <1>1
  <2> HIDE DEF First
  <2> QED
    BY <1>4, <1>6, <2>1
<1>8. Cardinality(P) = N
  <2> HIDE DEF First
  <2> QED
    BY <1>1, <1>4, <1>5
<1>9. ASSUME NEW i \in 1 .. N
      PROVE  s[i] = CHOOSE m \in P : Cardinality({q \in P : Height(q) < Height(m)}) = i - 1
  <2>1. s[i] \in P /\ Cardinality({q \in P : Height(q) < Height(s[i])}) = i - 1
    BY <1>1, <1>7
  <2>2. ASSUME NEW m \in P, Cardinality({q \in P : Height(q) < Height(m)}) = i - 1
        PROVE  m = s[i]
    <3>1. PICK j \in 1 .. N : s[j] = m
      BY <1>1
    <3>2. i - 1 = j - 1
      BY <1>7, <2>2, <3>1
    <3> QED
      BY <3>1, <3>2
  <2> QED
    BY <2>1, <2>2
<1>10. s = [i \in 1 .. N |-> s[i]]
  BY <1>1 DEF N
<1> QED
  BY <1>8, <1>9, <1>10

(* So it is what StackAt says. *)
LEMMA StackLists ==
  ASSUME Sound, NEW n, NEW s, Lists(s, Waiting(n) \cup {n})
  PROVE  StackAt(n) = s
<1> DEFINE P == Waiting(n) \cup {n}
<1>1. s = [i \in 1 .. Cardinality(P) |-> CHOOSE m \in P : Cardinality({q \in P : Height(q) < Height(m)}) = i - 1]
  BY ListsOnce
<1>2. StackAt(n) = [i \in 1 .. Cardinality(P) |-> CHOOSE m \in P : Cardinality({q \in P : Height(q) < Height(m)}) = i - 1]
  BY DEF StackAt
<1> QED
  BY <1>1, <1>2

(* The sequences that pushing goes through: there is a function of them. *)
Pushes(f, s, slots, N) ==
  f = [k \in 0 .. N |-> IF k = 0 THEN s
                        ELSE IF slots[k - 1] = -1 THEN f[k - 1] ELSE Append(f[k - 1], slots[k - 1])]

(* Such a function exists, and PushAll is its last value. *)
LEMMA PushAllIs ==
  ASSUME NEW s, NEW slots
  PROVE  \E f : Pushes(f, s, slots, 8) /\ Stack!PushAll(s, slots) = f[8]
<1> DEFINE G == {m \in Nat : \E f : Pushes(f, s, slots, m)}
           next(x, k) == IF slots[k] = -1 THEN x ELSE Append(x, slots[k])
<1>1. 0 \in G
  <2>1. Pushes([k \in 0 .. 0 |-> s], s, slots, 0)
    BY DEF Pushes
  <2> QED
    BY <2>1
<1>2. ASSUME NEW m \in Nat, m \in G
      PROVE  m + 1 \in G
  <2>1. PICK f : Pushes(f, s, slots, m)
    BY <1>2
  <2> DEFINE g == [k \in 0 .. m + 1 |-> IF k = m + 1 THEN next(f[m], m) ELSE f[k]]
  <2> HIDE DEF next
  <2>2. \A k \in 0 .. m + 1 : g[k] = IF k = 0 THEN s ELSE next(g[k - 1], k - 1)
    <3> SUFFICES ASSUME NEW k \in 0 .. m + 1
                 PROVE  g[k] = IF k = 0 THEN s ELSE next(g[k - 1], k - 1)
      OBVIOUS
    <3>1. CASE k = m + 1
      <4>1. k # 0 /\ k - 1 = m /\ m \in 0 .. m + 1 /\ m # m + 1
        BY <3>1
      <4>2. g[k - 1] = f[m] /\ g[k] = next(f[m], m)
        BY <3>1, <4>1
      <4> QED
        BY <4>1, <4>2
    <3>2. CASE k # m + 1
      <4>1. k \in 0 .. m /\ g[k] = f[k]
        BY <3>2
      <4>2. k # 0 => k - 1 \in 0 .. m /\ g[k - 1] = f[k - 1]
        BY <4>1
      <4>3. f[k] = IF k = 0 THEN s ELSE next(f[k - 1], k - 1)
        BY <2>1, <4>1 DEF Pushes, next
      <4> QED
        BY <4>1, <4>2, <4>3
    <3> QED
      BY <3>1, <3>2
  <2>3. g = [k \in 0 .. m + 1 |-> IF k = 0 THEN s ELSE next(g[k - 1], k - 1)]
    BY <2>2
  <2> HIDE DEF g
  <2>4. Pushes(g, s, slots, m + 1)
    BY <2>3 DEF Pushes, next
  <2> QED
    BY <2>4
<1>3. 8 \in G
  <2> HIDE DEF G
  <2>1. \A m \in 0 .. 8 - 1 : m \in G => m + 1 \in G
    BY <1>2
  <2>2. 0 .. 8 \subseteq G
    BY <1>1, <2>1, NatInductionUpTo
  <2> QED
    BY <2>2
<1>4. PICK g : Pushes(g, s, slots, 8)
  BY <1>3
<1> DEFINE h == CHOOSE f : Pushes(f, s, slots, 8)
<1>5. Stack!PushAll(s, slots) = h[8]
  BY DEF Stack!PushAll, Pushes
<1>6. Pushes(h, s, slots, 8)
  BY <1>4
<1> HIDE DEF h
<1> QED
  BY <1>5, <1>6

(* Opening a node puts its children on the stack, so that the highest is the next. *)
LEMMA ChildrenPushed ==
  ASSUME Sound, NEW n \in Nodes, NEW s, Lists(s, Waiting(n))
  PROVE  Lists(Stack!PushAll(s, octree.children[n]), SlotNodes(n, SlotsOf(n)) \cup Waiting(n))
<1> DEFINE slots == octree.children[n]
           P(k) == SlotNodes(n, {o \in SlotsOf(n) : o < k}) \cup Waiting(n)
<1>1. PICK f : Pushes(f, s, slots, 8) /\ Stack!PushAll(s, slots) = f[8]
  BY PushAllIs
<1>2. \A k \in 0 .. 8 : f[k] = IF k = 0 THEN s
                               ELSE IF slots[k - 1] = -1 THEN f[k - 1] ELSE Append(f[k - 1], slots[k - 1])
  BY <1>1 DEF Pushes
<1>3. \A o \in SlotsOf(n) : o \in 0 .. 7
  BY DEF SlotsOf, Octants
<1> DEFINE G == {k \in 0 .. 8 : Lists(f[k], P(k))}
<1>4. 0 \in G
  <2>1. P(0) = Waiting(n)
    BY <1>3 DEF SlotNodes
  <2>2. f[0] = s
    BY <1>2
  <2> HIDE DEF P
  <2> QED
    BY <2>1, <2>2
<1>5. ASSUME NEW k \in 0 .. 8 - 1, k \in G
      PROVE  k + 1 \in G
  <2> DEFINE c == slots[k]
  <2>1. f[k + 1] = IF c = -1 THEN f[k] ELSE Append(f[k], c)
    <3>1. k + 1 \in 0 .. 8 /\ k + 1 # 0 /\ (k + 1) - 1 = k
      OBVIOUS
    <3> QED
      BY <1>2, <3>1
  <2>2. Lists(f[k], P(k))
    BY <1>5
  <2>3. CASE c = -1
    <3>1. k \notin SlotsOf(n)
      BY <2>3 DEF SlotsOf, NoNode
    <3>2. \A o \in SlotsOf(n) : o < k + 1 <=> o < k
      BY <1>3, <3>1
    <3>3. P(k + 1) = P(k)
      BY <3>2
    <3> HIDE DEF P
    <3> QED
      BY <2>1, <2>2, <2>3, <3>3
  <2>4. CASE c # -1
    <3>1. k \in SlotsOf(n)
      BY <2>4 DEF SlotsOf, NoNode, Octants
    <3>2. c \in Nodes /\ Height(c) = 8 * (octree.level[n] + 1) + k
      BY <3>1, SlotHeight
    <3>3. \A o \in SlotsOf(n) : o < k + 1 <=> o < k \/ o = k
      BY <1>3
    <3>4. P(k + 1) = P(k) \cup {c}
      BY <3>1, <3>3 DEF SlotNodes
    <3>5. PICK l : l = octree.level[n] /\ l \in 0 .. 10
      BY HeightIs
    <3>6. ASSUME NEW q \in P(k)
          PROVE  Height(q) < Height(c)
      <4>1. CASE q \in Waiting(n)
        <5>1. q \in Nodes /\ Height(q) < Height(n)
          BY <4>1, WaitingLower
        <5>2. Height(q) \in Int /\ Height(n) \in Int /\ Height(n) < 8 * (l + 1)
          BY <3>5, <5>1, HeightIs
        <5> QED
          BY <3>2, <3>5, <5>1, <5>2
      <4>2. CASE q \in SlotNodes(n, {o \in SlotsOf(n) : o < k})
        <5>1. PICK o \in SlotsOf(n) : o < k /\ q = slots[o]
          BY <4>2 DEF SlotNodes
        <5>2. Height(q) = 8 * (l + 1) + o /\ o \in 0 .. 7
          BY <3>5, <5>1, SlotHeight
        <5> QED
          BY <3>2, <3>5, <5>1, <5>2
      <4> QED
        BY <3>6, <4>1, <4>2
    <3> HIDE DEF P, c
    <3>7. Lists(f[k + 1], P(k + 1))
      BY <2>1, <2>2, <2>4, <3>2, <3>4, <3>6, ListsAdd
    <3> QED
      BY <3>7
  <2> QED
    BY <2>3, <2>4
<1>6. Lists(f[8], P(8))
  <2>1. 0 .. 8 \subseteq G
    <3> HIDE DEF G
    <3> QED
      BY <1>4, <1>5, NatInductionUpTo
  <2> QED
    BY <2>1
<1>7. P(8) = SlotNodes(n, SlotsOf(n)) \cup Waiting(n)
  <2>1. {o \in SlotsOf(n) : o < 8} = SlotsOf(n)
    BY <1>3
  <2> QED
    BY <2>1
<1> HIDE DEF P
<1> QED
  BY <1>1, <1>6, <1>7

----------------------------------------------------------------------------
(* The stack that is not there *)

(* What the thread would have on its stack, and its invariant: the nodes that wait and the one *)
(* the thread is at, in order.                                                                 *)
StackNow == IF walk = "walking" THEN StackAt(node) ELSE <<>>
StackInv == walk = "walking" => Lists(StackNow, Waiting(node) \cup {node})

(* Stacks depend on the octree only. *)
LEMMA SameStack ==
  ASSUME UNCHANGED octree
  PROVE  /\ Nodes' = Nodes
         /\ \A n : Waiting(n)' = Waiting(n) /\ StackAt(n)' = StackAt(n)
         /\ \A s, P : Lists(s, P)' <=> Lists(s, P)
<1>1. Nodes' = Nodes /\ \A n : Ancestry(n)' = Ancestry(n)
  BY SameAncestry DEF Nodes
<1>2. \A n : LowerSlots(n)' = LowerSlots(n) /\ Height(n)' = Height(n)
  BY DEF LowerSlots, SlotsOf, Height
<1>3. \A n : Waiting(n)' = Waiting(n)
  BY <1>1, <1>2 DEF Waiting
<1>4. ASSUME NEW n
      PROVE  StackAt(n)' = StackAt(n)
  <2>1. PICK nodes : nodes = Waiting(n) \cup {n}
    OBVIOUS
  <2>2. nodes = (Waiting(n) \cup {n})'
    BY <1>3, <2>1
  <2>3. \A m, i : Cardinality({q \in nodes : Height(q)' < Height(m)'}) = i - 1
                    <=> Cardinality({q \in nodes : Height(q) < Height(m)}) = i - 1
    BY <1>2
  <2>4. \A i : (CHOOSE m \in nodes : Cardinality({q \in nodes : Height(q)' < Height(m)'}) = i - 1)
                 = CHOOSE m \in nodes : Cardinality({q \in nodes : Height(q) < Height(m)}) = i - 1
    BY <2>3
  <2>5. StackAt(n) = [i \in 1 .. Cardinality(nodes) |->
                        CHOOSE m \in nodes : Cardinality({q \in nodes : Height(q) < Height(m)}) = i - 1]
    BY <2>1 DEF StackAt
  <2>6. StackAt(n)' = [i \in 1 .. Cardinality(nodes) |->
                         CHOOSE m \in nodes : Cardinality({q \in nodes : Height(q)' < Height(m)'}) = i - 1]
    BY <2>2 DEF StackAt
  <2> QED
    BY <2>4, <2>5, <2>6
<1>5. \A s, P : Lists(s, P)' <=> Lists(s, P)
  BY <1>1, <1>2 DEF Lists
<1> QED
  BY <1>1, <1>3, <1>4, <1>5

(* The thread comes to a node: if what waits there with it is listed, the list is its stack. *)
LEMMA StackMoves ==
  ASSUME Sound, UNCHANGED octree, walk' = "walking", NEW c \in Nodes, node' = c,
         NEW s, Lists(s, Waiting(c) \cup {c})
  PROVE  StackInv' /\ StackNow' = s
<1>1. StackAt(c) = s
  BY StackLists
<1>2. StackNow' = s
  <2>1. StackNow' = StackAt(c)'
    BY DEF StackNow
  <2> QED
    BY <1>1, <2>1, SameStack
<1>3. (Waiting(node) \cup {node})' = Waiting(c) \cup {c}
  <2>1. (Waiting(node) \cup {node})' = Waiting(c)' \cup {c}
    OBVIOUS
  <2> QED
    BY <2>1, SameStack
<1>4. Lists(s, Waiting(c) \cup {c})'
  <2>1. PICK P : P = Waiting(c) \cup {c}
    OBVIOUS
  <2>2. Lists(s, P)'
    BY <2>1, SameStack
  <2>3. P = (Waiting(c) \cup {c})'
    BY <2>1, SameStack
  <2> QED
    BY <2>2, <2>3
<1>5. StackInv'
  <2>1. PICK P : P = Waiting(c) \cup {c}
    OBVIOUS
  <2>2. Lists(s, P)'
    BY <2>1, SameStack
  <2>3. P = (Waiting(node) \cup {node})'
    BY <1>3, <2>1
  <2> QED
    BY <1>2, <2>2, <2>3 DEF StackInv
<1> QED
  BY <1>2, <1>5

(* At a node the thread has it on top, and below it what waits. *)
LEMMA OnTop ==
  ASSUME WalkInv, StackInv, NEW n \in Nodes, Visiting(n)
  PROVE  /\ Sound /\ StackNow # <<>> /\ StackNow[Len(StackNow)] = n
         /\ Lists(SubSeq(StackNow, 1, Len(StackNow) - 1), Waiting(n))
<1>1. Sound /\ node = n /\ Lists(StackNow, Waiting(n) \cup {n})
  BY Visits DEF Visiting, StackInv
<1>2. \A q \in Waiting(n) : Height(q) < Height(n)
  BY <1>1, WaitingLower
<1>3. n \notin Waiting(n)
  <2>1. Height(n) \in Int
    BY <1>1, HeightIs
  <2> QED
    BY <1>2, <2>1
<1> QED
  BY <1>1, <1>2, <1>3, ListsRest

(* Leaving a node takes it from the stack. *)
LEMMA StackPasses ==
  ASSUME WalkInv, StackInv, NEW n \in Nodes, Visiting(n), Goes(nextTraversalNode(n))
  PROVE  StackInv' /\ StackNow' = SubSeq(StackNow, 1, Len(StackNow) - 1)
<1>1. PICK s : s = SubSeq(StackNow, 1, Len(StackNow) - 1)
  OBVIOUS
<1>2. Sound /\ Lists(s, Waiting(n)) /\ UNCHANGED octree
  BY <1>1, OnTop DEF Goes
<1>3. CASE nextTraversalNode(n) = To(TraversalEnd) /\ Waiting(n) = {}
  <2>1. walk' = "done"
    BY <1>3 DEF Goes, To
  <2>2. s = <<>>
    <3>1. s \in Seq(Nodes) /\ \A i \in 1 .. Len(s) : FALSE
      BY <1>2, <1>3 DEF Lists
    <3>2. Len(s) = 0
      BY <3>1
    <3> QED
      BY <3>1, <3>2
  <2> QED
    BY <1>1, <2>1, <2>2 DEF StackInv, StackNow
<1>4. ASSUME NEW c \in Nodes \ {Root}, nextTraversalNode(n) = To(c), Waiting(c) \cup {c} = Waiting(n)
      PROVE  StackInv' /\ StackNow' = s
  <2>1. c # TraversalEnd
    BY <1>2, NodeCells DEF TraversalEnd
  <2>2. walk' = "walking" /\ node' = c
    BY <1>4, <2>1 DEF Goes, To
  <2>3. Lists(s, Waiting(c) \cup {c})
    BY <1>2, <1>4
  <2> QED
    BY <1>2, <2>2, <2>3, StackMoves
<1> QED
  BY <1>1, <1>2, <1>3, <1>4, NextNode

(* Opening a node puts its children in its place. *)
LEMMA StackOpens ==
  ASSUME WalkInv, StackInv, NEW n \in Nodes, Visiting(n), ~IsLeaf(n), Goes(firstTraversalChild(n))
  PROVE  /\ StackInv'
         /\ StackNow' = Stack!PushAll(SubSeq(StackNow, 1, Len(StackNow) - 1), octree.children[n])
<1>1. PICK s : s = SubSeq(StackNow, 1, Len(StackNow) - 1)
  OBVIOUS
<1>2. Sound /\ Lists(s, Waiting(n)) /\ UNCHANGED octree
  BY <1>1, OnTop DEF Goes
<1>3. PICK c \in Nodes \ {Root} :
        /\ firstTraversalChild(n) = To(c)
        /\ Waiting(c) \cup {c} = SlotNodes(n, SlotsOf(n)) \cup Waiting(n)
  BY <1>2, FirstChild
<1>4. c # TraversalEnd
  BY <1>2, NodeCells DEF TraversalEnd
<1>5. walk' = "walking" /\ node' = c
  BY <1>3, <1>4 DEF Goes, To
<1>6. Lists(Stack!PushAll(s, octree.children[n]), Waiting(c) \cup {c})
  BY <1>2, <1>3, ChildrenPushed
<1> QED
  BY <1>1, <1>2, <1>5, <1>6, StackMoves

(* Each step of the thread is one of a traversal with the stack. *)
LEMMA StackStep ==
  ASSUME WalkInv, StackInv, stage = "built" => octree # Empty, NEW n \in Nodes,
         VisitLeaf(n) \/ SkipMassless(n) \/ AcceptNode(n) \/ OpenNode(n)
  PROVE  StackInv' /\ Stack!Next
<1>1. Visiting(n) /\ UNCHANGED octree
  BY DEF VisitLeaf, SkipMassless, AcceptNode, OpenNode, Goes
<1>2. octree # Empty /\ stage = "built"
  BY <1>1, Visits
<1>3. CASE Goes(nextTraversalNode(n))
  <2>1. StackInv' /\ StackNow # <<>> /\ StackNow' = SubSeq(StackNow, 1, Len(StackNow) - 1)
    BY <1>1, <1>3, OnTop, StackPasses
  <2>2. Stack!Pass
    BY <1>1, <2>1 DEF Stack!Pass, Stack!Rest, StackNow
  <2> QED
    BY <2>1, <2>2 DEF Stack!Next
<1>4. CASE ~IsLeaf(n) /\ Goes(firstTraversalChild(n))
  <2>1. /\ StackInv' /\ StackNow # <<>> /\ StackNow[Len(StackNow)] = n
        /\ StackNow' = Stack!PushAll(SubSeq(StackNow, 1, Len(StackNow) - 1), octree.children[n])
    BY <1>1, <1>4, OnTop, StackOpens
  <2>2. Stack!Open
    BY <1>1, <1>2, <2>1 DEF Stack!Open, Stack!Rest, Stack!Top, StackNow
  <2> QED
    BY <2>1, <2>2 DEF Stack!Next
<1>5. CASE LeafError(n) # 0 /\ Goes(Malformed(LeafError(n)))
  <2>1. walk' = "failed"
    BY <1>5 DEF Goes, Malformed
  <2>2. StackInv' /\ Stack!Abandon
    BY <1>1, <2>1 DEF StackInv, StackNow, Stack!Abandon
  <2> QED
    BY <2>2 DEF Stack!Next
<1> QED
  BY <1>3, <1>4, <1>5 DEF VisitLeaf, SkipMassless, AcceptNode, OpenNode

----------------------------------------------------------------------------
(* Theorems *)

(* What has been counted is, at every node the thread comes to, all that it has passed. *)
THEOREM WalkInvariant == Spec => []WalkInv
<1>1. Init => WalkInv
  BY DEF Init, BuildInit, WalkInit, WalkInv, OnlySingular
<1>2. WalkInv /\ OctreeBuilt /\ [Next]_vars => WalkInv'
  <2> SUFFICES ASSUME WalkInv, OctreeBuilt, [Next]_vars
               PROVE  WalkInv'
    OBVIOUS
  <2>1. CASE Build
    BY <2>1, BuildStep
  <2>2. CASE Traverse
    <3>1. stage = "built" /\ Walk /\ UNCHANGED buildVars
      BY <2>2 DEF Traverse
    <3>2. CASE Launch
      BY <3>1, <3>2, LaunchStep
    <3>3. ASSUME NEW n \in Nodes, VisitLeaf(n) \/ SkipMassless(n) \/ AcceptNode(n) \/ OpenNode(n)
          PROVE  WalkInv'
      BY <3>1, <3>3, VisitLeafStep, SkipMasslessStep, AcceptNodeStep, OpenNodeStep
    <3> QED
      BY <3>1, <3>2, <3>3 DEF Walk
  <2>3. CASE UNCHANGED vars
    <3>1. UNCHANGED <<positions, box, indices, octree, stage>> /\ UNCHANGED walkVars
      BY <2>3 DEF vars, buildVars
    <3>2. /\ IsSparseOctree => IsSparseOctree'
          /\ Nodes' = Nodes /\ Particles' = Particles /\ \A m : Passed(m)' = Passed(m)
      BY <3>1, SameOctree, SameBelow DEF Passed
    <3>3. \A ps : CountsOf(ps)' = CountsOf(ps)
      BY <3>1 DEF CountsOf, Bodies, Others, Particles, walkVars
    <3>4. (walk = "walking" => \E m \in Nodes : node = m /\ counted = CountsOf(Passed(m)))'
      BY <3>1, <3>2, <3>3 DEF WalkInv, walkVars
    <3>5. (walk = "done" => counted = CountsOf(Particles))'
      BY <3>1, <3>2, <3>3 DEF WalkInv, walkVars
    <3>6. OnlySingular'
      BY <3>1, <3>2 DEF WalkInv, OnlySingular, Bodies, walkVars
    <3> QED
      BY <3>1, <3>2, <3>4, <3>5, <3>6 DEF WalkInv, walkVars
  <2> QED
    BY <2>1, <2>2, <2>3 DEF Next
<1> QED
  BY <1>1, <1>2, OctreeIsBuilt, PTL DEF Spec

(* Whatever nodes a thread accepts, it adds every other body with mass exactly once and its *)
(* own target never (computeBarnesHutAccelerationKernel).                                   *)
THEOREM EachOnce == Spec => []EachBodyOnce
<1>1. WalkInv => EachBodyOnce
  <2> SUFFICES ASSUME WalkInv, walk \in {"walking", "done"}, NEW p \in Particles
               PROVE  /\ counted[p] <= 1
                      /\ walk = "done" /\ p \in Bodies(Particles \ {target}) => counted[p] = 1
                      /\ p = target => counted[p] = 0
    BY DEF EachBodyOnce
  <2>1. PICK ps : counted = CountsOf(ps) /\ (walk = "done" => ps = Particles)
    BY DEF WalkInv
  <2>2. counted[p] = IF p \in Bodies(Others(ps)) THEN 1 ELSE 0
    BY <2>1 DEF CountsOf
  <2>3. p = target => p \notin Bodies(Others(ps))
    BY DEF Bodies, Others
  <2>4. walk = "done" /\ p \in Bodies(Particles \ {target}) => p \in Bodies(Others(ps))
    BY <2>1 DEF Others
  <2> QED
    BY <2>2, <2>3, <2>4
<1> QED
  BY <1>1, WalkInvariant, PTL

(* The traversal never reports a malformed octree, only the singular interaction. *)
THEOREM Singular == Spec => []OnlySingular
<1>1. WalkInv => OnlySingular
  BY DEF WalkInv
<1> QED
  BY <1>1, WalkInvariant, PTL

(* The traversal without a stack (firstTraversalChild, nextTraversalNode) goes step by step as *)
(* one with a stack would that pushes children 0 to 7 (barnes_hut.cu), for every octree.       *)
THEOREM WalksAsStack == Spec => StackSpec
<1>1. Init => Stack!Init /\ StackInv
  BY DEF Init, WalkInit, Stack!Init, StackInv
<1>2. WalkInv /\ OctreeInv /\ StackInv /\ [Next]_vars => StackInv' /\ [Stack!Next]_(Stack!vars)
  <2> SUFFICES ASSUME WalkInv, OctreeInv, StackInv, [Next]_vars
               PROVE  StackInv' /\ [Stack!Next]_(Stack!vars)
    OBVIOUS
  <2>1. CASE Build
    <3>1. UNCHANGED walkVars /\ BuildNext
      BY <2>1 DEF Build
    <3>2. stage # "built"
      <4>1. ASSUME NEW r, LinkNode(r) \/ LeaveEdge(r)
            PROVE  stage = "materialize"
        BY <4>1 DEF LinkNode, LeaveEdge
      <4>2. ASSUME NEW i, BuildNode(i)
            PROVE  stage = "tree"
        BY <4>2 DEF BuildNode
      <4>3. BuildKeys \/ SortKeys \/ BuildGroups \/ BuildPlan \/ ComputeGeometry => stage # "built"
        BY DEF BuildKeys, SortKeys, BuildGroups, BuildPlan, ComputeGeometry
      <4> QED
        BY <3>1, <4>1, <4>2, <4>3 DEF BuildNext
    <3>3. walk = "idle" /\ walk' = "idle"
      BY <3>1, <3>2 DEF WalkInv, walkVars
    <3>4. StackInv' /\ Stack!Rebuild
      BY <3>3 DEF StackInv, Stack!Rebuild
    <3> QED
      BY <3>4 DEF Stack!Next
  <2>2. CASE Traverse
    <3>1. stage = "built" /\ Walk
      BY <2>2 DEF Traverse
    <3>2. CASE Launch
      <4>1. /\ UNCHANGED <<positions, box, indices, octree>> /\ walk = "idle" /\ walk' = "walking"
            /\ node' = Root
        BY <3>2 DEF Launch
      <4>2. Sound
        BY <3>1 DEF WalkInv, OctreeInv, Sound
      <4>3. Root \in Nodes /\ Waiting(Root) \cup {Root} = {Root}
        BY <4>2, NodeLevels, WaitingIs
      <4>4. Lists(<<Root>>, Waiting(Root) \cup {Root})
        <5>1. <<Root>> \in Seq(Nodes) /\ Len(<<Root>>) = 1 /\ <<Root>>[1] = Root
          BY <4>3
        <5>2. \A i, j \in 1 .. 1 : ~(i < j)
          OBVIOUS
        <5> QED
          BY <4>3, <5>1, <5>2 DEF Lists
      <4>5. StackInv' /\ StackNow' = <<Root>>
        BY <4>1, <4>2, <4>3, <4>4, StackMoves
      <4>6. Stack!Start
        BY <4>1, <4>5 DEF Stack!Start, StackNow, Root
      <4> QED
        BY <4>5, <4>6 DEF Stack!Next
    <3>3. ASSUME NEW n \in Nodes, VisitLeaf(n) \/ SkipMassless(n) \/ AcceptNode(n) \/ OpenNode(n)
          PROVE  StackInv' /\ Stack!Next
      BY <3>3, StackStep DEF OctreeInv
    <3> QED
      BY <3>1, <3>2, <3>3 DEF Walk
  <2>3. CASE UNCHANGED vars
    <3>1. UNCHANGED <<octree, walk, node>>
      BY <2>3 DEF vars, walkVars
    <3>2. StackNow' = StackNow
      BY <3>1, SameStack DEF StackNow
    <3>3. StackInv'
      <4>1. PICK s, P : s = StackNow /\ P = Waiting(node) \cup {node}
        OBVIOUS
      <4>2. (Lists(s, P))' <=> Lists(s, P)
        BY <3>1, SameStack
      <4>3. s = StackNow' /\ P = (Waiting(node) \cup {node})'
        BY <3>1, <3>2, <4>1, SameStack
      <4> QED
        BY <3>1, <4>1, <4>2, <4>3 DEF StackInv
    <3>4. UNCHANGED Stack!vars
      BY <3>1, <3>2 DEF Stack!vars, StackNow
    <3> QED
      BY <3>3, <3>4
  <2> QED
    BY <2>1, <2>2, <2>3 DEF Next
<1> QED
  BY <1>1, <1>2, WalkInvariant, OctreeInvariant, PTL DEF Spec, StackSpec, Stack!Spec
=============================================================================

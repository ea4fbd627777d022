---------------------------- MODULE SparseOctree ----------------------------
(***************************************************************************)
(* The data that the construction of the octree hands to the traversal     *)
(* (octree_types.hpp), and what a correct octree of the particles is: its  *)
(* nodes are the cells of the recursively halved bounding cube that hold   *)
(* particles, down to the first level at which a cell holds particles of   *)
(* one Morton key only.                                                    *)
(*                                                                         *)
(* Lengths inside the cube are counted from its lower corner in units of   *)
(* 1/2048 of its side: half the side of a cell of the last level is 1.     *)
(***************************************************************************)
EXTENDS MortonKeys

VARIABLES
  positions, \* particle -> its three coordinates, not changed while an octree is in use
  box,       \* Bbox: the cube around them
  indices,   \* sortedIndices: place in the Morton order -> particle
  octree     \* the arrays of struct Octree, by node

NoNode == -1
Root == 0
Particles == DOMAIN positions
Nodes == DOMAIN octree.parent

\* The nodes in a node's slots, and the particles of a leaf.
ChildrenOf(n) == {octree.children[n][o] : o \in Octants} \ {NoNode}
IsLeaf(n) == octree.particleCount[n] > 0
ParticlesOf(n) ==
  {indices[i] : i \in octree.firstParticle[n] .. octree.firstParticle[n] + octree.particleCount[n] - 1}

\* The nodes from n up to the root.
Ancestry(n) ==
  LET up == [octree.parent EXCEPT ![Root] = Root]
      above[k \in 0 .. kOctreeMaxLevel] == IF k = 0 THEN n ELSE up[above[k - 1]]
  IN {above[k] : k \in 0 .. kOctreeMaxLevel}
ParticlesBelow(n) == UNION {ParticlesOf(l) : l \in {m \in Nodes : IsLeaf(m) /\ n \in Ancestry(m)}}

----------------------------------------------------------------------------
(* Cells, from the positions alone *)

CellOf(p, level) ==
  [level |-> level,
   at |-> [a \in Axes |-> Quantised(box, a, positions[p][a]) \div 2^(kOctreeMaxLevel - level)]]
Enclosing(c) == [level |-> c.level - 1, at |-> [a \in Axes |-> c.at[a] \div 2]]
OctantOf(c) == 4 * (c.at[1] % 2) + 2 * (c.at[2] % 2) + (c.at[3] % 2)
Inside(c) == {p \in Particles : CellOf(p, c.level) = c}
OneKey(ps) == \A p, q \in ps : CellOf(p, kOctreeMaxLevel) = CellOf(q, kOctreeMaxLevel)

OccupiedCells ==
  {CellOf(p, 0) : p \in Particles} \cup
  {c \in {CellOf(p, l) : p \in Particles, l \in 1 .. kOctreeMaxLevel} :
     c.level = 1 \/ ~OneKey(Inside(Enclosing(c)))}

\* The cell a node's centre and size describe.
CellAt(n) ==
  [level |-> octree.level[n],
   at |-> [a \in Axes |-> (octree.centre[n][a] - octree.halfSize[n]) \div (2 * octree.halfSize[n])]]

\* The centre and the size are exactly those of the cell.
IsExactCell(n) ==
  /\ octree.halfSize[n] = 2^(kOctreeMaxLevel - octree.level[n])
  /\ \A a \in Axes : octree.centre[n][a] = octree.halfSize[n] * (2 * CellAt(n).at[a] + 1)

\* The octree of the particles: a node for each occupied cell, each linked from the slot of its
\* octant and from no other, the leaves with the particles of their cells.
IsSparseOctree ==
  /\ Nodes = 0 .. Cardinality(OccupiedCells) - 1
  /\ {CellAt(n) : n \in Nodes} = OccupiedCells
  /\ \A n \in Nodes : IsExactCell(n)
  /\ octree.parent[Root] = NoNode
  /\ \A n \in Nodes \ {Root} :
       /\ octree.parent[n] \in Nodes
       /\ CellAt(octree.parent[n]) = Enclosing(CellAt(n))
       /\ octree.children[octree.parent[n]][OctantOf(CellAt(n))] = n
  /\ \A n \in Nodes, o \in Octants :
       LET c == octree.children[n][o]
       IN c # NoNode => c \in Nodes \ {Root} /\ octree.parent[c] = n /\ OctantOf(CellAt(c)) = o
  /\ \A n \in Nodes :
       IF IsLeaf(n)
       THEN /\ ChildrenOf(n) = {}
            /\ octree.firstParticle[n] \in 0 .. Cardinality(Particles) - octree.particleCount[n]
            /\ ParticlesOf(n) = Inside(CellAt(n))
       ELSE ChildrenOf(n) # {}
=============================================================================

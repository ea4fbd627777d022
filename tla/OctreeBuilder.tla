---------------------------- MODULE OctreeBuilder ----------------------------
(***************************************************************************)
(* The construction of the octree from the positions: the stages           *)
(* Simulation::rebuildSpatialStructure runs one after the other.  A kernel  *)
(* whose threads write only what is theirs is one action; the threads of   *)
(* buildTreeKernel (which write their children's parents) and those of     *)
(* materializeSparseOctreeKernel (which link into shared slots) are        *)
(* interleaved.  The host synchronises after every kernel.                 *)
(***************************************************************************)
EXTENDS SparseOctree, RadixTree

CONSTANT Layouts  \* the positions the particles may have, each 0 .. n - 1 -> triple

ASSUME LayoutAssumption ==
  \A layout \in Layouts :
    /\ DOMAIN layout = 0 .. Cardinality(DOMAIN layout) - 1
    /\ Cardinality(DOMAIN layout) \in Nat \ {0}
    /\ \A p \in DOMAIN layout : layout[p] \in [Axes -> Int]

VARIABLES
  stage,     \* what the host does next, "built", or "failed" when it has thrown
  keys,      \* the particles' keys, by particle and then sorted
  groups,    \* MortonLeafGroups
  tree,      \* the radix tree
  plan,      \* RadixToOctreePlan
  threads,   \* the threads of the running kernel that have ended
  linked,    \* radix node -> how many nodes of its edge its thread has linked
  errorCode  \* the running kernel's

buildVars == <<stage, keys, groups, tree, plan, threads, linked, errorCode>>

Empty == <<>>

BuildInit ==
  /\ positions \in Layouts
  /\ stage = "keys"
  /\ box = Empty /\ keys = Empty /\ indices = Empty
  /\ groups = Empty /\ tree = Empty /\ plan = Empty /\ octree = Empty
  /\ threads = {} /\ linked = Empty
  /\ errorCode = 0

\* atomicCAS(errorCode, 0, code)
Reported(code) == IF errorCode = 0 THEN code ELSE errorCode

----------------------------------------------------------------------------
(* MortonKeys::build *)

BuildKeys ==
  /\ stage = "keys"
  /\ stage' = "sort"
  /\ box' = Bbox(positions)
  /\ keys' = [p \in Particles |-> MortonKey(box', positions[p])]
  /\ indices' = [p \in Particles |-> p]
  /\ UNCHANGED <<positions, octree, groups, tree, plan, threads, linked, errorCode>>

\* thrust::stable_sort_by_key: the particle whose key has i others before it.
KeyBefore(p, q) == Precedes(keys[p], keys[q]) \/ (keys[p] = keys[q] /\ p < q)
Sorted(i) == CHOOSE p \in Particles : Cardinality({q \in Particles : KeyBefore(q, p)}) = i

SortKeys ==
  /\ stage = "sort"
  /\ stage' = "groups"
  /\ keys' = [i \in Particles |-> keys[Sorted(i)]]
  /\ indices' = [i \in Particles |-> indices[Sorted(i)]]
  /\ UNCHANGED <<positions, box, octree, groups, tree, plan, threads, linked, errorCode>>

----------------------------------------------------------------------------
(* buildMortonLeafGroups, and buildTree up to its kernel *)

\* cub::DeviceScan::ExclusiveSum
ExclusiveSum(f) == [k \in DOMAIN f |-> MapThenSumSet(LAMBDA j : f[j], 0 .. k - 1)]

\* cub::DeviceRunLengthEncode: the distinct keys in order, and how often each occurs.
RunLengths ==
  LET starts == {i \in DOMAIN keys : i = 0 \/ keys[i] # keys[i - 1]}
      start == [k \in 0 .. Cardinality(starts) - 1 |->
                  CHOOSE s \in starts : Cardinality({t \in starts : t < s}) = k]
  IN [uniqueKeys |-> [k \in DOMAIN start |-> keys[start[k]]],
      particleCount |-> [k \in DOMAIN start |->
                           Cardinality({i \in DOMAIN keys : keys[i] = keys[start[k]]})]]

BuildGroups ==
  /\ stage = "groups"
  /\ stage' = "tree"
  /\ groups' = [uniqueKeys |-> RunLengths.uniqueKeys,
                particleCount |-> RunLengths.particleCount,
                firstParticle |-> ExclusiveSum(RunLengths.particleCount)]
  /\ tree' = EmptyTree(Size(groups'.uniqueKeys))
  /\ threads' = {}
  /\ UNCHANGED <<positions, box, indices, octree, keys, plan, linked, errorCode>>

nLeaves == Size(groups.uniqueKeys)
RadixNodes == 0 .. 2 * nLeaves - 2
Internal == 0 .. nLeaves - 2

\* A thread of buildTreeKernel; nothing it reads is written by another.
BuildNode(i) ==
  /\ stage = "tree"
  /\ i \in Internal \ threads
  /\ tree' = WithNode(tree, groups.uniqueKeys, i)
  /\ threads' = threads \cup {i}
  /\ UNCHANGED <<positions, box, indices, octree, stage, keys, groups, plan, linked, errorCode>>

----------------------------------------------------------------------------
(* buildRadixToOctreePlan, the allocation of the octree and its initial contents *)

octreeLevelForRadixNode(r) ==
  (IF r < nLeaves THEN kMortonSpatialBits ELSE tree.prefixLength[r - nLeaves] - kMortonPaddingBits)
    \div kMortonDimensions

ParentLevel(r) == IF tree.parent[r] = None THEN 0 ELSE octreeLevelForRadixNode(tree.parent[r])

NodeLevel(r) == IF r < nLeaves THEN ParentLevel(r) + 1 ELSE octreeLevelForRadixNode(r)

PlanError(r) ==
  LET spatialPrefix == tree.prefixLength[r - nLeaves] - kMortonPaddingBits
  IN CASE r < nLeaves /\ ~ groups.uniqueKeys[r] \subseteq kMortonSpatialMask -> 1
       [] r >= nLeaves /\ spatialPrefix \notin 0 .. kMortonSpatialBits - 1 -> 4
       [] tree.parent[r] # None /\ tree.parent[r] \notin nLeaves .. 2 * nLeaves - 2 -> 2
       [] NodeLevel(r) \notin 0 .. kOctreeMaxLevel \/ NodeLevel(r) < ParentLevel(r) -> 3
       [] OTHER -> 0

EmptyOctree(n) ==
  LET nodes == 0 .. n - 1
  IN [children |-> [m \in nodes |-> [o \in Octants |-> NoNode]],
      parent |-> [m \in nodes |-> NoNode],
      level |-> [m \in nodes |-> IF m = Root THEN 0 ELSE -1],
      prefix |-> [m \in nodes |-> {}],
      firstParticle |-> [m \in nodes |-> -1],
      particleCount |-> [m \in nodes |-> 0],
      centre |-> Empty, halfSize |-> Empty]

\* The errors of all threads are one code, whichever comes first: the host throws for any.
BuildPlan ==
  /\ stage = "tree"
  /\ threads = Internal
  /\ errorCode' = Max({PlanError(r) : r \in RadixNodes})
  /\ stage' = IF errorCode' = 0 THEN "materialize" ELSE "failed"
  /\ LET counts == [r \in RadixNodes |-> NodeLevel(r) - ParentLevel(r)]
         offsets == ExclusiveSum(counts)
         last == 2 * nLeaves - 2
     IN /\ plan' = [radixLevel |-> [r \in RadixNodes |-> NodeLevel(r)],
                    edgeNodeCount |-> counts, edgeNodeOffset |-> offsets]
        /\ octree' = EmptyOctree(1 + offsets[last] + counts[last])
  /\ threads' = {}
  /\ linked' = [r \in RadixNodes |-> 0]
  /\ UNCHANGED <<positions, box, indices, keys, groups, tree>>

----------------------------------------------------------------------------
(* materializeSparseOctreeKernel: the thread of radix node r makes the nodes of the edge *)
(* that ends at r, from the cell of r's nearest ancestor with nodes of its own down.      *)

EdgeParentLevel(r) == plan.radixLevel[r] - plan.edgeNodeCount[r]
LastNodeOf(r) == plan.edgeNodeOffset[r] + plan.edgeNodeCount[r]

\* Mutant: every radix ancestor is taken to have a node of its own.
HasNode(r) == TRUE
HasNodes(r) == plan.edgeNodeCount[r] > 0

\* The ancestor the edge starts from: None above the root, Lost when the climb is given up.
Lost == -2
EdgeStart(r) ==
  LET up == [n \in RadixNodes \cup {None} |-> IF n = None THEN None ELSE tree.parent[n]]
      above[k \in 0 .. 2 * nLeaves - 1] == IF k = 0 THEN up[r] ELSE up[above[k - 1]]
      ends == {k \in DOMAIN above : above[k] = None \/ HasNodes(above[k])}
  IN IF ends = {} THEN Lost ELSE above[Min(ends)]

representativeKeyForRadixNode(r) ==
  groups.uniqueKeys[IF r < nLeaves THEN r ELSE tree.rangeFirst[r - nLeaves]]

\* The errors found before the first node is made.
EdgeError(r) ==
  LET start == EdgeStart(r)
  IN CASE plan.edgeNodeCount[r] < 0 \/ plan.radixLevel[r] \notin 0 .. kOctreeMaxLevel -> 1
       [] plan.edgeNodeCount[r] = 0 -> IF r < nLeaves THEN 5 ELSE 0
       [] EdgeParentLevel(r) < 0 -> 1
       [] r >= nLeaves /\ tree.rangeFirst[r - nLeaves] \notin 0 .. nLeaves - 1 -> 7
       [] start = Lost -> 2
       [] start = None /\ EdgeParentLevel(r) # 0 -> 3
       [] start # None /\ plan.radixLevel[start] # EdgeParentLevel(r) -> 3
       [] OTHER -> 0

\* A thread with nothing to make, or with an error, returns.
LeaveEdge(r) ==
  /\ stage = "materialize"
  /\ r \in RadixNodes \ threads
  /\ linked[r] = 0
  /\ plan.edgeNodeCount[r] = 0 \/ EdgeError(r) # 0
  /\ errorCode' = Reported(EdgeError(r))
  /\ threads' = threads \cup {r}
  /\ UNCHANGED <<positions, box, indices, octree, stage, keys, groups, tree, plan, linked>>

\* The next node of the edge is written and linked by an atomicCAS on its parent's slot; the
\* last one of a radix leaf's edge gets the particles of the leaf's group.
LinkNode(r) ==
  /\ stage = "materialize"
  /\ r \in RadixNodes \ threads
  /\ linked[r] < plan.edgeNodeCount[r]
  /\ linked[r] = 0 => EdgeError(r) = 0
  /\ LET key == representativeKeyForRadixNode(r)
         node == 1 + plan.edgeNodeOffset[r] + linked[r]
         level == EdgeParentLevel(r) + linked[r] + 1
         parent == IF linked[r] > 0 THEN node - 1
                   ELSE IF EdgeStart(r) = None THEN Root ELSE LastNodeOf(EdgeStart(r))
         octant == octantAtLevel(key, level)
         last == linked[r] + 1 = plan.edgeNodeCount[r]
         taken == octree.children[parent][octant] \notin {NoNode, node}
         group == last /\ ~taken /\ r < nLeaves
         error == CASE node \notin Nodes \ {Root} -> 6
                    [] node \in Nodes \ {Root} /\ taken -> 4
                    [] group /\ level \notin 1 .. kOctreeMaxLevel -> 5
                    [] OTHER -> 0
         written == [octree EXCEPT
           !.level[node] = level, !.prefix[node] = mortonPrefixAtLevel(key, level),
           !.parent[node] = parent, !.children[parent][octant] = IF taken THEN @ ELSE node]
     IN /\ octree' = CASE error = 6 -> octree
                       [] group /\ error = 0 ->
                            [written EXCEPT !.firstParticle[node] = groups.firstParticle[r],
                                            !.particleCount[node] = groups.particleCount[r]]
                       [] OTHER -> written
        /\ errorCode' = Reported(error)
        /\ linked' = [linked EXCEPT ![r] = @ + 1]
        /\ threads' = IF last \/ error # 0 THEN threads \cup {r} ELSE threads
  /\ UNCHANGED <<positions, box, indices, stage, keys, groups, tree, plan>>

----------------------------------------------------------------------------
(* computeOctreeGeometry *)

prefixIsValidForLevel(prefix, level) ==
  /\ prefix \subseteq kMortonSpatialMask
  /\ prefix = mortonPrefixAtLevel(prefix, level)

\* The bit of an octant that selects the upper half along an axis: 4 for x, 2 for y, 1 for z.
UpperHalf(octant, a) == 3 - a \in Word(octant)
HalfSizeAt(level) == 2^(kOctreeMaxLevel - level)
Centre(prefix, level) ==
  [a \in Axes |->
     LET move == [depth \in 1 .. level |->
                    IF UpperHalf(octantAtLevel(prefix, depth), a) THEN HalfSizeAt(depth)
                    ELSE -HalfSizeAt(depth)]
     IN HalfSizeAt(0) + MapThenSumSet(LAMBDA depth : move[depth], 1 .. level)]

\* The host has thrown if a thread of the last kernel has reported an error.
ComputeGeometry ==
  /\ stage = "materialize"
  /\ threads = RadixNodes
  /\ LET bad == {n \in Nodes : \/ octree.level[n] \notin 0 .. kOctreeMaxLevel
                               \/ ~prefixIsValidForLevel(octree.prefix[n], octree.level[n])}
     IN /\ errorCode' = IF errorCode = 0 /\ bad # {} THEN 2 ELSE errorCode
        /\ stage' = IF errorCode' = 0 THEN "built" ELSE "failed"
        /\ octree' = IF errorCode' # 0 THEN octree
                     ELSE [octree EXCEPT
                             !.centre = [n \in Nodes |-> Centre(octree.prefix[n], octree.level[n])],
                             !.halfSize = [n \in Nodes |-> HalfSizeAt(octree.level[n])]]
  /\ threads' = {}
  /\ UNCHANGED <<positions, box, indices, keys, groups, tree, plan, linked>>

BuildNext ==
  \/ BuildKeys
  \/ SortKeys
  \/ BuildGroups
  \/ \E i \in 0 .. Cardinality(Particles) - 2 : BuildNode(i)
  \/ BuildPlan
  \/ \E r \in 0 .. 2 * Cardinality(Particles) - 2 : LinkNode(r) \/ LeaveEdge(r)
  \/ ComputeGeometry
=============================================================================

---------------------------- MODULE ForcePipeline ----------------------------
(***************************************************************************)
(* The way from the particles' positions to their accelerations: the       *)
(* octree is built (OctreeBuilder), its masses are summed (MassPropagation *)
(* on its own) and it is traversed (ForceTraversal).                       *)
(***************************************************************************)
EXTENDS OctreeBuilder, ForceTraversal

vars == <<positions, box, indices, octree, buildVars, walkVars>>

Init == BuildInit /\ WalkInit

Build == BuildNext /\ UNCHANGED walkVars
Traverse == stage = "built" /\ Walk /\ UNCHANGED buildVars

Next == Build \/ Traverse

Spec == Init /\ [][Next]_vars

----------------------------------------------------------------------------
(* Properties *)

\* The nodes of the radix tree are the common prefixes of the keys: the first internal node
\* covers them all, the children of a node split its range where the keys first differ, and
\* every other node hangs below exactly one.
RadixRange(r) == IF r < nLeaves THEN r .. r ELSE tree.rangeFirst[r - nLeaves] .. tree.rangeLast[r - nLeaves]
SharePrefix(places, length) ==
  \A j, k \in places : Xor(groups.uniqueKeys[j], groups.uniqueKeys[k]) \subseteq 0 .. 31 - length
IsRadixTree ==
  /\ nLeaves > 1 => RadixRange(nLeaves) = 0 .. nLeaves - 1
  /\ \A i \in Internal :
       LET children == {tree.left[i], tree.right[i]}
           length == tree.prefixLength[i]
           range == RadixRange(nLeaves + i)
       IN /\ children = {r \in RadixNodes : tree.parent[r] = nLeaves + i}
          /\ UNION {RadixRange(r) : r \in children} = range
          /\ \A j \in RadixRange(tree.left[i]), k \in RadixRange(tree.right[i]) : j < k
          /\ SharePrefix(range, length) /\ ~SharePrefix(range, length + 1)
          /\ \A r \in children : SharePrefix(RadixRange(r), length + 1)
RadixTreeBuilt == stage = "tree" /\ threads = Internal => IsRadixTree

\* Whatever the order of the threads, the construction never fails ("Two octree nodes attempted
\* to occupy the same parent octant" and the six other errors do not occur) and yields the
\* octree of the particles.
OctreeBuilt == stage # "failed" /\ (stage = "built" /\ walk = "idle" => IsSparseOctree)

\* The stackless traversal is the depth-first traversal with a stack.
Stack == INSTANCE StackTraversal WITH
  children <- IF octree = Empty THEN Empty ELSE octree.children,
  stack <- IF walk = "walking" THEN StackAt(node) ELSE <<>>
StackSpec == Stack!Spec
=============================================================================

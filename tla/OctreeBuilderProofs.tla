------------------------- MODULE OctreeBuilderProofs ------------------------
(***************************************************************************)
(* OctreeBuilder for every layout of the particles and every order in      *)
(* which the threads of its kernels run: the plan gives every edge of the  *)
(* radix tree a range of nodes of its own, the threads that write the      *)
(* edges never touch each other's nodes and slots, no kernel reports an    *)
(* error, and what they leave is the sparse octree of the particles.       *)
(***************************************************************************)
EXTENDS MortonKeysProofs

----------------------------------------------------------------------------
(* The radix tree in terms of the ranges of its nodes *)

Lcp(j, k) == longestCommonPrefix(groups.uniqueKeys, j, k)
FirstOf(r) == IF r < nLeaves THEN r ELSE tree.rangeFirst[r - nLeaves]
LastOf(r) == IF r < nLeaves THEN r ELSE tree.rangeLast[r - nLeaves]

(* The keys have thirty bits, so all of them share two. *)
LEMMA KeysShort ==
  ASSUME InOrder, Grouped, NEW k \in 0 .. nLeaves - 1
  PROVE  groups.uniqueKeys[k] \subseteq kMortonSpatialMask
<1>1. /\ groups.firstParticle[k] \in Nat /\ groups.particleCount[k] \in Nat \ {0}
      /\ {i \in Particles : keys[i] = groups.uniqueKeys[k]}
            = groups.firstParticle[k] .. groups.firstParticle[k] + groups.particleCount[k] - 1
  BY DEF Grouped
<1>2. groups.firstParticle[k] \in {i \in Particles : keys[i] = groups.uniqueKeys[k]}
  BY <1>1
<1>3. PICK i \in Particles : keys[i] = groups.uniqueKeys[k]
  BY <1>2
<1> QED
  BY <1>3, KeyBits DEF InOrder

(* The lengths that keys of the order share: none with a place outside it, at least two *)
(* and not all of their bits otherwise, and of three keys the outer two share the shorter *)
(* of what their two gaps share, which differ. *)
LEMMA Gaps ==
  ASSUME InOrder, Grouped
  PROVE  /\ nLeaves \in Nat \ {0}
         /\ Internal = 0 .. nLeaves - 2 /\ RadixNodes = 0 .. 2 * nLeaves - 2
         /\ \A i \in 0 .. nLeaves - 1, j \in Int \ (0 .. nLeaves - 1) : Lcp(i, j) = -1
         /\ \A i, j \in 0 .. nLeaves - 1 : i # j => Lcp(i, j) \in 2 .. 31 /\ Lcp(i, j) = Lcp(j, i)
         /\ \A i, j, k \in 0 .. nLeaves - 1 : i < j /\ j < k =>
              /\ Lcp(i, j) # Lcp(j, k)
              /\ Lcp(i, k) = IF Lcp(i, j) < Lcp(j, k) THEN Lcp(i, j) ELSE Lcp(j, k)
<1> DEFINE K == groups.uniqueKeys
           N == nLeaves
<1>0. /\ Nested(K) /\ Size(K) = N /\ N \in Nat \ {0}
      /\ Internal = 0 .. N - 2 /\ RadixNodes = 0 .. 2 * N - 2
  BY Sizes
<1>1. /\ \A i \in 0 .. N - 1, j \in Int \ (0 .. N - 1) : Lcp(i, j) = -1
      /\ \A i, j \in 0 .. N - 1 : i # j => Lcp(i, j) \in 0 .. 31 /\ Lcp(i, j) = Lcp(j, i)
      /\ \A i, j, k \in 0 .. N - 1 : i < j /\ j < k =>
              /\ Lcp(i, j) # Lcp(j, k)
              /\ Lcp(i, k) = IF Lcp(i, j) < Lcp(j, k) THEN Lcp(i, j) ELSE Lcp(j, k)
  <2> HIDE DEF K, N
  <2> QED
    BY <1>0 DEF Nested, Lcp, K
<1>2. ASSUME NEW i \in 0 .. N - 1, NEW j \in 0 .. N - 1, i # j
      PROVE  Lcp(i, j) \in 2 .. 31
  <2>1. K[i] \subseteq 0 .. 29 /\ K[j] \subseteq 0 .. 29
    BY KeysShort DEF kMortonSpatialMask, kMortonSpatialBits, kMortonDimensions, kMortonBitsPerAxis
  <2>2. Xor(K[i], K[j]) \subseteq 0 .. 31 - 2
    BY <2>1 DEF Xor
  <2>3. Lcp(i, j) >= 2
    BY <1>2, <2>2, SharedBits DEF Lcp
  <2>4. Lcp(i, j) \in 0 .. 31
    BY <1>1, <1>2
  <2> QED
    BY <2>3, <2>4
<1> QED
  BY <1>0, <1>1, <1>2

(* A node is at one range of places, which shares more than its neighbours do with it, and of *)
(* every such range there is one node.                                                        *)
LEMMA NodeRange ==
  ASSUME InOrder, Grouped, Wired(Internal), NEW r \in RadixNodes
  PROVE  /\ FirstOf(r) \in 0 .. nLeaves - 1 /\ LastOf(r) \in 0 .. nLeaves - 1 /\ FirstOf(r) <= LastOf(r)
         /\ r < nLeaves <=> FirstOf(r) = LastOf(r)
         /\ Covers(groups.uniqueKeys, r, FirstOf(r), LastOf(r))
         /\ r >= nLeaves =>
              /\ r - nLeaves \in Internal
              /\ tree.prefixLength[r - nLeaves] = Lcp(FirstOf(r), LastOf(r))
              /\ Lcp(FirstOf(r), FirstOf(r) - 1) < Lcp(FirstOf(r), LastOf(r))
              /\ Lcp(LastOf(r), LastOf(r) + 1) < Lcp(FirstOf(r), LastOf(r))
<1> DEFINE K == groups.uniqueKeys
           N == nLeaves
           i == r - N
<1>0. /\ Size(K) = N /\ N \in Nat \ {0} /\ Internal = 0 .. N - 2 /\ RadixNodes = 0 .. 2 * N - 2
  BY Sizes
<1>1. CASE r < N
  <2>1. FirstOf(r) = r /\ LastOf(r) = r /\ r \in 0 .. N - 1 /\ ~(r >= N)
    BY <1>0, <1>1 DEF FirstOf, LastOf
  <2> QED
    BY <1>0, <1>1, <2>1 DEF Covers
<1>2. CASE ~(r < N)
  <2>1. /\ i \in Internal /\ FirstOf(r) = tree.rangeFirst[i] /\ LastOf(r) = tree.rangeLast[i] /\ r >= N
    BY <1>0, <1>2 DEF FirstOf, LastOf
  <2>2. PICK s \in Int : Made(i, s)
    BY <2>1 DEF Wired
  <2>3. /\ Spans(K, i, FirstOf(r), LastOf(r))
        /\ tree.prefixLength[i] = Lcp(FirstOf(r), LastOf(r))
    BY <2>1, <2>2 DEF Made, Parts, Lcp
  <2>4. /\ FirstOf(r) \in 0 .. N - 1 /\ LastOf(r) \in 0 .. N - 1 /\ FirstOf(r) < LastOf(r)
        /\ Lcp(FirstOf(r), FirstOf(r) - 1) < Lcp(FirstOf(r), LastOf(r))
        /\ Lcp(LastOf(r), LastOf(r) + 1) < Lcp(FirstOf(r), LastOf(r))
    BY <1>0, <2>3 DEF Spans, Lcp
  <2>5. Covers(K, r, FirstOf(r), LastOf(r))
    BY <1>0, <1>2, <2>3 DEF Covers
  <2>6. FirstOf(r) <= LastOf(r) /\ FirstOf(r) # LastOf(r)
    BY <1>0, <2>4
  <2> HIDE DEF K
  <2> QED
    BY <1>2, <2>1, <2>3, <2>4, <2>5, <2>6 DEF K
<1> QED
  BY <1>1, <1>2

(* Two nodes of the tree have different ranges. *)
LEMMA RangeOnce ==
  ASSUME InOrder, Grouped, Wired(Internal), NEW r \in RadixNodes, NEW t \in RadixNodes,
         FirstOf(r) = FirstOf(t), LastOf(r) = LastOf(t)
  PROVE  r = t
<1> DEFINE K == groups.uniqueKeys
<1>0. Size(K) = nLeaves /\ nLeaves \in Nat \ {0} /\ RadixNodes = 0 .. 2 * nLeaves - 2
  BY Sizes
<1>1. /\ Covers(K, r, FirstOf(r), LastOf(r)) /\ Covers(K, t, FirstOf(r), LastOf(r))
      /\ r < nLeaves <=> t < nLeaves
  BY NodeRange
<1>2. CASE r < nLeaves
  BY <1>0, <1>1, <1>2 DEF Covers
<1>3. CASE ~(r < nLeaves)
  <2>1. r - nLeaves = t - nLeaves
    BY <1>0, <1>1, <1>3 DEF Covers, Spans
  <2> QED
    BY <1>0, <2>1
<1> QED
  BY <1>2, <1>3

(* A node of the tree other than a leaf has two children, one for each part of its range. *)
LEMMA NodeSplits ==
  ASSUME InOrder, Grouped, Wired(Internal), NEW r \in RadixNodes, r >= nLeaves
  PROVE  \E s \in Int, b \in RadixNodes, c \in RadixNodes :
           /\ FirstOf(r) <= s /\ s < LastOf(r)
           /\ Lcp(s, s + 1) = tree.prefixLength[r - nLeaves]
           /\ FirstOf(b) = FirstOf(r) /\ LastOf(b) = s /\ tree.parent[b] = r
           /\ FirstOf(c) = s + 1 /\ LastOf(c) = LastOf(r) /\ tree.parent[c] = r
<1> DEFINE K == groups.uniqueKeys
           N == nLeaves
           i == r - N
           f == FirstOf(r)
           l == LastOf(r)
<1>0. /\ Nested(K) /\ Size(K) = N /\ N \in Nat \ {0} /\ Internal = 0 .. N - 2 /\ RadixNodes = 0 .. 2 * N - 2
  BY Sizes
<1>1. /\ i \in Internal /\ f = tree.rangeFirst[i] /\ l = tree.rangeLast[i]
  BY <1>0 DEF FirstOf, LastOf
<1>2. PICK s \in Int : Made(i, s)
  BY <1>1 DEF Wired
<1>3. /\ Parts(K, i, f, s, l) /\ tree.left[i] = LeftChild(K, f, s) /\ tree.right[i] = RightChild(K, s, l)
      /\ tree.prefixLength[i] = Lcp(f, l)
  BY <1>1, <1>2 DEF Made, Lcp
<1>4. PICK b, c : b = LeftChild(K, f, s) /\ c = RightChild(K, s, l)
  OBVIOUS
<1>5. b \in RadixNodes /\ Covers(K, b, f, s) /\ c \in RadixNodes /\ Covers(K, c, s + 1, l)
  <2> HIDE DEF K, N, f, l
  <2> QED
    BY <1>0, <1>3, <1>4, ChildrenCover
<1>6. tree.parent[b] = N + i /\ tree.parent[c] = N + i /\ N + i = r
  BY <1>0, <1>1, <1>3, <1>4 DEF Wired
<1>7. /\ Covers(K, b, FirstOf(b), LastOf(b)) /\ Covers(K, c, FirstOf(c), LastOf(c))
  BY <1>5, NodeRange
<1>8. FirstOf(b) = f /\ LastOf(b) = s /\ FirstOf(c) = s + 1 /\ LastOf(c) = l
  <2>1. PICK fb, lb, fc, lc : fb = FirstOf(b) /\ lb = LastOf(b) /\ fc = FirstOf(c) /\ lc = LastOf(c)
    OBVIOUS
  <2>2. fb = f /\ lb = s /\ fc = s + 1 /\ lc = l
    <3> HIDE DEF K, N, f, l
    <3>1. Nested(K) /\ Size(K) \in Nat \ {0}
      BY <1>0
    <3>2. Covers(K, b, fb, lb) /\ Covers(K, c, fc, lc)
      BY <1>7, <2>1
    <3>3. fb = f /\ lb = s
      BY <1>5, <3>1, <3>2, CoversOnce
    <3> DEFINE t == s + 1
    <3>4. Covers(K, c, t, l)
      BY <1>5
    <3> HIDE DEF t
    <3>5. fc = t /\ lc = l
      BY <3>1, <3>2, <3>4, CoversOnce
    <3> QED
      BY <3>3, <3>5 DEF t
  <2> QED
    BY <2>1, <2>2
<1>9. s \in f .. l - 1 /\ Lcp(s, s + 1) = Lcp(f, l)
  BY <1>3 DEF Parts, SplitsAt, Lcp
<1>10. f <= s /\ s < l
  <2>1. f \in Int /\ l \in Int
    BY <1>3, <1>0 DEF Parts, Spans
  <2> HIDE DEF f, l
  <2> QED
    BY <1>9, <2>1
<1> HIDE DEF K, N, f, l
<1>11. tree.parent[b] = r /\ tree.parent[c] = r /\ tree.prefixLength[i] = Lcp(s, s + 1)
  BY <1>3, <1>6, <1>9
<1> QED
  BY <1>5, <1>8, <1>10, <1>11 DEF f, l, N

(* A node's range is one part of its parent's, up to where that is split. *)
LEMMA ParentSpans ==
  ASSUME InOrder, Grouped, Wired(Internal), NEW r \in RadixNodes, tree.parent[r] # None
  PROVE  LET p == tree.parent[r]
         IN  /\ p \in nLeaves .. 2 * nLeaves - 2 /\ p \in RadixNodes
             /\ \/ /\ FirstOf(p) = FirstOf(r) /\ LastOf(r) < LastOf(p)
                   /\ Lcp(LastOf(r), LastOf(r) + 1) = tree.prefixLength[p - nLeaves]
                \/ /\ FirstOf(p) < FirstOf(r) /\ LastOf(p) = LastOf(r)
                   /\ Lcp(FirstOf(r), FirstOf(r) - 1) = tree.prefixLength[p - nLeaves]
<1> DEFINE K == groups.uniqueKeys
           N == nLeaves
<1>0. /\ Nested(K) /\ Size(K) = N /\ N \in Nat \ {0} /\ Internal = 0 .. N - 2 /\ RadixNodes = 0 .. 2 * N - 2
  BY Sizes
<1>1. PICK i \in Internal : tree.parent[r] = N + i /\ r \in {tree.left[i], tree.right[i]}
  BY DEF Wired
<1>2. PICK p : p = tree.parent[r] /\ p \in N .. 2 * N - 2 /\ p \in RadixNodes /\ p - N = i /\ ~(p < N)
  BY <1>0, <1>1
<1>3. PICK f, l : f = FirstOf(p) /\ l = LastOf(p) /\ f = tree.rangeFirst[i] /\ l = tree.rangeLast[i]
  BY <1>2 DEF FirstOf, LastOf
<1>4. PICK s \in Int : Made(i, s)
  BY <1>1 DEF Wired
<1>5. /\ Parts(K, i, f, s, l) /\ tree.left[i] = LeftChild(K, f, s) /\ tree.right[i] = RightChild(K, s, l)
      /\ tree.prefixLength[i] = Lcp(f, l)
  BY <1>3, <1>4 DEF Made, Lcp
<1>6. PICK a, b : a = FirstOf(r) /\ b = LastOf(r) /\ Covers(K, r, a, b)
  BY NodeRange
<1>7. s \in f .. l - 1 /\ Lcp(s, s + 1) = Lcp(f, l) /\ f \in 0 .. N - 1 /\ l \in 0 .. N - 1
  BY <1>0, <1>5 DEF Parts, Spans, SplitsAt, Lcp
<1>8. CASE r = tree.left[i]
  <2>1. a = f /\ b = s
    <3> HIDE DEF K, N
    <3>1. Covers(K, r, f, s)
      BY <1>0, <1>5, <1>8, ChildrenCover
    <3> QED
      BY <1>0, <1>6, <3>1, CoversOnce
  <2> HIDE DEF K, N
  <2> QED
    BY <1>2, <1>3, <1>5, <1>6, <1>7, <2>1 DEF N
<1>9. CASE r = tree.right[i]
  <2> DEFINE t == s + 1
  <2>1. a = t /\ b = l
    <3> HIDE DEF K, N
    <3>1. Covers(K, r, t, l)
      BY <1>0, <1>5, <1>9, ChildrenCover
    <3> HIDE DEF t
    <3> QED
      BY <1>0, <1>6, <3>1, CoversOnce
  <2>2. Lcp(a, a - 1) = Lcp(f, l)
    <3>1. s \in 0 .. N - 1 /\ s + 1 \in 0 .. N - 1 /\ s # s + 1 /\ (s + 1) - 1 = s
      BY <1>0, <1>7
    <3>2. Lcp(s + 1, s) = Lcp(s, s + 1)
      BY <3>1, Gaps
    <3> QED
      BY <1>7, <2>1, <3>1, <3>2
  <2>3. f < a
    BY <1>0, <1>7, <2>1
  <2> HIDE DEF K, N, t
  <2> QED
    BY <1>2, <1>3, <1>5, <1>6, <1>7, <2>1, <2>2, <2>3 DEF N
<1> QED
  BY <1>1, <1>8, <1>9

(* The radix tree is complete. *)
TreeMade == InOrder /\ Grouped /\ Wired(Internal)

(* The places of the keys below a node. *)
Holds(r) == FirstOf(r) .. LastOf(r)

(* Keys between two share at least what these share. *)
LEMMA Inner ==
  ASSUME Grouped, NEW f \in 0 .. nLeaves - 1, NEW j \in 0 .. nLeaves - 1,
         NEW k \in 0 .. nLeaves - 1, NEW l \in 0 .. nLeaves - 1, f <= j, j < k, k <= l
  PROVE  Lcp(j, k) >= Lcp(f, l)
<1> DEFINE K == groups.uniqueKeys
<1>1. Nested(K) /\ Size(K) = nLeaves /\ nLeaves \in Nat \ {0}
  BY Sizes
<1> HIDE DEF K
<1>2. longestCommonPrefix(K, j, k) >= longestCommonPrefix(K, f, l)
  BY <1>1, InnerPrefix
<1> QED
  BY <1>2 DEF Lcp, K

(* Two keys share at least their padding, and not all bits. *)
LEMMA PairShares ==
  ASSUME TreeMade, NEW j \in 0 .. nLeaves - 1, NEW k \in 0 .. nLeaves - 1, j # k
  PROVE  Lcp(j, k) \in 2 .. 31 /\ Lcp(j, k) = Lcp(k, j)
BY Gaps DEF TreeMade

(* Some of any nodes has the fewest keys. *)
LEMMA Smallest ==
  ASSUME TreeMade, NEW H \in SUBSET RadixNodes, H # {}
  PROVE  \E r \in H : \A t \in H : LastOf(r) - FirstOf(r) <= LastOf(t) - FirstOf(t)
<1> DEFINE T == {LastOf(r) - FirstOf(r) : r \in H}
<1>1. T \in SUBSET Nat
  <2>1. \A r \in H : LastOf(r) - FirstOf(r) \in Nat
    <3>1. \A r \in H : FirstOf(r) \in 0 .. nLeaves - 1 /\ LastOf(r) \in 0 .. nLeaves - 1 /\ FirstOf(r) <= LastOf(r)
      BY NodeRange DEF TreeMade
    <3> QED
      BY <3>1
  <2> QED
    BY <2>1
<1>2. T # {}
  OBVIOUS
<1>3. PICK m \in T : \A k \in T : m <= k
  <2> HIDE DEF T
  <2> QED
    BY <1>1, <1>2, NatLeast
<1> QED
  BY <1>3

(* The root of the tree has all keys below it. *)
LEMMA RootRange ==
  ASSUME TreeMade, nLeaves > 1
  PROVE  nLeaves \in RadixNodes /\ FirstOf(nLeaves) = 0 /\ LastOf(nLeaves) = nLeaves - 1
<1>1. nLeaves \in Nat \ {0} /\ RadixNodes = 0 .. 2 * nLeaves - 2
  BY Sizes DEF TreeMade
<1>2. RadixRange(nLeaves) = 0 .. nLeaves - 1
  BY WiredIsRadixTree DEF TreeMade, IsRadixTree
<1>3. nLeaves \in RadixNodes
  BY <1>1
<1>4. PICK f, l : f = FirstOf(nLeaves) /\ l = LastOf(nLeaves) /\ f \in 0 .. nLeaves - 1 /\ l \in 0 .. nLeaves - 1
  BY <1>3, NodeRange DEF TreeMade
<1>5. f .. l = 0 .. nLeaves - 1
  BY <1>1, <1>2, <1>4 DEF RadixRange, FirstOf, LastOf
<1>6. 0 \in f .. l /\ nLeaves - 1 \in f .. l
  <2>1. 0 \in 0 .. nLeaves - 1 /\ nLeaves - 1 \in 0 .. nLeaves - 1
    BY <1>1
  <2> QED
    BY <1>5, <2>1
<1> QED
  BY <1>1, <1>3, <1>4, <1>6

(* Only the root is below no node: of the nodes with more keys that contain a node's, one of the *)
(* children of the smallest is the node.                                                         *)
LEMMA ParentExists ==
  ASSUME TreeMade, NEW r \in RadixNodes, tree.parent[r] = None
  PROVE  FirstOf(r) = 0 /\ LastOf(r) = nLeaves - 1
<1> SUFFICES ASSUME ~(FirstOf(r) = 0 /\ LastOf(r) = nLeaves - 1)
             PROVE  FALSE
  OBVIOUS
<1> DEFINE N == nLeaves
           H == {p \in RadixNodes : FirstOf(p) <= FirstOf(r) /\ LastOf(r) <= LastOf(p) /\ p # r}
<1>0. N \in Nat \ {0} /\ Internal = 0 .. N - 2 /\ RadixNodes = 0 .. 2 * N - 2
  BY Sizes DEF TreeMade
<1>1. /\ FirstOf(r) \in 0 .. N - 1 /\ LastOf(r) \in 0 .. N - 1 /\ FirstOf(r) <= LastOf(r)
      /\ r < N <=> FirstOf(r) = LastOf(r)
  BY NodeRange DEF TreeMade
<1>2. N > 1
  BY <1>0, <1>1
<1>3. N \in H
  <2>1. N \in RadixNodes /\ FirstOf(N) = 0 /\ LastOf(N) = N - 1
    BY <1>2, RootRange
  <2> HIDE DEF N
  <2> QED
    BY <1>0, <1>1, <2>1 DEF N
<1>4. PICK p \in H : \A t \in H : LastOf(p) - FirstOf(p) <= LastOf(t) - FirstOf(t)
  <2>1. H \in SUBSET RadixNodes /\ H # {}
    BY <1>3
  <2> HIDE DEF H
  <2> QED
    BY <2>1, Smallest
<1>5. /\ p \in RadixNodes /\ FirstOf(p) <= FirstOf(r) /\ LastOf(r) <= LastOf(p) /\ p # r
      /\ FirstOf(p) \in 0 .. N - 1 /\ LastOf(p) \in 0 .. N - 1
      /\ p < N <=> FirstOf(p) = LastOf(p)
  BY <1>4, NodeRange DEF TreeMade
<1>6. p >= N
  <2> SUFFICES ASSUME p < N
               PROVE  FALSE
    BY <1>0, <1>5
  <2>1. FirstOf(p) = FirstOf(r) /\ LastOf(p) = LastOf(r)
    BY <1>0, <1>1, <1>5
  <2> QED
    BY <1>5, <2>1, RangeOnce DEF TreeMade
<1>7. PICK s \in Int, b \in RadixNodes, c \in RadixNodes :
         /\ FirstOf(p) <= s /\ s < LastOf(p)
         /\ Lcp(s, s + 1) = tree.prefixLength[p - N]
         /\ FirstOf(b) = FirstOf(p) /\ LastOf(b) = s /\ tree.parent[b] = p
         /\ FirstOf(c) = s + 1 /\ LastOf(c) = LastOf(p) /\ tree.parent[c] = p
  BY <1>5, <1>6, NodeSplits DEF TreeMade
<1>8. p # None
  BY <1>0, <1>6 DEF None
<1>9. b # r /\ c # r
  BY <1>7, <1>8
<1>10. ~(LastOf(r) <= s)
  <2> SUFFICES ASSUME LastOf(r) <= s
               PROVE  FALSE
    OBVIOUS
  <2>1. b \in H
    BY <1>5, <1>7, <1>9
  <2>2. LastOf(p) - FirstOf(p) <= LastOf(b) - FirstOf(b)
    BY <1>4, <2>1
  <2> HIDE DEF H
  <2> QED
    BY <1>0, <1>5, <1>7, <2>2
<1>11. ~(s < FirstOf(r))
  <2> SUFFICES ASSUME s < FirstOf(r)
               PROVE  FALSE
    OBVIOUS
  <2>1. c \in H
    BY <1>0, <1>1, <1>5, <1>7, <1>9
  <2>2. LastOf(p) - FirstOf(p) <= LastOf(c) - FirstOf(c)
    BY <1>4, <2>1
  <2> HIDE DEF H
  <2> QED
    BY <1>0, <1>5, <1>7, <2>2
(* The node's own range would go across the split. *)
<1>12. /\ r >= N /\ FirstOf(r) <= s /\ s < LastOf(r)
       /\ s \in 0 .. N - 1 /\ s + 1 \in 0 .. N - 1 /\ s + 1 <= LastOf(r)
  BY <1>0, <1>1, <1>7, <1>10, <1>11
<1>13. Lcp(s, s + 1) >= Lcp(FirstOf(r), LastOf(r))
  <2>1. PICK f, l : f = FirstOf(r) /\ l = LastOf(r) /\ f \in 0 .. N - 1 /\ l \in 0 .. N - 1 /\ f <= s /\ s + 1 <= l
    BY <1>1, <1>12
  <2>2. s < s + 1 /\ s + 1 \in 0 .. N - 1 /\ s \in 0 .. N - 1
    BY <1>12
  <2> DEFINE t == s + 1
  <2>3. s < t /\ t \in 0 .. N - 1 /\ t <= l
    BY <2>1, <2>2
  <2> HIDE DEF t
  <2>4. Lcp(s, t) >= Lcp(f, l)
    BY <2>1, <2>2, <2>3, Inner DEF TreeMade
  <2> QED
    BY <2>1, <2>4 DEF t
<1>14. Lcp(s, s + 1) = Lcp(FirstOf(p), LastOf(p))
  BY <1>5, <1>6, <1>7, NodeRange DEF TreeMade
<1>15. /\ Lcp(FirstOf(r), FirstOf(r) - 1) < Lcp(FirstOf(r), LastOf(r))
       /\ Lcp(LastOf(r), LastOf(r) + 1) < Lcp(FirstOf(r), LastOf(r))
  BY <1>12, NodeRange DEF TreeMade
<1>16. PICK f, l, g, m : f = FirstOf(r) /\ l = LastOf(r) /\ g = FirstOf(p) /\ m = LastOf(p)
  OBVIOUS
<1>17. /\ f \in 0 .. N - 1 /\ l \in 0 .. N - 1 /\ g \in 0 .. N - 1 /\ m \in 0 .. N - 1
       /\ g <= f /\ f < l /\ l <= m /\ g < m
       /\ Lcp(g, m) >= Lcp(f, l) /\ Lcp(f, f - 1) < Lcp(f, l) /\ Lcp(l, l + 1) < Lcp(f, l)
  BY <1>0, <1>1, <1>5, <1>7, <1>12, <1>13, <1>14, <1>15, <1>16
<1> HIDE DEF N, H
<1>18. \A i, j \in 0 .. N - 1 : i # j => Lcp(i, j) \in 2 .. 31 /\ Lcp(i, j) = Lcp(j, i)
  BY Gaps DEF TreeMade, N
<1>19. ~(g < f)
  <2> SUFFICES ASSUME g < f
               PROVE  FALSE
    OBVIOUS
  <2>1. PICK h : h = f - 1 /\ h \in 0 .. N - 1 /\ g <= h /\ h < f /\ f <= m
    BY <1>0, <1>17
  <2>2. Lcp(h, f) >= Lcp(g, m)
    BY <1>17, <2>1, Inner DEF TreeMade, N
  <2>3. Lcp(h, f) = Lcp(f, f - 1) /\ Lcp(h, f) \in 2 .. 31 /\ Lcp(g, m) \in 2 .. 31 /\ Lcp(f, l) \in 2 .. 31
    BY <1>17, <1>18, <2>1
  <2> QED
    BY <1>17, <2>2, <2>3
<1>20. ~(l < m)
  <2> SUFFICES ASSUME l < m
               PROVE  FALSE
    OBVIOUS
  <2>1. PICK h : h = l + 1 /\ h \in 0 .. N - 1 /\ g <= l /\ l < h /\ h <= m
    BY <1>0, <1>17
  <2>2. Lcp(l, h) >= Lcp(g, m)
    BY <1>17, <2>1, Inner DEF TreeMade, N
  <2>3. Lcp(l, h) = Lcp(l, l + 1) /\ Lcp(l, h) \in 2 .. 31 /\ Lcp(g, m) \in 2 .. 31 /\ Lcp(f, l) \in 2 .. 31
    BY <1>17, <1>18, <2>1
  <2> QED
    BY <1>17, <2>2, <2>3
<1>21. g = f /\ l = m
  BY <1>0, <1>17, <1>19, <1>20
<1> QED
  BY <1>5, <1>16, <1>21, RangeOnce DEF TreeMade

(* The levels of the octree that the nodes of the tree stand for *)

Level(r) == octreeLevelForRadixNode(r)

(* A leaf stands for a cell of the deepest level, an inner node for the deepest cell that *)
(* all bits its keys share name. *)
LEMMA LevelIs ==
  ASSUME TreeMade, NEW r \in RadixNodes
  PROVE  /\ r < nLeaves => Level(r) = 10
         /\ r >= nLeaves => /\ Level(r) \in 0 .. 9
                            /\ 3 * Level(r) + 2 <= Lcp(FirstOf(r), LastOf(r))
                            /\ Lcp(FirstOf(r), LastOf(r)) < 3 * Level(r) + 5
<1>0. nLeaves \in Nat \ {0} /\ RadixNodes = 0 .. 2 * nLeaves - 2
  BY Sizes DEF TreeMade
<1>1. CASE r < nLeaves
  BY <1>0, <1>1, Constants DEF Level, octreeLevelForRadixNode
<1>2. CASE ~(r < nLeaves)
  <2>1. PICK c : c = Lcp(FirstOf(r), LastOf(r)) /\ tree.prefixLength[r - nLeaves] = c
    BY <1>0, <1>2, NodeRange DEF TreeMade
  <2>2. c \in 2 .. 31
    <3>1. FirstOf(r) \in 0 .. nLeaves - 1 /\ LastOf(r) \in 0 .. nLeaves - 1 /\ FirstOf(r) # LastOf(r)
      BY <1>2, NodeRange DEF TreeMade
    <3> QED
      BY <2>1, <3>1, PairShares
  <2>3. Level(r) = (c - 2) \div 3
    BY <1>2, <2>1, Constants DEF Level, octreeLevelForRadixNode
  <2>4. (c - 2) \div 3 \in 0 .. 9 /\ 3 * ((c - 2) \div 3) + 2 <= c /\ c < 3 * ((c - 2) \div 3) + 5
    BY <2>2
  <2> QED
    BY <1>0, <1>2, <2>1, <2>3, <2>4
<1> QED
  BY <1>1, <1>2

(* The levels go up from a node's parent to the node. *)
LEMMA EdgeLevels ==
  ASSUME TreeMade, NEW r \in RadixNodes
  PROVE  /\ ParentLevel(r) \in 0 .. 9 /\ NodeLevel(r) \in 0 .. 10 /\ ParentLevel(r) <= NodeLevel(r)
         /\ r < nLeaves => NodeLevel(r) = ParentLevel(r) + 1
         /\ r >= nLeaves => NodeLevel(r) = Level(r)
         /\ tree.parent[r] # None => /\ tree.parent[r] \in RadixNodes /\ tree.parent[r] >= nLeaves
                                     /\ ParentLevel(r) = Level(tree.parent[r])
         /\ tree.parent[r] = None => ParentLevel(r) = 0
<1>0. nLeaves \in Nat \ {0} /\ RadixNodes = 0 .. 2 * nLeaves - 2
  BY Sizes DEF TreeMade
<1>1. ASSUME tree.parent[r] # None
      PROVE  /\ tree.parent[r] \in RadixNodes /\ tree.parent[r] >= nLeaves
             /\ ParentLevel(r) = Level(tree.parent[r])
             /\ r >= nLeaves => Level(tree.parent[r]) <= Level(r)
  <2>1. PICK p : p = tree.parent[r]
    OBVIOUS
  <2>2. /\ p \in RadixNodes /\ p >= nLeaves
        /\ \/ /\ FirstOf(p) = FirstOf(r) /\ LastOf(r) < LastOf(p)
              /\ Lcp(LastOf(r), LastOf(r) + 1) = tree.prefixLength[p - nLeaves]
           \/ /\ FirstOf(p) < FirstOf(r) /\ LastOf(p) = LastOf(r)
              /\ Lcp(FirstOf(r), FirstOf(r) - 1) = tree.prefixLength[p - nLeaves]
    BY <1>0, <1>1, <2>1, ParentSpans DEF TreeMade
  <2>3. ParentLevel(r) = Level(p)
    BY <1>1, <2>1 DEF ParentLevel, Level
  <2>4. ASSUME r >= nLeaves
        PROVE  Level(p) <= Level(r)
    <3>1. Lcp(FirstOf(p), LastOf(p)) < Lcp(FirstOf(r), LastOf(r))
      BY <2>2, <2>4, NodeRange DEF TreeMade
    <3>2. /\ Lcp(FirstOf(r), LastOf(r)) \in 2 .. 31 /\ Lcp(FirstOf(p), LastOf(p)) \in 2 .. 31
      <4>1. ASSUME NEW t \in RadixNodes, t >= nLeaves
            PROVE  Lcp(FirstOf(t), LastOf(t)) \in 2 .. 31
        <5>1. FirstOf(t) \in 0 .. nLeaves - 1 /\ LastOf(t) \in 0 .. nLeaves - 1 /\ FirstOf(t) # LastOf(t)
          BY <1>0, <4>1, NodeRange DEF TreeMade
        <5> QED
          BY <5>1, Gaps DEF TreeMade
      <4> QED
        BY <2>2, <2>4, <4>1
    <3>3. /\ Level(r) \in 0 .. 9 /\ Lcp(FirstOf(r), LastOf(r)) < 3 * Level(r) + 5
          /\ Level(p) \in 0 .. 9 /\ 3 * Level(p) + 2 <= Lcp(FirstOf(p), LastOf(p))
      BY <2>2, <2>4, LevelIs
    <3> QED
      BY <3>1, <3>2, <3>3
  <2> QED
    BY <2>1, <2>2, <2>3, <2>4
<1>2. tree.parent[r] = None => ParentLevel(r) = 0
  BY DEF ParentLevel
<1>3. ParentLevel(r) \in 0 .. 9
  BY <1>1, <1>2, LevelIs
<1>4. r < nLeaves => NodeLevel(r) = ParentLevel(r) + 1
  BY DEF NodeLevel
<1>5. r >= nLeaves => NodeLevel(r) = Level(r) /\ Level(r) \in 0 .. 9 /\ ParentLevel(r) <= Level(r)
  <2>1. r >= nLeaves => NodeLevel(r) = Level(r) /\ Level(r) \in 0 .. 9
    BY <1>0, LevelIs DEF NodeLevel, Level
  <2> QED
    BY <1>1, <1>2, <2>1
<1>6. r < nLeaves \/ r >= nLeaves
  BY <1>0
<1> QED
  BY <1>1, <1>2, <1>3, <1>4, <1>5, <1>6

(* Whether two keys name the same cell of a level. *)
Alike(j, k, level) ==
  mortonPrefixAtLevel(groups.uniqueKeys[j], level) = mortonPrefixAtLevel(groups.uniqueKeys[k], level)

(* Two keys name the same cell of a level if they share the padding and its octants. *)
LEMMA AlikeIs ==
  ASSUME TreeMade, NEW j \in 0 .. nLeaves - 1, NEW k \in 0 .. nLeaves - 1, j # k, NEW level \in 0 .. 10
  PROVE  Alike(j, k, level) <=> Lcp(j, k) >= 3 * level + 2
<1>1. PICK v, w : v = groups.uniqueKeys[j] /\ w = groups.uniqueKeys[k]
  OBVIOUS
<1>2. v \subseteq 0 .. 29 /\ w \subseteq 0 .. 29
  BY <1>1, KeysShort, Constants DEF TreeMade
<1>3. Alike(j, k, level) <=> v \cap (30 - level * 3 .. 29) = w \cap (30 - level * 3 .. 29)
  BY <1>1, Constants DEF Alike, mortonPrefixAtLevel
<1>4. v \cap (30 - level * 3 .. 29) = w \cap (30 - level * 3 .. 29)
        <=> Xor(v, w) \subseteq 0 .. 29 - level * 3
  <2>1. ASSUME v \cap (30 - level * 3 .. 29) = w \cap (30 - level * 3 .. 29)
        PROVE  Xor(v, w) \subseteq 0 .. 29 - level * 3
    <3> SUFFICES ASSUME NEW b \in Xor(v, w)
                 PROVE  b \in 0 .. 29 - level * 3
      OBVIOUS
    <3>1. b \in 0 .. 29 /\ (b \in v <=> b \notin w)
      BY <1>2 DEF Xor
    <3>2. b \notin 30 - level * 3 .. 29
      BY <2>1, <3>1
    <3> QED
      BY <3>1, <3>2
  <2>2. ASSUME Xor(v, w) \subseteq 0 .. 29 - level * 3
        PROVE  v \cap (30 - level * 3 .. 29) = w \cap (30 - level * 3 .. 29)
    <3>1. ASSUME NEW b \in 30 - level * 3 .. 29
          PROVE  b \in v <=> b \in w
      <4>1. b \notin Xor(v, w)
        BY <2>2
      <4> QED
        BY <4>1 DEF Xor
    <3> QED
      BY <3>1
  <2> QED
    BY <2>1, <2>2
<1>5. Xor(v, w) \subseteq 0 .. 31 - (3 * level + 2) <=> Lcp(j, k) >= 3 * level + 2
  <2> DEFINE length == 3 * level + 2
  <2>1. length \in Int
    OBVIOUS
  <2> HIDE DEF length
  <2>2. Xor(v, w) \subseteq 0 .. 31 - length <=> Lcp(j, k) >= length
    BY <1>1, <2>1, SharedBits DEF Lcp, TreeMade
  <2> QED
    BY <2>2 DEF length
<1>6. 31 - (3 * level + 2) = 29 - level * 3
  OBVIOUS
<1> QED
  BY <1>3, <1>4, <1>5, <1>6

(* Keys below a node are alike down to its level. *)
LEMMA AlikeBelow ==
  ASSUME TreeMade, NEW r \in RadixNodes, NEW j \in Holds(r), NEW k \in Holds(r),
         NEW level \in 0 .. 10, r >= nLeaves => level <= Level(r)
  PROVE  j \in 0 .. nLeaves - 1 /\ Alike(j, k, level)
<1>0. nLeaves \in Nat \ {0} /\ RadixNodes = 0 .. 2 * nLeaves - 2
  BY Sizes DEF TreeMade
<1>1. PICK f, l : f = FirstOf(r) /\ l = LastOf(r) /\ f \in 0 .. nLeaves - 1 /\ l \in 0 .. nLeaves - 1 /\ f <= l
                  /\ (r < nLeaves <=> f = l)
  BY NodeRange DEF TreeMade
<1>2. f <= j /\ j <= l /\ f <= k /\ k <= l /\ j \in 0 .. nLeaves - 1 /\ k \in 0 .. nLeaves - 1
  BY <1>0, <1>1 DEF Holds
<1>3. CASE j = k
  BY <1>2, <1>3 DEF Alike
<1>4. ASSUME NEW x \in f .. l, NEW y \in f .. l, x < y
      PROVE  Alike(x, y, level) /\ Alike(y, x, level)
  <2>1. x \in 0 .. nLeaves - 1 /\ y \in 0 .. nLeaves - 1 /\ f <= x /\ y <= l /\ f # l /\ r >= nLeaves /\ x # y
    BY <1>0, <1>1, <1>4
  <2>2. Lcp(x, y) >= Lcp(f, l)
    BY <1>1, <1>4, <2>1, Inner DEF TreeMade
  <2>3. 3 * Level(r) + 2 <= Lcp(f, l) /\ level <= Level(r) /\ Level(r) \in 0 .. 9
    BY <1>1, <2>1, LevelIs
  <2>4. Lcp(x, y) \in 2 .. 31 /\ Lcp(f, l) \in 2 .. 31
    BY <1>1, <2>1, Gaps DEF TreeMade
  <2>5. Lcp(x, y) >= 3 * level + 2
    BY <2>2, <2>3, <2>4
  <2>6. Alike(x, y, level)
    BY <2>1, <2>5, AlikeIs
  <2> QED
    BY <2>6 DEF Alike
<1> QED
  BY <1>0, <1>1, <1>2, <1>3, <1>4

(* Beyond its parent's level they differ from all others. *)
LEMMA ApartOutside ==
  ASSUME TreeMade, NEW r \in RadixNodes, NEW j \in Holds(r), NEW k \in 0 .. nLeaves - 1,
         NEW level \in 0 .. 10, level > ParentLevel(r), Alike(j, k, level)
  PROVE  k \in Holds(r)
<1> SUFFICES ASSUME k \notin Holds(r)
             PROVE  FALSE
  OBVIOUS
<1>0. nLeaves \in Nat \ {0} /\ RadixNodes = 0 .. 2 * nLeaves - 2
  BY Sizes DEF TreeMade
<1>1. PICK f, l : f = FirstOf(r) /\ l = LastOf(r) /\ f \in 0 .. nLeaves - 1 /\ l \in 0 .. nLeaves - 1 /\ f <= l
  BY NodeRange DEF TreeMade
<1>2. f <= j /\ j <= l /\ j \in 0 .. nLeaves - 1 /\ (k < f \/ l < k) /\ j # k
  BY <1>0, <1>1 DEF Holds
<1>3. tree.parent[r] # None
  BY <1>0, <1>1, <1>2, ParentExists
<1>4. PICK p : p = tree.parent[r]
  OBVIOUS
<1>5. /\ p \in RadixNodes /\ p >= nLeaves
      /\ \/ /\ FirstOf(p) = f /\ l < LastOf(p)
            /\ Lcp(l, l + 1) = tree.prefixLength[p - nLeaves]
         \/ /\ FirstOf(p) < f /\ LastOf(p) = l
            /\ Lcp(f, f - 1) = tree.prefixLength[p - nLeaves]
  BY <1>0, <1>1, <1>3, <1>4, ParentSpans DEF TreeMade
<1>6. PICK c : /\ c = Lcp(FirstOf(p), LastOf(p)) /\ tree.prefixLength[p - nLeaves] = c
               /\ Lcp(FirstOf(p), FirstOf(p) - 1) < c /\ Lcp(LastOf(p), LastOf(p) + 1) < c
  BY <1>5, NodeRange DEF TreeMade
<1>7. Level(p) \in 0 .. 9 /\ c < 3 * Level(p) + 5 /\ ParentLevel(r) = Level(p) /\ c \in 2 .. 31
  <2>1. Level(p) \in 0 .. 9 /\ c < 3 * Level(p) + 5
    BY <1>5, <1>6, LevelIs
  <2>2. ParentLevel(r) = Level(p)
    BY <1>3, <1>4, EdgeLevels
  <2>3. FirstOf(p) \in 0 .. nLeaves - 1 /\ LastOf(p) \in 0 .. nLeaves - 1 /\ FirstOf(p) # LastOf(p)
    BY <1>0, <1>5, NodeRange DEF TreeMade
  <2>4. c \in 2 .. 31
    BY <1>6, <2>3, PairShares
  <2> QED
    BY <2>1, <2>2, <2>4
<1>8. Lcp(j, k) >= 3 * level + 2 /\ Lcp(j, k) \in 2 .. 31 /\ Lcp(j, k) = Lcp(k, j)
  BY <1>2, AlikeIs, Gaps DEF TreeMade
<1>9. Lcp(j, k) > c
  BY <1>7, <1>8
<1>10. CASE l < k
  <2>1. PICK h : h = l + 1 /\ h \in 0 .. nLeaves - 1 /\ h <= k /\ l < h
    BY <1>1, <1>10, <1>0
  <2>2. Lcp(l, h) >= Lcp(j, k)
    BY <1>1, <1>2, <2>1, Inner DEF TreeMade
  <2>5. l # h
    BY <1>0, <1>1, <2>1
  <2>4. Lcp(l, h) \in 2 .. 31
    BY <1>1, <2>1, <2>5, PairShares
  <2>3. Lcp(l, h) <= c
    BY <1>5, <1>6, <1>7, <2>1, <2>4
  <2> QED
    BY <1>7, <1>8, <1>9, <2>2, <2>3, <2>4
<1>11. CASE k < f
  <2>1. PICK h : h = f - 1 /\ h \in 0 .. nLeaves - 1 /\ k <= h /\ h < f
    BY <1>1, <1>11, <1>0
  <2>2. Lcp(h, f) >= Lcp(k, j)
    BY <1>1, <1>2, <2>1, Inner DEF TreeMade
  <2>5. h # f
    BY <1>0, <1>1, <2>1
  <2>4. Lcp(h, f) \in 2 .. 31 /\ Lcp(h, f) = Lcp(f, h)
    BY <1>1, <2>1, <2>5, PairShares
  <2>3. Lcp(f, h) <= c
    BY <1>5, <1>6, <1>7, <2>1, <2>4
  <2> QED
    BY <1>7, <1>8, <1>9, <2>2, <2>3, <2>4
<1> QED
  BY <1>2, <1>10, <1>11

(* The root is below no node. *)
LEMMA RootNode ==
  ASSUME TreeMade
  PROVE  \E r \in RadixNodes : FirstOf(r) = 0 /\ LastOf(r) = nLeaves - 1 /\ tree.parent[r] = None
<1>0. nLeaves \in Nat \ {0} /\ RadixNodes = 0 .. 2 * nLeaves - 2
  BY Sizes DEF TreeMade
<1>1. \E r \in RadixNodes : FirstOf(r) = 0 /\ LastOf(r) = nLeaves - 1
  <2>1. CASE nLeaves > 1
    BY <2>1, RootRange
  <2>2. CASE ~(nLeaves > 1)
    <3>1. nLeaves = 1 /\ 0 \in RadixNodes
      BY <1>0, <2>2
    <3>2. FirstOf(0) = 0 /\ LastOf(0) = 0
      BY <3>1 DEF FirstOf, LastOf
    <3> QED
      BY <3>1, <3>2
  <2> QED
    BY <2>1, <2>2
<1>2. PICK r \in RadixNodes : FirstOf(r) = 0 /\ LastOf(r) = nLeaves - 1
  BY <1>1
<1>3. tree.parent[r] = None
  <2> SUFFICES ASSUME tree.parent[r] # None
               PROVE  FALSE
    OBVIOUS
  <2>1. PICK p : p = tree.parent[r] /\ p \in RadixNodes /\ (nLeaves - 1 < LastOf(p) \/ FirstOf(p) < 0)
    BY <1>2, ParentSpans DEF TreeMade
  <2>2. FirstOf(p) \in 0 .. nLeaves - 1 /\ LastOf(p) \in 0 .. nLeaves - 1
    BY <2>1, NodeRange DEF TreeMade
  <2> QED
    BY <1>0, <2>1, <2>2
<1> QED
  BY <1>2, <1>3

(* Every cell of the octree that is to be made is made by the edge of some node: by that of the *)
(* smallest among those below the cell above.                                                   *)
LEMMA CellHasNode ==
  ASSUME TreeMade, NEW j \in 0 .. nLeaves - 1, NEW level \in 1 .. 10,
         level = 1 \/ \E k \in 0 .. nLeaves - 1 : k # j /\ Alike(j, k, level - 1)
  PROVE  \E r \in RadixNodes : j \in Holds(r) /\ ParentLevel(r) < level /\ level <= NodeLevel(r)
<1> DEFINE H == {r \in RadixNodes : j \in Holds(r) /\ ParentLevel(r) < level}
<1>0. nLeaves \in Nat \ {0} /\ RadixNodes = 0 .. 2 * nLeaves - 2
  BY Sizes DEF TreeMade
<1>1. H # {}
  <2>1. PICK r \in RadixNodes : FirstOf(r) = 0 /\ LastOf(r) = nLeaves - 1 /\ tree.parent[r] = None
    BY RootNode
  <2>2. ParentLevel(r) = 0 /\ j \in Holds(r)
    BY <2>1, EdgeLevels DEF Holds
  <2> QED
    BY <2>2
<1>2. PICK r \in H : \A t \in H : LastOf(r) - FirstOf(r) <= LastOf(t) - FirstOf(t)
  <2>1. H \in SUBSET RadixNodes
    OBVIOUS
  <2> HIDE DEF H
  <2> QED
    BY <1>1, <2>1, Smallest
<1>3. /\ r \in RadixNodes /\ j \in Holds(r) /\ ParentLevel(r) < level
      /\ FirstOf(r) \in 0 .. nLeaves - 1 /\ LastOf(r) \in 0 .. nLeaves - 1
      /\ ParentLevel(r) \in 0 .. 9
  BY <1>2, NodeRange, EdgeLevels DEF TreeMade
<1>4. CASE r < nLeaves
  <2>1. NodeLevel(r) = ParentLevel(r) + 1 /\ FirstOf(r) = r /\ LastOf(r) = r /\ j = r
    BY <1>0, <1>3, <1>4, EdgeLevels DEF FirstOf, LastOf, Holds
  <2>2. ASSUME NEW k \in 0 .. nLeaves - 1, k # j, Alike(j, k, level - 1)
        PROVE  level <= ParentLevel(r) + 1
    <3> SUFFICES ASSUME level - 1 > ParentLevel(r)
                 PROVE  FALSE
      BY <1>3
    <3>1. level - 1 \in 0 .. 10
      OBVIOUS
    <3> DEFINE above == level - 1
    <3>2. above \in 0 .. 10 /\ above > ParentLevel(r) /\ Alike(j, k, above)
      BY <2>2, <3>1
    <3> HIDE DEF above
    <3>3. k \in Holds(r)
      BY <1>3, <3>2, ApartOutside
    <3> QED
      BY <1>0, <2>1, <2>2, <3>3 DEF Holds
  <2>3. level <= ParentLevel(r) + 1
    BY <1>3, <2>2
  <2> QED
    BY <1>3, <2>1, <2>3
<1>5. CASE r >= nLeaves
  <2> SUFFICES ASSUME ~(level <= NodeLevel(r))
               PROVE  FALSE
    BY <1>3
  <2>1. NodeLevel(r) = Level(r) /\ NodeLevel(r) \in 0 .. 10
    BY <1>3, <1>5, EdgeLevels
  <2>2. PICK s \in Int, b \in RadixNodes, c \in RadixNodes :
           /\ FirstOf(r) <= s /\ s < LastOf(r)
           /\ FirstOf(b) = FirstOf(r) /\ LastOf(b) = s /\ tree.parent[b] = r
           /\ FirstOf(c) = s + 1 /\ LastOf(c) = LastOf(r) /\ tree.parent[c] = r
    BY <1>3, <1>5, NodeSplits DEF TreeMade
  <2>3. r # None
    BY <1>0, <1>3 DEF None
  <2>4. ParentLevel(b) = Level(r) /\ ParentLevel(c) = Level(r)
    BY <2>2, <2>3, EdgeLevels
  <2>5. ParentLevel(b) < level /\ ParentLevel(c) < level
    BY <2>1, <2>4
  <2>6. j \in Holds(b) \/ j \in Holds(c)
    BY <1>0, <1>3, <2>2 DEF Holds
  <2>7. b \in H \/ c \in H
    BY <2>5, <2>6
  <2>8. \/ LastOf(r) - FirstOf(r) <= LastOf(b) - FirstOf(b)
        \/ LastOf(r) - FirstOf(r) <= LastOf(c) - FirstOf(c)
    BY <1>2, <2>7
  <2> HIDE DEF H
  <2> QED
    BY <1>0, <1>3, <2>2, <2>8
<1> QED
  BY <1>0, <1>3, <1>4, <1>5

(* Two nodes with keys alike at a level of both of their edges are the same. *)
LEMMA EdgesApart ==
  ASSUME TreeMade, NEW r \in RadixNodes, NEW t \in RadixNodes, NEW level \in 1 .. 10,
         ParentLevel(r) < level, level <= NodeLevel(r), ParentLevel(t) < level, level <= NodeLevel(t),
         NEW j \in Holds(r), NEW k \in Holds(t), Alike(j, k, level)
  PROVE  r = t
<1>0. nLeaves \in Nat \ {0} /\ RadixNodes = 0 .. 2 * nLeaves - 2
  BY Sizes DEF TreeMade
<1>1. ASSUME NEW q \in RadixNodes
      PROVE  FirstOf(q) \in 0 .. nLeaves - 1 /\ LastOf(q) \in 0 .. nLeaves - 1 /\ FirstOf(q) <= LastOf(q)
  BY NodeRange DEF TreeMade
<1>2. level \in 0 .. 10 /\ (r >= nLeaves => level <= Level(r)) /\ (t >= nLeaves => level <= Level(t))
  BY EdgeLevels
<1>3. j \in 0 .. nLeaves - 1 /\ k \in 0 .. nLeaves - 1
  BY <1>0, <1>1 DEF Holds
<1>4. k \in Holds(r)
  BY <1>2, <1>3, ApartOutside
<1>5. \A x \in Holds(t) : x \in 0 .. nLeaves - 1 /\ Alike(k, x, level)
  BY <1>2, AlikeBelow
<1>6. \A x \in Holds(r) : x \in 0 .. nLeaves - 1 /\ Alike(k, x, level)
  BY <1>2, <1>4, AlikeBelow
<1>7. ASSUME NEW x \in Holds(t)
      PROVE  x \in Holds(r)
  <2>1. x \in 0 .. nLeaves - 1 /\ Alike(k, x, level)
    BY <1>5
  <2> QED
    BY <1>2, <1>4, <2>1, ApartOutside
<1>8. ASSUME NEW x \in Holds(r)
      PROVE  x \in Holds(t)
  <2>1. x \in 0 .. nLeaves - 1 /\ Alike(k, x, level)
    BY <1>6
  <2> QED
    BY <1>2, <2>1, ApartOutside
<1>9. FirstOf(r) \in Holds(r) /\ LastOf(r) \in Holds(r) /\ FirstOf(t) \in Holds(t) /\ LastOf(t) \in Holds(t)
  <2>1. \A q \in RadixNodes : FirstOf(q) \in Holds(q) /\ LastOf(q) \in Holds(q)
    BY <1>1 DEF Holds
  <2> QED
    BY <2>1
<1>10. FirstOf(r) \in Holds(t) /\ LastOf(r) \in Holds(t) /\ FirstOf(t) \in Holds(r) /\ LastOf(t) \in Holds(r)
  BY <1>7, <1>8, <1>9
<1>11. FirstOf(r) = FirstOf(t) /\ LastOf(r) = LastOf(t)
  BY <1>1, <1>10 DEF Holds
<1> QED
  BY <1>11, RangeOnce DEF TreeMade

----------------------------------------------------------------------------
(* The climb to where an edge starts *)

(* The steps of a climb: there is a function of them, so CHOOSE finds it. *)
Climbs(f, up, n, N) == f = [k \in 0 .. N |-> IF k = 0 THEN n ELSE up[f[k - 1]]]

(* There is such a function, for whatever links are climbed. *)
LEMMA ClimbExists ==
  ASSUME NEW up, NEW n, NEW N \in Nat
  PROVE  \E f : Climbs(f, up, n, N)
<1> DEFINE G == {m \in Nat : \E f : f = [k \in 0 .. m |-> IF k = 0 THEN n ELSE up[f[k - 1]]]}
<1>1. 0 \in G
  <2>1. [k \in 0 .. 0 |-> n] = [k \in 0 .. 0 |-> IF k = 0 THEN n ELSE up[[j \in 0 .. 0 |-> n][k - 1]]]
    OBVIOUS
  <2> QED
    BY <2>1
<1>2. ASSUME NEW m \in Nat, m \in G
      PROVE  m + 1 \in G
  <2>1. PICK f : f = [k \in 0 .. m |-> IF k = 0 THEN n ELSE up[f[k - 1]]]
    BY <1>2
  <2> DEFINE g == [k \in 0 .. m + 1 |-> IF k = m + 1 THEN up[f[m]] ELSE f[k]]
  <2>2. \A k \in 0 .. m + 1 : g[k] = IF k = 0 THEN n ELSE up[g[k - 1]]
    <3> SUFFICES ASSUME NEW k \in 0 .. m + 1
                 PROVE  g[k] = IF k = 0 THEN n ELSE up[g[k - 1]]
      OBVIOUS
    <3>1. CASE k = m + 1
      BY <3>1
    <3>2. CASE k # m + 1
      <4>1. k \in 0 .. m /\ g[k] = f[k]
        BY <3>2
      <4>2. k # 0 => k - 1 \in 0 .. m /\ g[k - 1] = f[k - 1]
        BY <4>1
      <4>3. f[k] = IF k = 0 THEN n ELSE up[f[k - 1]]
        BY <2>1, <4>1
      <4> QED
        BY <4>1, <4>2, <4>3
    <3> QED
      BY <3>1, <3>2
  <2>3. g = [k \in 0 .. m + 1 |-> IF k = 0 THEN n ELSE up[g[k - 1]]]
    BY <2>2
  <2>4. \E h : h = [k \in 0 .. m + 1 |-> IF k = 0 THEN n ELSE up[h[k - 1]]]
    <3> HIDE DEF g
    <3> QED
      BY <2>3
  <2> QED
    BY <2>4
<1>3. N \in G
  <2> HIDE DEF G
  <2>1. \A m \in 0 .. N - 1 : m \in G => m + 1 \in G
    BY <1>2
  <2>2. 0 .. N \subseteq G
    BY <1>1, <2>1, NatInductionUpTo
  <2> QED
    BY <2>2
<1> QED
  BY <1>3 DEF Climbs

(* What BuildPlan leaves. *)
EdgeCount == [r \in RadixNodes |-> NodeLevel(r) - ParentLevel(r)]
Planned ==
  /\ plan.radixLevel = [r \in RadixNodes |-> NodeLevel(r)]
  /\ plan.edgeNodeCount = EdgeCount
  /\ plan.edgeNodeOffset = [r \in RadixNodes |-> SumTo(EdgeCount, r)]

(* An edge starts at the root of the octree or at the end of the edge of a node around it. *)
StartsAt(r, s) ==
  \/ s = None /\ ParentLevel(r) = 0
  \/ /\ s \in RadixNodes /\ s >= nLeaves
     /\ NodeLevel(s) = ParentLevel(r) /\ ParentLevel(s) < NodeLevel(s)
     /\ Holds(r) \subseteq Holds(s)

(* EdgeStart climbs to a node of that kind: from every node, so each edge has a beginning. *)
LEMMA EdgeStarts ==
  ASSUME TreeMade, Planned, NEW r \in RadixNodes
  PROVE  StartsAt(r, EdgeStart(r))
<1> DEFINE N == nLeaves
           up == [n \in RadixNodes \cup {None} |-> IF n = None THEN None ELSE tree.parent[n]]
           last == 2 * N - 1
           above == CHOOSE f : f = [k \in 0 .. last |-> IF k = 0 THEN up[r] ELSE up[f[k - 1]]]
           ends == {k \in 0 .. last : above[k] = None \/ HasNodes(above[k])}
           Narrow(k) == \A m \in 0 .. k - 1 : m \notin ends
           Reached(k) ==
             /\ above[k] = None => ParentLevel(r) = 0
             /\ above[k] # None => /\ above[k] \in RadixNodes /\ above[k] >= N
                                   /\ Level(above[k]) = ParentLevel(r)
                                   /\ FirstOf(above[k]) <= FirstOf(r) /\ LastOf(r) <= LastOf(above[k])
                                   /\ LastOf(above[k]) - FirstOf(above[k]) >= k + 1
           G == {k \in Nat : Narrow(k) => Reached(k)}
<1>0. N \in Nat \ {0} /\ Internal = 0 .. N - 2 /\ RadixNodes = 0 .. 2 * N - 2
  BY Sizes DEF TreeMade
<1>1. DOMAIN tree.parent = RadixNodes /\ None \notin RadixNodes
  BY <1>0 DEF TreeMade, Wired, TreeArrays, None
<1>2. \A t \in RadixNodes : up[t] = tree.parent[t]
  BY <1>1
<1>3. /\ DOMAIN above = 0 .. last /\ above[0] = up[r]
      /\ \A k \in 0 .. last : k # 0 => above[k] = up[above[k - 1]]
  <2>1. last \in Nat /\ 0 \in 0 .. last
    BY <1>0
  <2> DEFINE n == up[r]
  <2> HIDE DEF last, up, n
  <2>4. PICK f : Climbs(f, up, n, last)
    BY <2>1, ClimbExists
  <2>2. f = [k \in 0 .. last |-> IF k = 0 THEN up[r] ELSE up[f[k - 1]]]
    BY <2>4 DEF Climbs, n
  <2>3. above = [k \in 0 .. last |-> IF k = 0 THEN up[r] ELSE up[above[k - 1]]]
    BY <2>2
  <2> HIDE DEF above
  <2> QED
    BY <2>1, <2>3
<1>4. DOMAIN above = 0 .. last
  BY <1>3
<1>5. EdgeStart(r) = IF ends = {} THEN Lost ELSE above[Min(ends)]
  <2>1. EdgeStart(r) = LET e == {k \in DOMAIN above : above[k] = None \/ HasNodes(above[k])}
                       IN IF e = {} THEN Lost ELSE above[Min(e)]
    BY DEF EdgeStart
  <2> HIDE DEF above
  <2> QED
    BY <1>4, <2>1
<1>6. \A t \in RadixNodes : HasNodes(t) <=> NodeLevel(t) - ParentLevel(t) > 0
  BY DEF HasNodes, Planned, EdgeCount
<1>7. ASSUME NEW t \in RadixNodes
      PROVE  FirstOf(t) \in 0 .. N - 1 /\ LastOf(t) \in 0 .. N - 1 /\ FirstOf(t) <= LastOf(t)
  BY NodeRange DEF TreeMade
<1> HIDE DEF up, above
(* The parent of a node is around it and stands for the level its edge starts from. *)
<1>8. ASSUME NEW t \in RadixNodes, tree.parent[t] # None
      PROVE  LET p == tree.parent[t]
             IN  /\ p \in RadixNodes /\ p >= N /\ Level(p) = ParentLevel(t)
                 /\ FirstOf(p) <= FirstOf(t) /\ LastOf(t) <= LastOf(p)
                 /\ LastOf(p) - FirstOf(p) >= LastOf(t) - FirstOf(t) + 1
  <2>1. PICK p : p = tree.parent[t]
    OBVIOUS
  <2>2. p \in RadixNodes /\ p >= N /\ Level(p) = ParentLevel(t)
    BY <1>8, <2>1, EdgeLevels
  <2>3. \/ FirstOf(p) = FirstOf(t) /\ LastOf(t) < LastOf(p)
        \/ FirstOf(p) < FirstOf(t) /\ LastOf(p) = LastOf(t)
    <3> HIDE DEF N
    <3> QED
      BY <1>8, <2>1, ParentSpans DEF TreeMade
  <2>4. /\ FirstOf(t) \in 0 .. N - 1 /\ LastOf(t) \in 0 .. N - 1 /\ FirstOf(t) <= LastOf(t)
        /\ FirstOf(p) \in 0 .. N - 1 /\ LastOf(p) \in 0 .. N - 1
    BY <1>7, <2>2
  <2>5. /\ FirstOf(p) <= FirstOf(t) /\ LastOf(t) <= LastOf(p)
        /\ LastOf(p) - FirstOf(p) >= LastOf(t) - FirstOf(t) + 1
    <3> HIDE DEF N
    <3> QED
      BY <1>0, <2>3, <2>4
  <2> QED
    BY <2>1, <2>2, <2>5
<1>9. 0 \in G
  <2>1. above[0] = tree.parent[r]
    BY <1>2, <1>3
  <2>2. tree.parent[r] = None => ParentLevel(r) = 0
    BY EdgeLevels
  <2>3. FirstOf(r) \in Int /\ LastOf(r) \in Int /\ LastOf(r) - FirstOf(r) >= 0
    BY <1>0, <1>7
  <2>4. Reached(0)
    <3>1. CASE tree.parent[r] = None
      BY <2>1, <2>2, <3>1
    <3>2. CASE tree.parent[r] # None
      <4>1. PICK p : p = tree.parent[r] /\ p = above[0]
        BY <2>1
      <4>2. /\ p \in RadixNodes /\ p >= N /\ Level(p) = ParentLevel(r)
            /\ FirstOf(p) <= FirstOf(r) /\ LastOf(r) <= LastOf(p)
            /\ LastOf(p) - FirstOf(p) >= LastOf(r) - FirstOf(r) + 1
        BY <1>8, <3>2, <4>1
      <4>3. FirstOf(p) \in 0 .. N - 1 /\ LastOf(p) \in 0 .. N - 1
        BY <1>7, <4>2
      <4>4. LastOf(p) - FirstOf(p) >= 0 + 1
        BY <1>0, <2>3, <4>2, <4>3
      <4> QED
        BY <3>2, <4>1, <4>2, <4>4
    <3> QED
      BY <3>1, <3>2
  <2> QED
    BY <2>4
<1>10. ASSUME NEW k \in 0 .. last - 1, k \in G
       PROVE  k + 1 \in G
  <2>1. k \in 0 .. last /\ k + 1 \in 0 .. last /\ k + 1 # 0 /\ (k + 1) - 1 = k /\ k + 1 \in Nat
    BY <1>0
  <2> HIDE DEF last
  <2> SUFFICES ASSUME Narrow(k + 1)
               PROVE  Reached(k + 1)
    BY <2>1
  <2>2. k \notin ends /\ Narrow(k)
    BY <2>1
  <2>3. Reached(k) /\ above[k] # None /\ ~HasNodes(above[k])
    BY <1>10, <2>1, <2>2
  <2>4. PICK t : t = above[k]
    OBVIOUS
  <2>5. /\ t \in RadixNodes /\ t >= N /\ Level(t) = ParentLevel(r)
        /\ FirstOf(t) <= FirstOf(r) /\ LastOf(r) <= LastOf(t)
        /\ LastOf(t) - FirstOf(t) >= k + 1
    BY <2>3, <2>4
  <2>6. above[k + 1] = tree.parent[t]
    BY <1>2, <1>3, <2>1, <2>4, <2>5
  <2>7. ParentLevel(t) = ParentLevel(r)
    <3>1. NodeLevel(t) = Level(t) /\ ParentLevel(t) <= NodeLevel(t) /\ NodeLevel(t) \in 0 .. 10 /\ ParentLevel(t) \in 0 .. 9
      BY <2>5, EdgeLevels
    <3>2. ~(NodeLevel(t) - ParentLevel(t) > 0)
      BY <1>6, <2>3, <2>4, <2>5
    <3> QED
      BY <2>5, <3>1, <3>2
  <2>8. CASE tree.parent[t] = None
    <3>1. ParentLevel(t) = 0
      BY <2>5, <2>8, EdgeLevels
    <3> QED
      BY <2>6, <2>7, <2>8, <3>1
  <2>9. CASE tree.parent[t] # None
    <3>1. PICK p : p = tree.parent[t] /\ p = above[k + 1]
      BY <2>6
    <3>2. /\ p \in RadixNodes /\ p >= N /\ Level(p) = ParentLevel(t)
          /\ FirstOf(p) <= FirstOf(t) /\ LastOf(t) <= LastOf(p)
          /\ LastOf(p) - FirstOf(p) >= LastOf(t) - FirstOf(t) + 1
      BY <1>8, <2>5, <2>9, <3>1
    <3>3. /\ FirstOf(p) \in 0 .. N - 1 /\ LastOf(p) \in 0 .. N - 1
          /\ FirstOf(t) \in 0 .. N - 1 /\ LastOf(t) \in 0 .. N - 1
          /\ FirstOf(r) \in 0 .. N - 1 /\ LastOf(r) \in 0 .. N - 1
      BY <1>7, <2>5, <3>2
    <3>4. /\ FirstOf(p) <= FirstOf(r) /\ LastOf(r) <= LastOf(p)
          /\ LastOf(p) - FirstOf(p) >= (k + 1) + 1
      <4> HIDE DEF N
      <4> QED
        BY <1>0, <2>1, <2>5, <3>2, <3>3
    <3> QED
      BY <2>7, <2>9, <3>1, <3>2, <3>4
  <2> QED
    BY <2>8, <2>9
<1>11. \A k \in 0 .. last : k \in G
  <2>1. last \in Nat
    BY <1>0
  <2> HIDE DEF G, last
  <2>2. 0 .. last \subseteq G
    BY <1>9, <1>10, <2>1, NatInductionUpTo
  <2> QED
    BY <2>2
<1>12. ends # {}
  <2> SUFFICES ASSUME ends = {}
               PROVE  FALSE
    OBVIOUS
  <2>1. last \in 0 .. last /\ last \in Nat /\ last = 2 * N - 1
    BY <1>0
  <2> HIDE DEF last
  <2>2. last \notin ends /\ Narrow(last)
    OBVIOUS
  <2>3. Reached(last) /\ above[last] # None
    BY <1>11, <2>1, <2>2
  <2>4. PICK t : t = above[last]
    OBVIOUS
  <2>5. t \in RadixNodes /\ LastOf(t) - FirstOf(t) >= last + 1
    BY <2>3, <2>4
  <2>6. FirstOf(t) \in 0 .. N - 1 /\ LastOf(t) \in 0 .. N - 1
    BY <1>7, <2>5
  <2> HIDE DEF N
  <2> QED
    BY <1>0, <2>1, <2>5, <2>6
<1>13. /\ Min(ends) \in ends /\ \A k \in ends : Min(ends) <= k
  <2>1. IsFiniteSet(0 .. last)
    <3>1. 0 \in Int /\ last \in Int
      BY <1>0
    <3> HIDE DEF last
    <3> QED
      BY <3>1, FS_Interval
  <2>2. ends \subseteq 0 .. last /\ ends \subseteq Int
    OBVIOUS
  <2>3. IsFiniteSet(ends)
    BY <2>1, <2>2, FS_Subset
  <2> HIDE DEF ends
  <2> QED
    BY <1>12, <2>2, <2>3, FiniteMin
<1>14. PICK m : m = Min(ends) /\ m \in ends /\ \A k \in ends : m <= k
  BY <1>13
<1>15. m \in 0 .. last /\ Narrow(m)
  BY <1>14
<1>16. Reached(m) /\ (above[m] = None \/ HasNodes(above[m]))
  BY <1>11, <1>14, <1>15
<1>17. PICK s : s = EdgeStart(r) /\ s = above[m]
  BY <1>5, <1>12, <1>14
<1>18. CASE s = None
  BY <1>16, <1>17, <1>18 DEF StartsAt
<1>19. CASE s # None
  <2>1. /\ s \in RadixNodes /\ s >= N /\ Level(s) = ParentLevel(r)
        /\ FirstOf(s) <= FirstOf(r) /\ LastOf(r) <= LastOf(s) /\ HasNodes(s)
    BY <1>16, <1>17, <1>19
  <2>2. NodeLevel(s) = Level(s) /\ NodeLevel(s) \in 0 .. 10 /\ ParentLevel(s) \in 0 .. 9
    BY <2>1, EdgeLevels
  <2>3. ParentLevel(s) < NodeLevel(s)
    BY <1>6, <2>1, <2>2
  <2>4. Holds(r) \subseteq Holds(s)
    <3>1. /\ FirstOf(s) \in Int /\ LastOf(s) \in Int /\ FirstOf(r) \in Int /\ LastOf(r) \in Int
      BY <1>0, <1>7, <2>1
    <3> QED
      BY <2>1, <3>1 DEF Holds
  <2> QED
    BY <1>17, <2>1, <2>2, <2>3, <2>4 DEF StartsAt
<1> QED
  BY <1>17, <1>18, <1>19

----------------------------------------------------------------------------
(* The places of the edges in the octree *)

(* Consecutive spans of given lengths: their starts ascend and they leave no gap. *)
LEMMA SpansFill ==
  ASSUME NEW M \in Nat, NEW f, \A k \in 0 .. M - 1 : f[k] \in Nat
  PROVE  /\ \A k \in 0 .. M : SumTo(f, k) \in Nat
         /\ \A k \in 0 .. M - 1 : SumTo(f, k + 1) = SumTo(f, k) + f[k]
         /\ \A r \in 0 .. M - 1, t \in 0 .. M : r < t => SumTo(f, r) + f[r] <= SumTo(f, t)
         /\ \A m \in Nat : m < SumTo(f, M) => \E r \in 0 .. M - 1 : SumTo(f, r) <= m /\ m < SumTo(f, r) + f[r]
<1>0. /\ SumTo(f, 0) = 0
      /\ \A k \in 0 .. M - 1 : SumTo(f, k) \in Int /\ SumTo(f, k + 1) = SumTo(f, k) + f[k]
  <2>1. \A k \in 0 .. M - 1 : f[k] \in Int
    OBVIOUS
  <2> QED
    BY <2>1, SumGrows
<1> DEFINE UpTo(k) == SumTo(f, k)
           Ok(k) == /\ UpTo(k) \in Nat
                    /\ \A r \in 0 .. k - 1 : UpTo(r) + f[r] <= UpTo(k)
                    /\ \A m \in Nat : m < UpTo(k) => \E r \in 0 .. k - 1 : UpTo(r) <= m /\ m < UpTo(r) + f[r]
           G == {k \in Nat : Ok(k)}
<1>1. 0 \in G
  BY <1>0
<1>2. ASSUME NEW k \in 0 .. M - 1, k \in G
      PROVE  k + 1 \in G
  <2>1. PICK j : j = k + 1 /\ j \in Nat
    OBVIOUS
  <2>2. PICK s, t, c : s = UpTo(k) /\ t = UpTo(j) /\ c = f[k] /\ s \in Nat /\ c \in Nat /\ t = s + c
    BY <1>0, <1>2, <2>1
  <2>3. 0 .. j - 1 = (0 .. k - 1) \cup {k}
    BY <2>1
  <2>4. Ok(k)
    BY <1>2
  <2> HIDE DEF UpTo
  <2>5. UpTo(j) \in Nat
    BY <2>2
  <2>6. ASSUME NEW r \in 0 .. j - 1
        PROVE  UpTo(r) + f[r] <= UpTo(j)
    <3>1. CASE r = k
      BY <2>2, <3>1
    <3>2. CASE r # k
      <4>1. r \in 0 .. k - 1
        BY <2>3, <3>2
      <4>2. UpTo(r) + f[r] <= s
        BY <2>2, <2>4, <4>1
      <4>3. UpTo(r) \in Int /\ f[r] \in Nat
        BY <1>0, <4>1 DEF UpTo
      <4>4. PICK x : x = UpTo(r) + f[r] /\ x \in Int
        BY <4>3
      <4> QED
        BY <2>2, <4>2, <4>4
    <3> QED
      BY <3>1, <3>2
  <2>7. ASSUME NEW m \in Nat, m < UpTo(j)
        PROVE  \E r \in 0 .. j - 1 : UpTo(r) <= m /\ m < UpTo(r) + f[r]
    <3>1. CASE m < s
      <4>1. \E r \in 0 .. k - 1 : UpTo(r) <= m /\ m < UpTo(r) + f[r]
        BY <2>2, <2>4, <3>1
      <4> QED
        BY <2>3, <4>1
    <3>2. CASE ~(m < s)
      <4>1. UpTo(k) <= m /\ m < UpTo(k) + f[k]
        BY <2>2, <2>7, <3>2
      <4> QED
        BY <2>3, <4>1
    <3> QED
      BY <3>1, <3>2
  <2>8. Ok(j)
    BY <2>5, <2>6, <2>7
  <2> HIDE DEF Ok
  <2> QED
    BY <2>1, <2>8
<1>3. \A k \in 0 .. M : Ok(k)
  <2>1. \A k \in 0 .. M - 1 : k \in G => k + 1 \in G
    BY <1>2
  <2> HIDE DEF G
  <2>2. 0 .. M \subseteq G
    BY <1>1, <2>1, NatInductionUpTo
  <2> QED
    BY <2>2 DEF G
<1>4. ASSUME NEW r \in 0 .. M - 1, NEW t \in 0 .. M, r < t
      PROVE  UpTo(r) + f[r] <= UpTo(t)
  <2>1. r \in 0 .. t - 1
    BY <1>4
  <2> HIDE DEF UpTo
  <2> QED
    BY <1>3, <2>1
<1>5. Ok(M)
  BY <1>3
<1> QED
  BY <1>0, <1>3, <1>4, <1>5

(* The first of the nodes made for a radix node is Offset(r) + 1; the root of the octree is 0. *)
Offset(r) == SumTo(EdgeCount, r)
MadeNodes == SumTo(EdgeCount, 2 * nLeaves - 1)

(* The plan gives the edges consecutive ranges of nodes: they start at Offset, do not *)
(* overlap, and each node but the root is in one of them. *)
LEMMA Offsets ==
  ASSUME TreeMade
  PROVE  /\ MadeNodes \in Nat
         /\ \A r \in RadixNodes : /\ Offset(r) \in Nat
                                  /\ EdgeCount[r] \in 0 .. 10 /\ EdgeCount[r] = NodeLevel(r) - ParentLevel(r)
                                  /\ Offset(r) + EdgeCount[r] <= MadeNodes
         /\ \A r, t \in RadixNodes : r < t => Offset(r) + EdgeCount[r] <= Offset(t)
         /\ \A m \in 1 .. MadeNodes : \E r \in RadixNodes : Offset(r) < m /\ m <= Offset(r) + EdgeCount[r]
         /\ MadeNodes = Offset(2 * nLeaves - 2) + EdgeCount[2 * nLeaves - 2]
<1>0. nLeaves \in Nat \ {0} /\ RadixNodes = 0 .. 2 * nLeaves - 2
  BY Sizes DEF TreeMade
<1>1. PICK M : M = 2 * nLeaves - 1 /\ M \in Nat \ {0} /\ RadixNodes = 0 .. M - 1 /\ M - 1 = 2 * nLeaves - 2
  BY <1>0
<1>2. \A r \in RadixNodes : EdgeCount[r] \in 0 .. 10 /\ EdgeCount[r] = NodeLevel(r) - ParentLevel(r)
  <2>1. \A r \in RadixNodes : EdgeCount[r] = NodeLevel(r) - ParentLevel(r)
    BY DEF EdgeCount
  <2>2. \A r \in RadixNodes : ParentLevel(r) \in 0 .. 9 /\ NodeLevel(r) \in 0 .. 10 /\ ParentLevel(r) <= NodeLevel(r)
    BY EdgeLevels
  <2> QED
    BY <2>1, <2>2
<1>3. PICK f : f = EdgeCount /\ \A k \in 0 .. M - 1 : f[k] \in Nat
  BY <1>1, <1>2
<1>4. /\ \A k \in 0 .. M : SumTo(f, k) \in Nat
      /\ \A k \in 0 .. M - 1 : SumTo(f, k + 1) = SumTo(f, k) + f[k]
      /\ \A r \in 0 .. M - 1, t \in 0 .. M : r < t => SumTo(f, r) + f[r] <= SumTo(f, t)
      /\ \A m \in Nat : m < SumTo(f, M) => \E r \in 0 .. M - 1 : SumTo(f, r) <= m /\ m < SumTo(f, r) + f[r]
  BY <1>1, <1>3, SpansFill
<1>5. MadeNodes \in Nat /\ MadeNodes = SumTo(f, M)
  BY <1>1, <1>3, <1>4 DEF MadeNodes
<1>6. \A r \in RadixNodes : Offset(r) \in Nat /\ Offset(r) = SumTo(f, r)
  BY <1>1, <1>3, <1>4 DEF Offset
<1>7. ASSUME NEW r \in RadixNodes
      PROVE  Offset(r) + EdgeCount[r] <= MadeNodes
  <2>1. r \in 0 .. M - 1 /\ M \in 0 .. M /\ r < M
    BY <1>1
  <2>2. SumTo(f, r) + f[r] <= SumTo(f, M)
    BY <1>4, <2>1
  <2> QED
    BY <1>3, <1>5, <1>6, <2>2
<1>8. ASSUME NEW r \in RadixNodes, NEW t \in RadixNodes, r < t
      PROVE  Offset(r) + EdgeCount[r] <= Offset(t)
  <2>1. r \in 0 .. M - 1 /\ t \in 0 .. M
    BY <1>1
  <2>2. SumTo(f, r) + f[r] <= SumTo(f, t)
    BY <1>4, <1>8, <2>1
  <2> QED
    BY <1>3, <1>6, <2>2
<1>9. ASSUME NEW m \in 1 .. MadeNodes
      PROVE  \E r \in RadixNodes : Offset(r) < m /\ m <= Offset(r) + EdgeCount[r]
  <2>1. PICK n : n = m - 1 /\ n \in Nat /\ n < SumTo(f, M) /\ m = n + 1
    BY <1>5
  <2>2. PICK r \in 0 .. M - 1 : SumTo(f, r) <= n /\ n < SumTo(f, r) + f[r]
    BY <1>4, <2>1
  <2>3. PICK o, c : o = Offset(r) /\ c = EdgeCount[r] /\ o \in Nat /\ c \in Nat /\ o <= n /\ n < o + c
    BY <1>1, <1>2, <1>3, <1>6, <2>2
  <2>4. o < m /\ m <= o + c
    BY <2>1, <2>3
  <2> QED
    BY <1>1, <2>3, <2>4
<1>10. MadeNodes = Offset(2 * nLeaves - 2) + EdgeCount[2 * nLeaves - 2]
  <2>1. PICK k : k = M - 1 /\ k \in 0 .. M - 1 /\ k + 1 = M
    <3>1. M \in Nat \ {0}
      BY <1>1
    <3>2. M - 1 \in 0 .. M - 1 /\ (M - 1) + 1 = M
      BY <3>1
    <3> QED
      BY <3>2
  <2>2. SumTo(f, M) = SumTo(f, k) + f[k]
    BY <1>4, <2>1
  <2> QED
    BY <1>1, <1>3, <1>5, <2>1, <2>2 DEF Offset
<1> QED
  BY <1>2, <1>5, <1>6, <1>7, <1>8, <1>9, <1>10

----------------------------------------------------------------------------
(* The nodes of the octree and the cells they are for *)

(* Node m is the one that the edge of radix node r makes at a level. *)
EdgeHas(r, m, level) ==
  /\ level \in 1 .. 10 /\ ParentLevel(r) < level /\ level <= NodeLevel(r)
  /\ m = Offset(r) + (level - ParentLevel(r))

(* Node m is for the cell of a level that key j names. *)
IsNode(m, level, j) ==
  \/ m = Root /\ level = 0 /\ j \in 0 .. nLeaves - 1
  \/ \E r \in RadixNodes : EdgeHas(r, m, level) /\ j \in Holds(r)

(* The numbers an edge is described by, and the places of the keys it is for. *)
LEMMA EdgeTypes ==
  ASSUME TreeMade, NEW r, r \in RadixNodes
  PROVE  /\ nLeaves \in Nat \ {0} /\ RadixNodes = 0 .. 2 * nLeaves - 2
         /\ ParentLevel(r) \in 0 .. 9 /\ NodeLevel(r) \in 0 .. 10 /\ ParentLevel(r) <= NodeLevel(r)
         /\ Offset(r) \in Nat /\ EdgeCount[r] = NodeLevel(r) - ParentLevel(r) /\ EdgeCount[r] \in 0 .. 10
         /\ MadeNodes \in Nat /\ Offset(r) + EdgeCount[r] <= MadeNodes
         /\ FirstOf(r) \in 0 .. nLeaves - 1 /\ LastOf(r) \in 0 .. nLeaves - 1 /\ FirstOf(r) <= LastOf(r)
         /\ FirstOf(r) \in Holds(r) /\ Holds(r) \subseteq 0 .. nLeaves - 1
<1>1. nLeaves \in Nat \ {0} /\ RadixNodes = 0 .. 2 * nLeaves - 2
  BY Sizes DEF TreeMade
<1>2. FirstOf(r) \in 0 .. nLeaves - 1 /\ LastOf(r) \in 0 .. nLeaves - 1 /\ FirstOf(r) <= LastOf(r)
  BY NodeRange DEF TreeMade
<1>3. FirstOf(r) \in Holds(r) /\ Holds(r) \subseteq 0 .. nLeaves - 1
  BY <1>1, <1>2 DEF Holds
<1>4. ParentLevel(r) \in 0 .. 9 /\ NodeLevel(r) \in 0 .. 10 /\ ParentLevel(r) <= NodeLevel(r)
  BY EdgeLevels
<1>5. /\ Offset(r) \in Nat /\ EdgeCount[r] = NodeLevel(r) - ParentLevel(r) /\ EdgeCount[r] \in 0 .. 10
      /\ MadeNodes \in Nat /\ Offset(r) + EdgeCount[r] <= MadeNodes
  BY Offsets
<1> QED
  BY <1>1, <1>2, <1>3, <1>4, <1>5

(* The node an edge makes for a level is in the range the plan gives the edge. *)
LEMMA EdgeNodeTypes ==
  ASSUME TreeMade, NEW r, r \in RadixNodes, NEW m, NEW level, EdgeHas(r, m, level)
  PROVE  /\ m \in 1 .. MadeNodes /\ level \in 1 .. 10
         /\ Offset(r) < m /\ m <= Offset(r) + EdgeCount[r]
<1>1. PICK o, p, n, c, t : /\ o = Offset(r) /\ p = ParentLevel(r) /\ n = NodeLevel(r) /\ c = EdgeCount[r]
                           /\ t = MadeNodes
  OBVIOUS
<1>2. /\ p \in 0 .. 9 /\ n \in 0 .. 10 /\ o \in Nat /\ c = n - p /\ t \in Nat /\ o + c <= t
  BY <1>1, EdgeTypes
<1>3. level \in 1 .. 10 /\ p < level /\ level <= n /\ m = o + (level - p)
  BY <1>1 DEF EdgeHas
<1>4. m \in 1 .. t /\ o < m /\ m <= o + c
  BY <1>2, <1>3
<1> QED
  BY <1>1, <1>3, <1>4

(* A node is made once. *)
LEMMA IdOnce ==
  ASSUME TreeMade, NEW r, r \in RadixNodes, NEW t, t \in RadixNodes, NEW m,
         NEW level, EdgeHas(r, m, level), NEW depth, EdgeHas(t, m, depth)
  PROVE  r = t /\ level = depth
<1>1. /\ nLeaves \in Nat \ {0} /\ RadixNodes = 0 .. 2 * nLeaves - 2
      /\ Offset(r) \in Nat /\ Offset(t) \in Nat /\ EdgeCount[r] \in 0 .. 10 /\ EdgeCount[t] \in 0 .. 10
      /\ ParentLevel(r) \in 0 .. 9
  BY EdgeTypes
<1>2. /\ m \in 1 .. MadeNodes /\ Offset(r) < m /\ m <= Offset(r) + EdgeCount[r]
      /\ Offset(t) < m /\ m <= Offset(t) + EdgeCount[t]
  BY EdgeNodeTypes
<1>3. r \in Int /\ t \in Int /\ MadeNodes \in Nat
  BY <1>1, EdgeTypes
<1>8. PICK o, c, u, d : /\ o = Offset(r) /\ c = EdgeCount[r] /\ u = Offset(t) /\ d = EdgeCount[t]
                        /\ o \in Nat /\ u \in Nat /\ c \in 0 .. 10 /\ d \in 0 .. 10
  BY <1>1
<1>9. m \in Int /\ o < m /\ m <= o + c /\ u < m /\ m <= u + d
  BY <1>2, <1>3, <1>8
<1>4. ~(r < t)
  <2> SUFFICES ASSUME r < t
               PROVE  FALSE
    OBVIOUS
  <2>1. Offset(r) + EdgeCount[r] <= Offset(t)
    BY Offsets
  <2>2. o + c <= u
    BY <1>8, <2>1
  <2> QED
    BY <1>8, <1>9, <2>2
<1>5. ~(t < r)
  <2> SUFFICES ASSUME t < r
               PROVE  FALSE
    OBVIOUS
  <2>1. Offset(t) + EdgeCount[t] <= Offset(r)
    BY Offsets
  <2>2. u + d <= o
    BY <1>8, <2>1
  <2> QED
    BY <1>8, <1>9, <2>2
<1>6. r = t
  BY <1>3, <1>4, <1>5
<1>7. level = depth
  <2>1. PICK p : p = ParentLevel(r) /\ p \in 0 .. 9
    BY <1>1
  <2>2. level \in 1 .. 10 /\ depth \in 1 .. 10 /\ m = o + (level - p) /\ m = o + (depth - p)
    BY <1>6, <1>8, <2>1 DEF EdgeHas
  <2> QED
    BY <1>8, <2>1, <2>2
<1> QED
  BY <1>6, <1>7

(* A node for the cell of a key is one of the octree, and only the root is at level 0. *)
LEMMA NodeTypes ==
  ASSUME TreeMade, NEW m, NEW level, NEW j, IsNode(m, level, j)
  PROVE  /\ m \in 0 .. MadeNodes /\ level \in 0 .. 10 /\ j \in 0 .. nLeaves - 1
         /\ m = Root <=> level = 0
<1>1. MadeNodes \in Nat
  BY Offsets
<1>2. CASE m = Root /\ level = 0 /\ j \in 0 .. nLeaves - 1
  BY <1>1, <1>2 DEF Root
<1>3. ASSUME NEW r \in RadixNodes, EdgeHas(r, m, level), j \in Holds(r)
      PROVE  m \in 1 .. MadeNodes /\ level \in 1 .. 10 /\ j \in 0 .. nLeaves - 1
  BY <1>3, EdgeNodeTypes, EdgeTypes
<1> QED
  BY <1>1, <1>2, <1>3 DEF IsNode, Root

(* Every node is for a cell. *)
LEMMA NodeHasCell ==
  ASSUME TreeMade, NEW m, m \in 0 .. MadeNodes
  PROVE  \E level \in 0 .. 10, j \in 0 .. nLeaves - 1 : IsNode(m, level, j)
<1>0. nLeaves \in Nat \ {0} /\ 0 \in 0 .. nLeaves - 1 /\ MadeNodes \in Nat
  BY Sizes, Offsets DEF TreeMade
<1>1. CASE m = Root
  <2>1. IsNode(m, 0, 0)
    BY <1>0, <1>1 DEF IsNode
  <2> QED
    BY <1>0, <2>1
<1>2. CASE m # Root
  <2>1. m \in 1 .. MadeNodes
    BY <1>0, <1>2 DEF Root
  <2>2. PICK r \in RadixNodes : Offset(r) < m /\ m <= Offset(r) + EdgeCount[r]
    BY <2>1, Offsets
  <2>3. PICK o, p, n, c : /\ o = Offset(r) /\ p = ParentLevel(r) /\ n = NodeLevel(r) /\ c = EdgeCount[r]
                          /\ p \in 0 .. 9 /\ n \in 0 .. 10 /\ o \in Nat /\ c = n - p
    BY EdgeTypes
  <2>4. PICK l : l = m - o + p
    OBVIOUS
  <2>5. l \in 1 .. 10 /\ p < l /\ l <= n /\ m = o + (l - p)
    BY <1>0, <2>1, <2>2, <2>3, <2>4
  <2>6. EdgeHas(r, m, l)
    BY <2>3, <2>5 DEF EdgeHas
  <2>7. FirstOf(r) \in Holds(r) /\ FirstOf(r) \in 0 .. nLeaves - 1
    BY EdgeTypes
  <2>8. IsNode(m, l, FirstOf(r)) /\ l \in 0 .. 10
    BY <2>5, <2>6, <2>7 DEF IsNode
  <2> QED
    BY <2>7, <2>8
<1> QED
  BY <1>1, <1>2

(* Keys below the edge of a node are alike down to its levels. *)
LEMMA EdgeAlike ==
  ASSUME TreeMade, NEW r, r \in RadixNodes, NEW m, NEW level, EdgeHas(r, m, level),
         NEW j, j \in Holds(r), NEW k, k \in Holds(r)
  PROVE  Alike(j, k, level)
<1>1. level \in 0 .. 10 /\ (r >= nLeaves => level <= Level(r))
  <2>1. level \in 1 .. 10 /\ level <= NodeLevel(r)
    BY DEF EdgeHas
  <2>2. r >= nLeaves => NodeLevel(r) = Level(r)
    BY EdgeLevels
  <2> QED
    BY <2>1, <2>2
<1> QED
  BY <1>1, AlikeBelow

(* All keys are alike at level 0. *)
LEMMA AlikeAtRoot ==
  ASSUME NEW j, NEW k
  PROVE  Alike(j, k, 0)
<1>1. 30 - 0 * 3 .. 30 - 1 = {}
  OBVIOUS
<1>2. \A key : mortonPrefixAtLevel(key, 0) = {}
  BY <1>1, Constants DEF mortonPrefixAtLevel
<1> QED
  BY <1>2 DEF Alike

(* Of a node the level and the cell are known. *)
LEMMA NodeOnce ==
  ASSUME TreeMade, NEW m, NEW level, NEW j, IsNode(m, level, j), NEW depth, NEW k, IsNode(m, depth, k)
  PROVE  level = depth /\ Alike(j, k, level)
<1>1. CASE m = Root
  <2>1. level = 0 /\ depth = 0
    BY <1>1, NodeTypes
  <2> QED
    BY <2>1, AlikeAtRoot
<1>2. CASE m # Root
  <2>1. PICK r \in RadixNodes : EdgeHas(r, m, level) /\ j \in Holds(r)
    BY <1>2 DEF IsNode
  <2>2. PICK t \in RadixNodes : EdgeHas(t, m, depth) /\ k \in Holds(t)
    BY <1>2 DEF IsNode
  <2>3. r = t /\ level = depth
    BY <2>1, <2>2, IdOnce
  <2> QED
    BY <2>1, <2>2, <2>3, EdgeAlike
<1> QED
  BY <1>1, <1>2

(* Of a cell there is one node. *)
LEMMA CellOnce ==
  ASSUME TreeMade, NEW m, NEW n, NEW level, NEW j, IsNode(m, level, j), NEW k, IsNode(n, level, k),
         Alike(j, k, level)
  PROVE  m = n
<1>1. CASE level = 0
  BY <1>1, NodeTypes
<1>2. CASE level # 0
  <2>1. PICK r \in RadixNodes : EdgeHas(r, m, level) /\ j \in Holds(r)
    BY <1>2 DEF IsNode
  <2>2. PICK t \in RadixNodes : EdgeHas(t, n, level) /\ k \in Holds(t)
    BY <1>2 DEF IsNode
  <2>3. r = t
    BY <2>1, <2>2, EdgesApart DEF EdgeHas
  <2> QED
    BY <2>1, <2>2, <2>3 DEF EdgeHas
<1> QED
  BY <1>1, <1>2

(* A node is for its cell by whichever key names it. *)
LEMMA NodeForAlike ==
  ASSUME TreeMade, NEW m, NEW level, NEW j, IsNode(m, level, j), NEW k, k \in 0 .. nLeaves - 1,
         Alike(j, k, level)
  PROVE  IsNode(m, level, k)
<1>1. CASE m = Root /\ level = 0
  BY <1>1 DEF IsNode
<1>2. ASSUME NEW r \in RadixNodes, EdgeHas(r, m, level), j \in Holds(r)
      PROVE  IsNode(m, level, k)
  <2>1. level \in 0 .. 10 /\ level > ParentLevel(r)
    <3>1. ParentLevel(r) \in 0 .. 9 /\ level \in 1 .. 10 /\ ParentLevel(r) < level
      BY <1>2, EdgeTypes DEF EdgeHas
    <3> QED
      BY <3>1
  <2>2. k \in Holds(r)
    BY <1>2, <2>1, ApartOutside
  <2> QED
    BY <1>2, <2>2 DEF IsNode
<1> QED
  BY <1>1, <1>2 DEF IsNode

(* Every cell with keys that differ, and every cell just below such a one, has a node. *)
LEMMA CellHasId ==
  ASSUME TreeMade, NEW j, j \in 0 .. nLeaves - 1, NEW level, level \in 1 .. 10,
         level = 1 \/ \E k \in 0 .. nLeaves - 1 : k # j /\ Alike(j, k, level - 1)
  PROVE  \E m : IsNode(m, level, j)
<1>1. PICK r \in RadixNodes : j \in Holds(r) /\ ParentLevel(r) < level /\ level <= NodeLevel(r)
  BY CellHasNode
<1>2. EdgeHas(r, Offset(r) + (level - ParentLevel(r)), level)
  BY <1>1 DEF EdgeHas
<1> QED
  BY <1>1, <1>2 DEF IsNode

(* A key is like another at a level if it is at the level above and the octants are the same. *)
LEMMA OctantStep ==
  ASSUME TreeMade, NEW j, j \in 0 .. nLeaves - 1, NEW k, k \in 0 .. nLeaves - 1, NEW level, level \in 1 .. 10
  PROVE  Alike(j, k, level)
           <=> /\ Alike(j, k, level - 1)
               /\ octantAtLevel(groups.uniqueKeys[j], level) = octantAtLevel(groups.uniqueKeys[k], level)
<1>1. PICK v, w : v = groups.uniqueKeys[j] /\ w = groups.uniqueKeys[k]
  OBVIOUS
<1>2. v \subseteq 0 .. 29 /\ w \subseteq 0 .. 29 /\ v \subseteq Int /\ w \subseteq Int
  <2>1. v \subseteq 0 .. 29 /\ w \subseteq 0 .. 29
    BY <1>1, KeysShort, Constants DEF TreeMade
  <2> QED
    BY <2>1
<1>3. PICK o, s : o = octantAtLevel(v, level) /\ s = octantAtLevel(w, level)
  OBVIOUS
<1>4. PICK c : c = 30 - level * 3 /\ c \in 0 .. 27 /\ 30 - (level - 1) * 3 = c + 3
  OBVIOUS
<1>5. /\ o \in Octants /\ \A b \in 0 .. 2 : b \in Word(o) <=> b + c \in v
      /\ s \in Octants /\ \A b \in 0 .. 2 : b \in Word(s) <=> b + c \in w
  BY <1>2, <1>3, <1>4, OctantIs
<1>6. /\ Alike(j, k, level) <=> v \cap (c .. 29) = w \cap (c .. 29)
      /\ Alike(j, k, level - 1) <=> v \cap (c + 3 .. 29) = w \cap (c + 3 .. 29)
  <2>1. 30 - 1 = 29
    OBVIOUS
  <2> QED
    BY <1>1, <1>4, <2>1, Constants DEF Alike, mortonPrefixAtLevel
<1>7. o = s <=> \A b \in 0 .. 2 : b + c \in v <=> b + c \in w
  <2>1. ASSUME \A b \in 0 .. 2 : b + c \in v <=> b + c \in w
        PROVE  o = s
    <3>1. \A b \in 0 .. 2 : b \in Word(o) <=> b \in Word(s)
      BY <1>5, <2>1
    <3> QED
      BY <1>5, <3>1, OctantSame
  <2> QED
    BY <1>5, <2>1
<1>8. (\A b \in 0 .. 2 : b + c \in v <=> b + c \in w) <=> \A x \in c .. c + 2 : x \in v <=> x \in w
  <2>1. \A b \in 0 .. 2 : b + c \in c .. c + 2
    BY <1>4
  <2>2. \A x \in c .. c + 2 : x - c \in 0 .. 2 /\ (x - c) + c = x
    BY <1>4
  <2> QED
    BY <2>1, <2>2
<1>9. c .. 29 = (c + 3 .. 29) \cup (c .. c + 2)
  BY <1>4
<1>10. /\ v \cap (c .. 29) = w \cap (c .. 29) <=> \A x \in c .. 29 : x \in v <=> x \in w
       /\ v \cap (c + 3 .. 29) = w \cap (c + 3 .. 29) <=> \A x \in c + 3 .. 29 : x \in v <=> x \in w
  OBVIOUS
<1>11. (\A x \in c .. 29 : x \in v <=> x \in w)
         <=> (\A x \in c + 3 .. 29 : x \in v <=> x \in w) /\ (\A x \in c .. c + 2 : x \in v <=> x \in w)
  BY <1>9
<1>12. Alike(j, k, level) <=> Alike(j, k, level - 1) /\ o = s
  BY <1>6, <1>7, <1>8, <1>10, <1>11
<1> QED
  BY <1>1, <1>3, <1>12

(* The octant in which the edges' nodes of a cell are linked. *)
OctantAt(j, level) == octantAtLevel(groups.uniqueKeys[j], level)

(* The octant of a key in a level is one of the eight. *)
LEMMA OctantType ==
  ASSUME TreeMade, NEW j, j \in 0 .. nLeaves - 1, NEW level, level \in 1 .. 10
  PROVE  OctantAt(j, level) \in Octants
<1>1. groups.uniqueKeys[j] \subseteq Int
  <2>1. groups.uniqueKeys[j] \subseteq 0 .. 29
    BY KeysShort, Constants DEF TreeMade
  <2> QED
    BY <2>1
<1> QED
  BY <1>1, OctantIs DEF OctantAt

(* No two nodes are to be linked in one slot. *)
LEMMA SlotOnce ==
  ASSUME TreeMade, NEW p,
         NEW m, NEW level, NEW j, IsNode(m, level, j), level \in 1 .. 10, IsNode(p, level - 1, j),
         NEW n, NEW depth, NEW k, IsNode(n, depth, k), depth \in 1 .. 10, IsNode(p, depth - 1, k),
         OctantAt(j, level) = OctantAt(k, depth)
  PROVE  m = n
<1>1. level - 1 = depth - 1 /\ Alike(j, k, level - 1)
  BY NodeOnce
<1>2. level = depth
  BY <1>1
<1>3. j \in 0 .. nLeaves - 1 /\ k \in 0 .. nLeaves - 1
  BY NodeTypes
<1>4. Alike(j, k, level)
  BY <1>1, <1>2, <1>3, OctantStep DEF OctantAt
<1> QED
  BY <1>2, <1>4, CellOnce

----------------------------------------------------------------------------
(* The threads of materializeSparseOctreeKernel *)

(* The l-th node of the edge of r, from 0, its level, and the node it is linked from. *)
NodeId(r, l) == 1 + plan.edgeNodeOffset[r] + l
LevelAt(r, l) == EdgeParentLevel(r) + l + 1
ParentId(r, l) ==
  IF l > 0 THEN NodeId(r, l) - 1 ELSE IF EdgeStart(r) = None THEN Root ELSE LastNodeOf(EdgeStart(r))

(* Above the root there is no node. *)
LEMMA NoneApart ==
  ASSUME TreeMade
  PROVE  None \notin RadixNodes /\ Lost \notin RadixNodes /\ Lost # None
<1>1. nLeaves \in Nat \ {0} /\ RadixNodes = 0 .. 2 * nLeaves - 2
  BY Sizes DEF TreeMade
<1> QED
  BY <1>1 DEF None, Lost

(* What a thread counts through is the nodes the edge has, level by level. *)
LEMMA EdgeNode ==
  ASSUME TreeMade, Planned, NEW r, r \in RadixNodes, NEW l, l \in 0 .. EdgeCount[r] - 1
  PROVE  /\ EdgeHas(r, NodeId(r, l), LevelAt(r, l)) /\ IsNode(NodeId(r, l), LevelAt(r, l), FirstOf(r))
         /\ NodeId(r, l) \in 1 .. MadeNodes /\ LevelAt(r, l) \in 1 .. 10
         /\ NodeId(r, l) = Offset(r) + l + 1 /\ LevelAt(r, l) = ParentLevel(r) + l + 1
<1>1. PICK o, p, n, c : /\ o = Offset(r) /\ p = ParentLevel(r) /\ n = NodeLevel(r) /\ c = EdgeCount[r]
  OBVIOUS
<1>2. p \in 0 .. 9 /\ n \in 0 .. 10 /\ o \in Nat /\ c = n - p /\ l \in 0 .. c - 1
  BY <1>1, EdgeTypes
<1>3. plan.edgeNodeOffset[r] = o /\ plan.radixLevel[r] = n /\ plan.edgeNodeCount[r] = c
  BY <1>1 DEF Planned, Offset
<1>4. PICK m, level : m = NodeId(r, l) /\ level = LevelAt(r, l)
  OBVIOUS
<1>5. m = o + l + 1 /\ level = p + l + 1
  BY <1>2, <1>3, <1>4 DEF NodeId, LevelAt, EdgeParentLevel
<1>6. level \in 1 .. 10 /\ p < level /\ level <= n /\ m = o + (level - p)
  BY <1>2, <1>5
<1>7. EdgeHas(r, m, level)
  BY <1>1, <1>6 DEF EdgeHas
<1>8. FirstOf(r) \in Holds(r)
  BY EdgeTypes
<1>9. m \in 1 .. MadeNodes
  BY <1>7, EdgeNodeTypes
<1> QED
  BY <1>1, <1>4, <1>5, <1>6, <1>7, <1>8, <1>9 DEF IsNode

(* Every node that an edge has is one its thread comes to. *)
LEMMA NodeIdOf ==
  ASSUME TreeMade, Planned, NEW r, r \in RadixNodes, NEW m, NEW level, EdgeHas(r, m, level)
  PROVE  \E l \in 0 .. EdgeCount[r] - 1 : m = NodeId(r, l) /\ level = LevelAt(r, l)
<1>1. PICK o, p, n, c : /\ o = Offset(r) /\ p = ParentLevel(r) /\ n = NodeLevel(r) /\ c = EdgeCount[r]
  OBVIOUS
<1>2. p \in 0 .. 9 /\ n \in 0 .. 10 /\ o \in Nat /\ c = n - p
  BY <1>1, EdgeTypes
<1>3. level \in 1 .. 10 /\ p < level /\ level <= n /\ m = o + (level - p)
  BY <1>1 DEF EdgeHas
<1>4. PICK l : l = level - p - 1
  OBVIOUS
<1>5. l \in 0 .. c - 1 /\ m = o + l + 1 /\ level = p + l + 1
  BY <1>2, <1>3, <1>4
<1>6. NodeId(r, l) = Offset(r) + l + 1 /\ LevelAt(r, l) = ParentLevel(r) + l + 1
  BY <1>1, <1>5, EdgeNode
<1> QED
  BY <1>1, <1>5, <1>6

(* No two threads, and no two turns of one, write the same node. *)
LEMMA NodeIdOnce ==
  ASSUME TreeMade, Planned, NEW r, r \in RadixNodes, NEW l, l \in 0 .. EdgeCount[r] - 1,
         NEW t, t \in RadixNodes, NEW k, k \in 0 .. EdgeCount[t] - 1, NodeId(r, l) = NodeId(t, k)
  PROVE  r = t /\ l = k
<1>1. EdgeHas(r, NodeId(r, l), LevelAt(r, l)) /\ EdgeHas(t, NodeId(r, l), LevelAt(t, k))
  BY EdgeNode
<1>2. r = t
  BY <1>1, IdOnce
<1>3. NodeId(r, l) = Offset(r) + l + 1 /\ NodeId(t, k) = Offset(r) + k + 1 /\ Offset(r) \in Nat /\ EdgeCount[r] \in 0 .. 10
  BY <1>2, EdgeNode, EdgeTypes
<1>4. l = k
  BY <1>2, <1>3
<1> QED
  BY <1>2, <1>4

(* A node is linked from that of the cell around its own. *)
LEMMA ParentNode ==
  ASSUME TreeMade, Planned, NEW r, r \in RadixNodes, NEW l, l \in 0 .. EdgeCount[r] - 1
  PROVE  IsNode(ParentId(r, l), LevelAt(r, l) - 1, FirstOf(r)) /\ ParentId(r, l) \in 0 .. MadeNodes
<1>0. /\ NodeId(r, l) = Offset(r) + l + 1 /\ LevelAt(r, l) = ParentLevel(r) + l + 1
      /\ Offset(r) \in Nat /\ ParentLevel(r) \in 0 .. 9 /\ EdgeCount[r] \in 0 .. 10
      /\ FirstOf(r) \in Holds(r) /\ FirstOf(r) \in 0 .. nLeaves - 1
  BY EdgeNode, EdgeTypes
<1>1. CASE l > 0
  <2>1. PICK k : k = l - 1 /\ k \in 0 .. EdgeCount[r] - 1 /\ k + 1 = l
    BY <1>0, <1>1
  <2>2. /\ IsNode(NodeId(r, k), LevelAt(r, k), FirstOf(r))
        /\ NodeId(r, k) = Offset(r) + k + 1 /\ LevelAt(r, k) = ParentLevel(r) + k + 1
    BY <2>1, EdgeNode
  <2>3. NodeId(r, l) - 1 = NodeId(r, k) /\ LevelAt(r, l) - 1 = LevelAt(r, k)
    BY <1>0, <2>1, <2>2
  <2>4. ParentId(r, l) = NodeId(r, l) - 1
    BY <1>1 DEF ParentId
  <2>5. IsNode(ParentId(r, l), LevelAt(r, l) - 1, FirstOf(r))
    BY <2>2, <2>3, <2>4
  <2> QED
    BY <2>5, NodeTypes
<1>2. CASE ~(l > 0)
  <2>1. l = 0 /\ LevelAt(r, l) - 1 = ParentLevel(r)
    BY <1>0, <1>2
  <2>2. PICK s : s = EdgeStart(r) /\ StartsAt(r, s)
    BY EdgeStarts
  <2>3. CASE s = None
    <3>1. ParentId(r, l) = Root
      BY <1>2, <2>2, <2>3 DEF ParentId
    <3>2. ParentLevel(r) = 0
      BY <2>2, <2>3, NoneApart DEF StartsAt
    <3>3. IsNode(ParentId(r, l), LevelAt(r, l) - 1, FirstOf(r))
      BY <1>0, <2>1, <3>1, <3>2 DEF IsNode
    <3> QED
      BY <3>3, NodeTypes
  <2>4. CASE s # None
    <3>1. /\ s \in RadixNodes /\ NodeLevel(s) = ParentLevel(r) /\ ParentLevel(s) < NodeLevel(s)
          /\ Holds(r) \subseteq Holds(s)
      BY <2>2, <2>4 DEF StartsAt
    <3>2. ParentId(r, l) = LastNodeOf(s)
      BY <1>2, <2>2, <2>4 DEF ParentId
    <3>3. PICK m : m = Offset(s) + (NodeLevel(s) - ParentLevel(s))
      OBVIOUS
    <3>4. LastNodeOf(s) = m
      <4>1. plan.edgeNodeOffset[s] = Offset(s) /\ plan.edgeNodeCount[s] = NodeLevel(s) - ParentLevel(s)
        BY <3>1 DEF Planned, Offset, EdgeCount
      <4> QED
        BY <3>3, <4>1 DEF LastNodeOf
    <3>5. EdgeHas(s, m, NodeLevel(s))
      <4>0. PICK u, v : u = NodeLevel(s) /\ v = ParentLevel(s) /\ u \in 0 .. 10 /\ v \in 0 .. 9
        BY <3>1, EdgeTypes
      <4>1. u \in 1 .. 10 /\ v < u /\ u <= u
        BY <3>1, <4>0
      <4> QED
        BY <3>3, <4>0, <4>1 DEF EdgeHas
    <3>6. IsNode(ParentId(r, l), LevelAt(r, l) - 1, FirstOf(r))
      BY <1>0, <2>1, <3>1, <3>2, <3>4, <3>5 DEF IsNode
    <3> QED
      BY <3>6, NodeTypes
  <2> QED
    BY <2>3, <2>4
<1> QED
  BY <1>1, <1>2

(* The keys of a leaf of the tree, and of another node. *)
LEMMA HoldsOne ==
  ASSUME TreeMade, NEW r, r \in RadixNodes, NEW j, j \in Holds(r)
  PROVE  /\ r < nLeaves => Holds(r) = {j} /\ j = r
         /\ r >= nLeaves => \E k \in Holds(r) : k # j
<1>1. PICK f, l : /\ f = FirstOf(r) /\ l = LastOf(r) /\ f \in 0 .. nLeaves - 1 /\ l \in 0 .. nLeaves - 1 /\ f <= l
                  /\ r < nLeaves <=> f = l
  BY NodeRange DEF TreeMade
<1>2. nLeaves \in Nat \ {0} /\ r \in Int
  <2>1. nLeaves \in Nat \ {0} /\ RadixNodes = 0 .. 2 * nLeaves - 2
    BY Sizes DEF TreeMade
  <2> QED
    BY <2>1
<1>3. Holds(r) = f .. l
  BY <1>1 DEF Holds
<1>4. ASSUME r < nLeaves
      PROVE  Holds(r) = {j} /\ j = r
  <2>1. f = l /\ f = r
    BY <1>1, <1>4 DEF FirstOf
  <2> QED
    BY <1>1, <1>2, <1>3, <2>1
<1>5. ASSUME r >= nLeaves
      PROVE  \E k \in Holds(r) : k # j
  <2>1. f # l
    BY <1>1, <1>2, <1>5
  <2>2. f \in Holds(r) /\ l \in Holds(r)
    BY <1>1, <1>3
  <2> QED
    BY <2>1, <2>2
<1> QED
  BY <1>4, <1>5

(* An edge makes only nodes for cells whose surrounding cell has different keys. *)
LEMMA NodeShared ==
  ASSUME TreeMade, NEW r, r \in RadixNodes, NEW m, NEW level, EdgeHas(r, m, level), NEW j, j \in Holds(r)
  PROVE  level = 1 \/ \E k \in 0 .. nLeaves - 1 : k # j /\ Alike(j, k, level - 1)
<1>0. /\ level \in 1 .. 10 /\ ParentLevel(r) < level /\ level <= NodeLevel(r)
      /\ ParentLevel(r) \in 0 .. 9 /\ Holds(r) \subseteq 0 .. nLeaves - 1
  BY EdgeTypes DEF EdgeHas
<1>1. PICK above : above = level - 1 /\ above \in 0 .. 10
  BY <1>0
<1>2. CASE r >= nLeaves
  <2>1. PICK k \in Holds(r) : k # j
    BY <1>2, HoldsOne
  <2>2. above <= Level(r)
    <3>1. level <= Level(r) /\ Level(r) \in 0 .. 9
      BY <1>0, <1>2, EdgeLevels, LevelIs
    <3> QED
      BY <1>0, <1>1, <3>1
  <2>3. Alike(j, k, above)
    BY <1>1, <2>1, <2>2, AlikeBelow
  <2> QED
    BY <1>0, <1>1, <2>1, <2>3
<1>3. CASE ~(r >= nLeaves)
  <2>0. r < nLeaves
    <3>1. nLeaves \in Nat \ {0} /\ RadixNodes = 0 .. 2 * nLeaves - 2
      BY EdgeTypes
    <3> QED
      BY <1>3, <3>1
  <2>1. above = ParentLevel(r)
    <3>1. NodeLevel(r) = ParentLevel(r) + 1
      BY <2>0, EdgeLevels
    <3> QED
      BY <1>0, <1>1, <3>1
  <2>2. CASE tree.parent[r] = None
    <3>1. above = 0
      BY <2>1, <2>2, EdgeLevels
    <3> QED
      BY <1>0, <1>1, <3>1
  <2>3. CASE tree.parent[r] # None
    <3>1. PICK p : p = tree.parent[r]
      OBVIOUS
    <3>2. /\ p \in RadixNodes /\ p >= nLeaves /\ ParentLevel(r) = Level(p)
      BY <2>3, <3>1, EdgeLevels
    <3>3. Holds(r) \subseteq Holds(p)
      <4>1. \/ FirstOf(p) = FirstOf(r) /\ LastOf(r) < LastOf(p)
            \/ FirstOf(p) < FirstOf(r) /\ LastOf(p) = LastOf(r)
        BY <2>3, <3>1, ParentSpans DEF TreeMade
      <4>2. /\ FirstOf(r) \in 0 .. nLeaves - 1 /\ LastOf(r) \in 0 .. nLeaves - 1
            /\ FirstOf(p) \in 0 .. nLeaves - 1 /\ LastOf(p) \in 0 .. nLeaves - 1
        BY <3>2, EdgeTypes
      <4> QED
        BY <4>1, <4>2 DEF Holds
    <3>4. PICK k \in Holds(p) : k # j
      BY <3>2, <3>3, HoldsOne
    <3>5. k \in 0 .. nLeaves - 1
      BY <3>2, <3>4, EdgeTypes
    <3>6. Alike(j, k, above)
      <4>1. j \in Holds(p) /\ above <= Level(p)
        BY <1>0, <2>1, <3>2, <3>3
      <4> QED
        BY <1>1, <3>2, <3>4, <4>1, AlikeBelow
    <3> QED
      BY <1>1, <3>4, <3>5, <3>6
  <2> QED
    BY <2>2, <2>3
<1> QED
  BY <1>2, <1>3

(* The last node of the edge of a leaf is the first whose cell has one key. *)
LEMMA LeafAlone ==
  ASSUME TreeMade, NEW r, r \in RadixNodes, NEW m, NEW level, EdgeHas(r, m, level), NEW j, j \in Holds(r)
  PROVE  /\ r < nLeaves => EdgeCount[r] = 1 /\ \A k \in 0 .. nLeaves - 1 : Alike(j, k, level) => k = j
         /\ r >= nLeaves => \E k \in 0 .. nLeaves - 1 : k # j /\ Alike(j, k, level)
<1>0. /\ level \in 1 .. 10 /\ ParentLevel(r) < level /\ level <= NodeLevel(r)
      /\ ParentLevel(r) \in 0 .. 9 /\ Holds(r) \subseteq 0 .. nLeaves - 1
  BY EdgeTypes DEF EdgeHas
<1>1. ASSUME r < nLeaves
      PROVE  EdgeCount[r] = 1 /\ \A k \in 0 .. nLeaves - 1 : Alike(j, k, level) => k = j
  <2>1. EdgeCount[r] = 1
    <3>1. NodeLevel(r) = ParentLevel(r) + 1 /\ EdgeCount[r] = NodeLevel(r) - ParentLevel(r)
      BY <1>1, EdgeLevels, EdgeTypes
    <3> QED
      BY <1>0, <3>1
  <2>2. ASSUME NEW k \in 0 .. nLeaves - 1, Alike(j, k, level)
        PROVE  k = j
    <3>1. level \in 0 .. 10 /\ level > ParentLevel(r)
      BY <1>0
    <3>2. k \in Holds(r)
      BY <2>2, <3>1, ApartOutside
    <3> QED
      BY <1>1, <3>2, HoldsOne
  <2> QED
    BY <2>1, <2>2
<1>2. ASSUME r >= nLeaves
      PROVE  \E k \in 0 .. nLeaves - 1 : k # j /\ Alike(j, k, level)
  <2>1. PICK k \in Holds(r) : k # j
    BY <1>2, HoldsOne
  <2>2. Alike(j, k, level)
    BY <2>1, EdgeAlike
  <2> QED
    BY <1>0, <2>1, <2>2
<1> QED
  BY <1>1, <1>2

----------------------------------------------------------------------------
(* No kernel finds an error *)

(* planSparseOctreeKernel finds no node whose level is above its parent's. *)
LEMMA NoPlanError ==
  ASSUME TreeMade, NEW r, r \in RadixNodes
  PROVE  PlanError(r) = 0
<1>0. /\ nLeaves \in Nat \ {0} /\ RadixNodes = 0 .. 2 * nLeaves - 2
      /\ ParentLevel(r) \in 0 .. 9 /\ NodeLevel(r) \in 0 .. 10 /\ ParentLevel(r) <= NodeLevel(r)
      /\ FirstOf(r) \in 0 .. nLeaves - 1 /\ LastOf(r) \in 0 .. nLeaves - 1
  BY EdgeTypes
<1>1. r < nLeaves => groups.uniqueKeys[r] \subseteq kMortonSpatialMask
  <2>1. r < nLeaves => r \in 0 .. nLeaves - 1
    BY <1>0
  <2> QED
    BY <2>1, KeysShort DEF TreeMade
<1>2. r >= nLeaves => tree.prefixLength[r - nLeaves] - kMortonPaddingBits \in 0 .. kMortonSpatialBits - 1
  <2> SUFFICES ASSUME r >= nLeaves
               PROVE  tree.prefixLength[r - nLeaves] - kMortonPaddingBits \in 0 .. kMortonSpatialBits - 1
    OBVIOUS
  <2>1. FirstOf(r) # LastOf(r) /\ tree.prefixLength[r - nLeaves] = Lcp(FirstOf(r), LastOf(r))
    BY <1>0, NodeRange DEF TreeMade
  <2>2. Lcp(FirstOf(r), LastOf(r)) \in 2 .. 31
    BY <1>0, <2>1, PairShares
  <2>3. kMortonPaddingBits = 2 /\ kMortonSpatialBits = 30
    BY Constants
  <2> QED
    BY <2>1, <2>2, <2>3
<1>3. tree.parent[r] # None => tree.parent[r] \in nLeaves .. 2 * nLeaves - 2
  BY ParentSpans DEF TreeMade
<1>4. NodeLevel(r) \in 0 .. kOctreeMaxLevel /\ ~(NodeLevel(r) < ParentLevel(r))
  BY <1>0, Constants
<1> QED
  BY <1>1, <1>2, <1>3, <1>4 DEF PlanError

(* materializeSparseOctreeKernel finds no edge without a start and none beyond the nodes. *)
LEMMA NoEdgeError ==
  ASSUME TreeMade, Planned, NEW r, r \in RadixNodes
  PROVE  EdgeError(r) = 0
<1>0. /\ nLeaves \in Nat \ {0} /\ RadixNodes = 0 .. 2 * nLeaves - 2
      /\ ParentLevel(r) \in 0 .. 9 /\ NodeLevel(r) \in 0 .. 10 /\ ParentLevel(r) <= NodeLevel(r)
      /\ EdgeCount[r] = NodeLevel(r) - ParentLevel(r) /\ EdgeCount[r] \in 0 .. 10
      /\ FirstOf(r) \in 0 .. nLeaves - 1 /\ LastOf(r) \in 0 .. nLeaves - 1
  BY EdgeTypes
<1>1. plan.radixLevel[r] = NodeLevel(r) /\ plan.edgeNodeCount[r] = EdgeCount[r]
  BY DEF Planned
<1>2. EdgeParentLevel(r) = ParentLevel(r)
  <2>1. PICK n, p, c : n = NodeLevel(r) /\ p = ParentLevel(r) /\ c = EdgeCount[r] /\ n \in 0 .. 10 /\ p \in 0 .. 9 /\ c = n - p
    BY <1>0
  <2>2. EdgeParentLevel(r) = n - c
    BY <1>1, <2>1 DEF EdgeParentLevel
  <2> QED
    BY <2>1, <2>2
<1>3. PICK s : s = EdgeStart(r) /\ StartsAt(r, s)
  BY EdgeStarts
<1>4. ~(plan.edgeNodeCount[r] < 0 \/ plan.radixLevel[r] \notin 0 .. kOctreeMaxLevel)
  BY <1>0, <1>1, Constants
<1>5. plan.edgeNodeCount[r] = 0 => ~(r < nLeaves)
  <2>1. r < nLeaves => NodeLevel(r) = ParentLevel(r) + 1
    BY EdgeLevels
  <2> QED
    BY <1>0, <1>1, <2>1
<1>6. ~(EdgeParentLevel(r) < 0)
  BY <1>0, <1>2
<1>7. ~(r >= nLeaves /\ tree.rangeFirst[r - nLeaves] \notin 0 .. nLeaves - 1)
  <2>1. r >= nLeaves => tree.rangeFirst[r - nLeaves] = FirstOf(r)
    BY <1>0 DEF FirstOf
  <2> QED
    BY <1>0, <2>1
<1>8. s # Lost /\ ~(s = None /\ EdgeParentLevel(r) # 0)
  BY <1>2, <1>3, NoneApart DEF StartsAt
<1>9. ~(s # None /\ plan.radixLevel[s] # EdgeParentLevel(r))
  BY <1>2, <1>3 DEF StartsAt, Planned
<1> QED
  BY <1>3, <1>4, <1>5, <1>6, <1>7, <1>8, <1>9 DEF EdgeError

----------------------------------------------------------------------------
(* What the threads have written of an octree *)

(* The arrays of an octree with room for the nodes of all edges. *)
Shape(o) ==
  /\ o = [children |-> o.children, parent |-> o.parent, level |-> o.level, prefix |-> o.prefix,
          firstParticle |-> o.firstParticle, particleCount |-> o.particleCount,
          centre |-> o.centre, halfSize |-> o.halfSize]
  /\ DOMAIN o.children = 0 .. MadeNodes /\ DOMAIN o.parent = 0 .. MadeNodes
  /\ DOMAIN o.level = 0 .. MadeNodes /\ DOMAIN o.prefix = 0 .. MadeNodes
  /\ DOMAIN o.firstParticle = 0 .. MadeNodes /\ DOMAIN o.particleCount = 0 .. MadeNodes
  /\ \A n \in 0 .. MadeNodes : DOMAIN o.children[n] = Octants

SlotAt(r, l) == OctantAt(FirstOf(r), LevelAt(r, l))

(* The l-th node of the edge of r is written and linked. *)
Written(o, r, l) ==
  /\ o.level[NodeId(r, l)] = LevelAt(r, l)
  /\ o.prefix[NodeId(r, l)] = mortonPrefixAtLevel(groups.uniqueKeys[FirstOf(r)], LevelAt(r, l))
  /\ o.parent[NodeId(r, l)] = ParentId(r, l)
  /\ o.children[ParentId(r, l)][SlotAt(r, l)] = NodeId(r, l)
  /\ r < nLeaves => /\ o.firstParticle[NodeId(r, l)] = groups.firstParticle[r]
                    /\ o.particleCount[NodeId(r, l)] = groups.particleCount[r]
  /\ r >= nLeaves => o.particleCount[NodeId(r, l)] = 0

(* The root is there, and empty. *)
RootWritten(o) ==
  o.level[Root] = 0 /\ o.prefix[Root] = {} /\ o.parent[Root] = NoNode /\ o.particleCount[Root] = 0

(* Of each edge the first done[r] nodes are written, and nothing else. *)
EdgesWritten(o, done) ==
  /\ Shape(o)
  /\ DOMAIN done = RadixNodes
  /\ \A r \in RadixNodes : done[r] \in 0 .. EdgeCount[r]
  /\ RootWritten(o)
  /\ \A r \in RadixNodes : \A l \in 0 .. done[r] - 1 : Written(o, r, l)
  /\ \A r \in RadixNodes : \A l \in done[r] .. EdgeCount[r] - 1 : o.particleCount[NodeId(r, l)] = 0
  /\ \A n \in 0 .. MadeNodes, s \in Octants :
       o.children[n][s] # NoNode =>
         \E r \in RadixNodes : \E l \in 0 .. done[r] - 1 :
           o.children[n][s] = NodeId(r, l) /\ n = ParentId(r, l) /\ s = SlotAt(r, l)

(* While the threads write the edges; one that is done has written its edge. *)
Linking ==
  /\ errorCode = 0 /\ Planned /\ EdgesWritten(octree, linked)
  /\ \A r \in RadixNodes : r \in threads => linked[r] = EdgeCount[r]

(* While the plan stays, so do the nodes it speaks of. *)
LEMMA Steady ==
  ASSUME UNCHANGED <<groups, tree, plan>>
  PROVE  /\ nLeaves' = nLeaves /\ RadixNodes' = RadixNodes /\ EdgeCount' = EdgeCount /\ MadeNodes' = MadeNodes
         /\ Planned => Planned'
         /\ \A o, done : EdgesWritten(o, done) => EdgesWritten(o, done)'
<1>1. nLeaves' = nLeaves /\ RadixNodes' = RadixNodes
  BY DEF nLeaves, RadixNodes
<1>2. \A r : octreeLevelForRadixNode(r)' = octreeLevelForRadixNode(r)
  BY <1>1 DEF octreeLevelForRadixNode
<1>3. \A r : ParentLevel(r)' = ParentLevel(r)
  <2> SUFFICES ASSUME NEW r
               PROVE  ParentLevel(r)' = ParentLevel(r)
    OBVIOUS
  <2>1. tree.parent' = tree.parent
    OBVIOUS
  <2>2. octreeLevelForRadixNode(tree.parent[r])' = octreeLevelForRadixNode(tree.parent[r])
    BY <1>1 DEF octreeLevelForRadixNode
  <2> QED
    BY <2>2 DEF ParentLevel
<1>4. \A r : NodeLevel(r)' = NodeLevel(r)
  BY <1>1, <1>2, <1>3 DEF NodeLevel
<1>5. EdgeCount' = EdgeCount
  BY <1>1, <1>3, <1>4 DEF EdgeCount
<1>6. MadeNodes' = MadeNodes
  BY <1>1, <1>5 DEF MadeNodes
<1>7. Planned => Planned'
  BY <1>1, <1>4, <1>5 DEF Planned
<1>8. \A r : FirstOf(r)' = FirstOf(r)
  BY <1>1 DEF FirstOf
<1>9. \A r : EdgeStart(r)' = EdgeStart(r)
  BY <1>1 DEF EdgeStart, HasNodes
<1>10. \A r, l : NodeId(r, l)' = NodeId(r, l) /\ LevelAt(r, l)' = LevelAt(r, l)
  BY DEF NodeId, LevelAt, EdgeParentLevel
<1>11. \A r, l : ParentId(r, l)' = ParentId(r, l)
  BY <1>9, <1>10 DEF ParentId, LastNodeOf
<1>12. \A r, l : SlotAt(r, l)' = SlotAt(r, l)
  BY <1>8, <1>10 DEF SlotAt, OctantAt
<1>13. \A o, r, l : Written(o, r, l)' <=> Written(o, r, l)
  BY <1>1, <1>8, <1>10, <1>11, <1>12 DEF Written
<1>14. \A o : Shape(o)' <=> Shape(o)
  BY <1>6 DEF Shape
<1>15. \A o : RootWritten(o)' <=> RootWritten(o)
  BY DEF RootWritten
<1>16. ASSUME NEW o, NEW done, EdgesWritten(o, done)
       PROVE  EdgesWritten(o, done)'
  BY <1>1, <1>5, <1>6, <1>10, <1>11, <1>12, <1>13, <1>14, <1>15, <1>16 DEF EdgesWritten
<1> QED
  BY <1>1, <1>5, <1>6, <1>7, <1>16

(* What a thread writes: the next node of its edge, with no error. *)
NodeAdded(o, r, l) ==
  LET m == NodeId(r, l)
      linkedIn == [o EXCEPT
        !.level[m] = LevelAt(r, l),
        !.prefix[m] = mortonPrefixAtLevel(groups.uniqueKeys[FirstOf(r)], LevelAt(r, l)),
        !.parent[m] = ParentId(r, l), !.children[ParentId(r, l)][SlotAt(r, l)] = m]
  IN IF r < nLeaves
     THEN [linkedIn EXCEPT !.firstParticle[m] = groups.firstParticle[r],
                           !.particleCount[m] = groups.particleCount[r]]
     ELSE linkedIn

(* The slot of a node is free or has the node. *)
LEMMA SlotFree ==
  ASSUME TreeMade, Planned, NEW o, NEW done, EdgesWritten(o, done),
         NEW r, r \in RadixNodes, NEW l, l \in 0 .. EdgeCount[r] - 1
  PROVE  o.children[ParentId(r, l)][SlotAt(r, l)] \in {NoNode, NodeId(r, l)}
<1>1. ParentId(r, l) \in 0 .. MadeNodes
  BY ParentNode
<1>2. SlotAt(r, l) \in Octants
  <2>1. FirstOf(r) \in 0 .. nLeaves - 1 /\ LevelAt(r, l) \in 1 .. 10
    BY EdgeTypes, EdgeNode
  <2> QED
    BY <2>1, OctantType DEF SlotAt
<1>3. CASE o.children[ParentId(r, l)][SlotAt(r, l)] = NoNode
  BY <1>3
<1>4. CASE o.children[ParentId(r, l)][SlotAt(r, l)] # NoNode
  <2>1. PICK t \in RadixNodes : \E k \in 0 .. done[t] - 1 :
           /\ o.children[ParentId(r, l)][SlotAt(r, l)] = NodeId(t, k)
           /\ ParentId(r, l) = ParentId(t, k) /\ SlotAt(r, l) = SlotAt(t, k)
    BY <1>1, <1>2, <1>4 DEF EdgesWritten
  <2>2. PICK k \in 0 .. done[t] - 1 :
           /\ o.children[ParentId(r, l)][SlotAt(r, l)] = NodeId(t, k)
           /\ ParentId(r, l) = ParentId(t, k) /\ SlotAt(r, l) = SlotAt(t, k)
    BY <2>1
  <2>3. k \in 0 .. EdgeCount[t] - 1
    <3>1. done[t] \in 0 .. EdgeCount[t] /\ EdgeCount[t] \in 0 .. 10
      BY EdgeTypes DEF EdgesWritten
    <3> QED
      BY <3>1
  <2>4. /\ IsNode(NodeId(r, l), LevelAt(r, l), FirstOf(r)) /\ LevelAt(r, l) \in 1 .. 10
        /\ IsNode(ParentId(r, l), LevelAt(r, l) - 1, FirstOf(r))
    BY EdgeNode, ParentNode
  <2>5. /\ IsNode(NodeId(t, k), LevelAt(t, k), FirstOf(t)) /\ LevelAt(t, k) \in 1 .. 10
        /\ IsNode(ParentId(r, l), LevelAt(t, k) - 1, FirstOf(t))
    BY <2>2, <2>3, EdgeNode, ParentNode
  <2>6. NodeId(r, l) = NodeId(t, k)
    BY <2>2, <2>4, <2>5, SlotOnce DEF SlotAt
  <2> QED
    BY <2>2, <2>6
<1> QED
  BY <1>3, <1>4

(* A turn of a thread adds the next node of its edge and finds no error; the thread ends *)
(* with its edge. *)
LEMMA LinkNodeAdds ==
  ASSUME TreeMade, Linking, NEW r, LinkNode(r)
  PROVE  /\ r \in RadixNodes /\ r \notin threads /\ linked[r] \in 0 .. EdgeCount[r] - 1
         /\ errorCode' = 0
         /\ octree' = NodeAdded(octree, r, linked[r])
         /\ linked' = [linked EXCEPT ![r] = @ + 1]
         /\ threads' \subseteq threads \cup {r}
         /\ r \in threads' => linked[r] + 1 = EdgeCount[r]
         /\ UNCHANGED <<positions, box, indices, stage, keys, groups, tree, plan>>
<1> DEFINE key == representativeKeyForRadixNode(r)
           made == 1 + plan.edgeNodeOffset[r] + linked[r]
           level == EdgeParentLevel(r) + linked[r] + 1
           parent == IF linked[r] > 0 THEN made - 1
                     ELSE IF EdgeStart(r) = None THEN Root ELSE LastNodeOf(EdgeStart(r))
           octant == octantAtLevel(key, level)
           last == linked[r] + 1 = plan.edgeNodeCount[r]
           taken == octree.children[parent][octant] \notin {NoNode, made}
           group == last /\ ~taken /\ r < nLeaves
           error == CASE made \notin Nodes \ {Root} -> 6
                      [] made \in Nodes \ {Root} /\ taken -> 4
                      [] group /\ level \notin 1 .. kOctreeMaxLevel -> 5
                      [] OTHER -> 0
           written == [octree EXCEPT
             !.level[made] = level, !.prefix[made] = mortonPrefixAtLevel(key, level),
             !.parent[made] = parent, !.children[parent][octant] = IF taken THEN @ ELSE made]
<1>1. /\ r \in RadixNodes /\ r \notin threads /\ linked[r] < plan.edgeNodeCount[r]
      /\ octree' = CASE error = 6 -> octree
                     [] group /\ error = 0 ->
                          [written EXCEPT !.firstParticle[made] = groups.firstParticle[r],
                                          !.particleCount[made] = groups.particleCount[r]]
                     [] OTHER -> written
      /\ errorCode' = Reported(error)
      /\ linked' = [linked EXCEPT ![r] = @ + 1]
      /\ threads' = (IF last \/ error # 0 THEN threads \cup {r} ELSE threads)
      /\ UNCHANGED <<positions, box, indices, stage, keys, groups, tree, plan>>
  BY DEF LinkNode
<1>2. plan.edgeNodeCount[r] = EdgeCount[r] /\ EdgeCount[r] \in 0 .. 10 /\ linked[r] \in 0 .. EdgeCount[r]
  BY <1>1, EdgeTypes DEF Linking, Planned, EdgesWritten
<1>3. linked[r] \in 0 .. EdgeCount[r] - 1
  <2>1. PICK a, c : a = linked[r] /\ c = EdgeCount[r] /\ c \in 0 .. 10 /\ a \in 0 .. c /\ a < c
    BY <1>1, <1>2
  <2> QED
    BY <2>1
<1>4. PICK l : l = linked[r] /\ l \in 0 .. EdgeCount[r] - 1
  BY <1>3
<1>5. made = NodeId(r, l) /\ level = LevelAt(r, l)
  BY <1>4 DEF NodeId, LevelAt
<1>6. parent = ParentId(r, l)
  BY <1>4 DEF NodeId, ParentId
<1>7. key = groups.uniqueKeys[FirstOf(r)] /\ octant = SlotAt(r, l)
  BY <1>5 DEF representativeKeyForRadixNode, FirstOf, SlotAt, OctantAt
<1>8. Planned /\ EdgesWritten(octree, linked) /\ errorCode = 0
  BY DEF Linking
<1> HIDE DEF key, made, level, parent, octant
<1>9. ~taken
  BY <1>1, <1>4, <1>5, <1>6, <1>7, <1>8, SlotFree
<1>10. made \in Nodes \ {Root} /\ level \in 1 .. kOctreeMaxLevel
  <2>1. made \in 1 .. MadeNodes /\ level \in 1 .. 10 /\ MadeNodes \in Nat
    BY <1>1, <1>4, <1>5, <1>8, EdgeNode, EdgeTypes
  <2>2. Nodes = 0 .. MadeNodes
    BY <1>8 DEF Nodes, EdgesWritten, Shape
  <2> QED
    BY <2>1, <2>2, Constants DEF Root
<1>11. error = 0
  BY <1>9, <1>10
<1>12. group <=> r < nLeaves
  <2>1. ASSUME r < nLeaves
        PROVE  last
    <3>1. EdgeHas(r, NodeId(r, l), LevelAt(r, l)) /\ FirstOf(r) \in Holds(r)
      BY <1>1, <1>4, <1>8, EdgeNode, EdgeTypes
    <3>2. EdgeCount[r] = 1
      BY <1>1, <2>1, <3>1, LeafAlone
    <3> QED
      BY <1>2, <1>4, <3>2
  <2> QED
    BY <1>9, <2>1
<1>13. written = [octree EXCEPT
             !.level[made] = level, !.prefix[made] = mortonPrefixAtLevel(key, level),
             !.parent[made] = parent, !.children[parent][octant] = made]
  BY <1>9
<1>14. errorCode' = 0
  BY <1>1, <1>8, <1>11 DEF Reported
<1> HIDE DEF taken, group, error, written
<1>15. octree' = IF r < nLeaves
                 THEN [written EXCEPT !.firstParticle[made] = groups.firstParticle[r],
                                      !.particleCount[made] = groups.particleCount[r]]
                 ELSE written
  BY <1>1, <1>11, <1>12
<1>16. octree' = NodeAdded(octree, r, l)
  BY <1>5, <1>6, <1>7, <1>13, <1>15 DEF NodeAdded
<1>17. threads' \subseteq threads \cup {r} /\ (r \in threads' => last)
  BY <1>1, <1>11
<1> QED
  BY <1>1, <1>2, <1>3, <1>4, <1>14, <1>16, <1>17

(* What is written of every node, and of the last one of a leaf's edge. *)
Linked(o, m, p, s, level, prefix) ==
  [o EXCEPT !.level[m] = level, !.prefix[m] = prefix, !.parent[m] = p, !.children[p][s] = m]
GroupGiven(o, m, first, count) == [o EXCEPT !.firstParticle[m] = first, !.particleCount[m] = count]

(* Octree n is o with that node linked, as the properties read it. *)
LinkedIn(n, o, m, p, s, level, prefix) ==
  /\ Shape(n)
  /\ n.level = [o.level EXCEPT ![m] = level] /\ n.prefix = [o.prefix EXCEPT ![m] = prefix]
  /\ n.parent = [o.parent EXCEPT ![m] = p]
  /\ n.firstParticle = o.firstParticle /\ n.particleCount = o.particleCount
  /\ \A q \in 0 .. MadeNodes, t \in Octants :
       n.children[q][t] = IF q = p /\ t = s THEN m ELSE o.children[q][t]

(* Linking a node changes its own level, prefix and parent, and one slot of its parent. *)
LEMMA SlotChanged ==
  ASSUME NEW o, Shape(o), NEW m, NEW p, p \in 0 .. MadeNodes, NEW s, s \in Octants,
         NEW level, NEW prefix, m \in 0 .. MadeNodes, NEW n,
         n = Linked(o, m, p, s, level, prefix)
  PROVE  LinkedIn(n, o, m, p, s, level, prefix)
<1>1. o = [children |-> o.children, parent |-> o.parent, level |-> o.level, prefix |-> o.prefix,
           firstParticle |-> o.firstParticle, particleCount |-> o.particleCount,
           centre |-> o.centre, halfSize |-> o.halfSize]
  BY DEF Shape
<1>2. n = [children |-> [o.children EXCEPT ![p] = [o.children[p] EXCEPT ![s] = m]],
           parent |-> [o.parent EXCEPT ![m] = p], level |-> [o.level EXCEPT ![m] = level],
           prefix |-> [o.prefix EXCEPT ![m] = prefix],
           firstParticle |-> o.firstParticle, particleCount |-> o.particleCount,
           centre |-> o.centre, halfSize |-> o.halfSize]
  BY <1>1 DEF Linked
<1>3. /\ n.children = [o.children EXCEPT ![p] = [o.children[p] EXCEPT ![s] = m]]
      /\ n.parent = [o.parent EXCEPT ![m] = p] /\ n.level = [o.level EXCEPT ![m] = level]
      /\ n.prefix = [o.prefix EXCEPT ![m] = prefix]
      /\ n.firstParticle = o.firstParticle /\ n.particleCount = o.particleCount
      /\ n = [children |-> n.children, parent |-> n.parent, level |-> n.level, prefix |-> n.prefix,
              firstParticle |-> n.firstParticle, particleCount |-> n.particleCount,
              centre |-> n.centre, halfSize |-> n.halfSize]
  BY <1>2
<1>4. ASSUME NEW q \in 0 .. MadeNodes
      PROVE  /\ DOMAIN n.children[q] = Octants
             /\ \A t \in Octants : n.children[q][t] = IF q = p /\ t = s THEN m ELSE o.children[q][t]
  <2>1. DOMAIN o.children = 0 .. MadeNodes /\ DOMAIN o.children[q] = Octants
    BY DEF Shape
  <2>2. CASE q = p
    <3>1. n.children[q] = [o.children[p] EXCEPT ![s] = m]
      BY <1>3, <2>1, <2>2
    <3> QED
      BY <2>1, <2>2, <3>1
  <2>3. CASE q # p
    <3>1. n.children[q] = o.children[q]
      BY <1>3, <2>1, <2>3
    <3> QED
      BY <2>1, <2>3, <3>1
  <2> QED
    BY <2>2, <2>3
<1>5. Shape(n)
  BY <1>3, <1>4 DEF Shape
<1> QED
  BY <1>3, <1>4, <1>5 DEF LinkedIn

(* Giving a leaf its particles changes nothing but where they start and how many they are. *)
LEMMA GroupChanged ==
  ASSUME NEW o, Shape(o), NEW m, m \in 0 .. MadeNodes, NEW first, NEW count, NEW n,
         n = GroupGiven(o, m, first, count)
  PROVE  /\ Shape(n)
         /\ n.level = o.level /\ n.prefix = o.prefix /\ n.parent = o.parent /\ n.children = o.children
         /\ n.firstParticle = [o.firstParticle EXCEPT ![m] = first]
         /\ n.particleCount = [o.particleCount EXCEPT ![m] = count]
<1>1. o = [children |-> o.children, parent |-> o.parent, level |-> o.level, prefix |-> o.prefix,
           firstParticle |-> o.firstParticle, particleCount |-> o.particleCount,
           centre |-> o.centre, halfSize |-> o.halfSize]
  BY DEF Shape
<1>2. n = [children |-> o.children, parent |-> o.parent, level |-> o.level, prefix |-> o.prefix,
           firstParticle |-> [o.firstParticle EXCEPT ![m] = first],
           particleCount |-> [o.particleCount EXCEPT ![m] = count],
           centre |-> o.centre, halfSize |-> o.halfSize]
  BY <1>1 DEF GroupGiven
<1>3. /\ n.children = o.children /\ n.parent = o.parent /\ n.level = o.level /\ n.prefix = o.prefix
      /\ n.firstParticle = [o.firstParticle EXCEPT ![m] = first]
      /\ n.particleCount = [o.particleCount EXCEPT ![m] = count]
      /\ n = [children |-> n.children, parent |-> n.parent, level |-> n.level, prefix |-> n.prefix,
              firstParticle |-> n.firstParticle, particleCount |-> n.particleCount,
              centre |-> n.centre, halfSize |-> n.halfSize]
  BY <1>2
<1> QED
  BY <1>3 DEF Shape

(* What is different in the octree with one node more. *)
LEMMA NodeAddedIs ==
  ASSUME TreeMade, Planned, NEW o, Shape(o), NEW r, r \in RadixNodes, NEW l, l \in 0 .. EdgeCount[r] - 1,
         NEW n, n = NodeAdded(o, r, l)
  PROVE  /\ Shape(n)
         /\ o.particleCount[NodeId(r, l)] = 0 => Written(n, r, l)
         /\ \A m \in 0 .. MadeNodes : m # NodeId(r, l) =>
              /\ n.level[m] = o.level[m] /\ n.prefix[m] = o.prefix[m] /\ n.parent[m] = o.parent[m]
              /\ n.firstParticle[m] = o.firstParticle[m] /\ n.particleCount[m] = o.particleCount[m]
         /\ r >= nLeaves => n.particleCount = o.particleCount
         /\ \A q \in 0 .. MadeNodes, t \in Octants :
              n.children[q][t] = IF q = ParentId(r, l) /\ t = SlotAt(r, l) THEN NodeId(r, l) ELSE o.children[q][t]
<1>1. PICK m, p, s, level, prefix :
         /\ m = NodeId(r, l) /\ p = ParentId(r, l) /\ s = SlotAt(r, l)
         /\ level = LevelAt(r, l) /\ prefix = mortonPrefixAtLevel(groups.uniqueKeys[FirstOf(r)], LevelAt(r, l))
  OBVIOUS
<1>2. /\ m \in 0 .. MadeNodes /\ p \in 0 .. MadeNodes /\ s \in Octants
      /\ nLeaves \in Nat /\ r \in Int
  <2>1. /\ FirstOf(r) \in 0 .. nLeaves - 1 /\ LevelAt(r, l) \in 1 .. 10
        /\ NodeId(r, l) \in 1 .. MadeNodes /\ ParentId(r, l) \in 0 .. MadeNodes
        /\ nLeaves \in Nat \ {0} /\ RadixNodes = 0 .. 2 * nLeaves - 2
    BY EdgeTypes, EdgeNode, ParentNode
  <2>2. SlotAt(r, l) \in Octants
    BY <2>1, OctantType DEF SlotAt
  <2>3. r \in Int /\ m \in 0 .. MadeNodes
    BY <1>1, <2>1
  <2> QED
    BY <1>1, <2>1, <2>2, <2>3
<1>3. PICK w : w = Linked(o, m, p, s, level, prefix)
  OBVIOUS
<1>4. /\ Shape(w)
      /\ w.level = [o.level EXCEPT ![m] = level] /\ w.prefix = [o.prefix EXCEPT ![m] = prefix]
      /\ w.parent = [o.parent EXCEPT ![m] = p]
      /\ w.firstParticle = o.firstParticle /\ w.particleCount = o.particleCount
      /\ \A q \in 0 .. MadeNodes, t \in Octants :
           w.children[q][t] = IF q = p /\ t = s THEN m ELSE o.children[q][t]
  <2>1. LinkedIn(w, o, m, p, s, level, prefix)
    BY <1>2, <1>3, SlotChanged
  <2> QED
    BY <2>1 DEF LinkedIn
<1>5. n = IF r < nLeaves
          THEN GroupGiven(w, m, groups.firstParticle[r], groups.particleCount[r])
          ELSE w
  BY <1>1, <1>3 DEF NodeAdded, Linked, GroupGiven
<1>6. /\ Shape(n) /\ n.level = w.level /\ n.prefix = w.prefix /\ n.parent = w.parent /\ n.children = w.children
      /\ r < nLeaves => /\ n.firstParticle = [w.firstParticle EXCEPT ![m] = groups.firstParticle[r]]
                        /\ n.particleCount = [w.particleCount EXCEPT ![m] = groups.particleCount[r]]
      /\ ~(r < nLeaves) => n.firstParticle = w.firstParticle /\ n.particleCount = w.particleCount
  <2>1. CASE r < nLeaves
    <3>1. n = GroupGiven(w, m, groups.firstParticle[r], groups.particleCount[r])
      BY <1>5, <2>1
    <3> QED
      BY <1>2, <1>4, <2>1, <3>1, GroupChanged
  <2>2. CASE ~(r < nLeaves)
    BY <1>4, <1>5, <2>2
  <2> QED
    BY <2>1, <2>2
<1>7. Shape(o) /\ Shape(w)
  BY <1>4
<1>8. ASSUME NEW k \in 0 .. MadeNodes, k # m
      PROVE  /\ n.level[k] = o.level[k] /\ n.prefix[k] = o.prefix[k] /\ n.parent[k] = o.parent[k]
             /\ n.firstParticle[k] = o.firstParticle[k] /\ n.particleCount[k] = o.particleCount[k]
  <2>1. /\ DOMAIN o.level = 0 .. MadeNodes /\ DOMAIN o.prefix = 0 .. MadeNodes /\ DOMAIN o.parent = 0 .. MadeNodes
        /\ DOMAIN o.firstParticle = 0 .. MadeNodes /\ DOMAIN o.particleCount = 0 .. MadeNodes
    BY DEF Shape
  <2>2. n.level[k] = o.level[k] /\ n.prefix[k] = o.prefix[k] /\ n.parent[k] = o.parent[k]
    BY <1>4, <1>6, <1>8, <2>1
  <2>3. n.firstParticle[k] = o.firstParticle[k] /\ n.particleCount[k] = o.particleCount[k]
    <3>1. CASE r < nLeaves
      <4>1. /\ n.firstParticle = [o.firstParticle EXCEPT ![m] = groups.firstParticle[r]]
            /\ n.particleCount = [o.particleCount EXCEPT ![m] = groups.particleCount[r]]
        BY <1>4, <1>6, <3>1
      <4> QED
        BY <1>8, <2>1, <4>1
    <3>2. CASE ~(r < nLeaves)
      BY <1>4, <1>6, <3>2
    <3> QED
      BY <3>1, <3>2
  <2> QED
    BY <2>2, <2>3
<1>9. /\ n.level[m] = level /\ n.prefix[m] = prefix /\ n.parent[m] = p /\ n.children[p][s] = m
      /\ r < nLeaves => n.firstParticle[m] = groups.firstParticle[r] /\ n.particleCount[m] = groups.particleCount[r]
      /\ ~(r < nLeaves) => n.particleCount = o.particleCount
  <2>1. /\ DOMAIN o.level = 0 .. MadeNodes /\ DOMAIN o.prefix = 0 .. MadeNodes /\ DOMAIN o.parent = 0 .. MadeNodes
        /\ DOMAIN o.firstParticle = 0 .. MadeNodes /\ DOMAIN o.particleCount = 0 .. MadeNodes
    BY DEF Shape
  <2>2. n.level[m] = level /\ n.prefix[m] = prefix /\ n.parent[m] = p
    <3>1. m \in 0 .. MadeNodes
      BY <1>2
    <3>2. /\ n.level = [o.level EXCEPT ![m] = level] /\ n.prefix = [o.prefix EXCEPT ![m] = prefix]
          /\ n.parent = [o.parent EXCEPT ![m] = p]
      BY <1>4, <1>6
    <3> QED
      BY <2>1, <3>1, <3>2
  <2>3. n.children[p][s] = m
    BY <1>2, <1>4, <1>6
  <2>4. ASSUME r < nLeaves
        PROVE  n.firstParticle[m] = groups.firstParticle[r] /\ n.particleCount[m] = groups.particleCount[r]
    BY <1>2, <1>4, <1>6, <2>1, <2>4
  <2>5. ~(r < nLeaves) => n.particleCount = o.particleCount
    BY <1>4, <1>6
  <2> QED
    BY <2>2, <2>3, <2>4, <2>5
<1>10. ~(r < nLeaves) <=> r >= nLeaves
  BY <1>2
<1>11. \A q \in 0 .. MadeNodes, t \in Octants :
         n.children[q][t] = IF q = p /\ t = s THEN m ELSE o.children[q][t]
  BY <1>4, <1>6
<1>12. /\ Shape(n)
       /\ \A k \in 0 .. MadeNodes : k # NodeId(r, l) =>
              /\ n.level[k] = o.level[k] /\ n.prefix[k] = o.prefix[k] /\ n.parent[k] = o.parent[k]
              /\ n.firstParticle[k] = o.firstParticle[k] /\ n.particleCount[k] = o.particleCount[k]
       /\ r >= nLeaves => n.particleCount = o.particleCount
       /\ \A q \in 0 .. MadeNodes, t \in Octants :
              n.children[q][t] = IF q = ParentId(r, l) /\ t = SlotAt(r, l) THEN NodeId(r, l) ELSE o.children[q][t]
  BY <1>1, <1>6, <1>8, <1>9, <1>10, <1>11
<1>13. /\ n.level[NodeId(r, l)] = LevelAt(r, l)
       /\ n.prefix[NodeId(r, l)] = mortonPrefixAtLevel(groups.uniqueKeys[FirstOf(r)], LevelAt(r, l))
       /\ n.parent[NodeId(r, l)] = ParentId(r, l)
       /\ n.children[ParentId(r, l)][SlotAt(r, l)] = NodeId(r, l)
       /\ r < nLeaves => /\ n.firstParticle[NodeId(r, l)] = groups.firstParticle[r]
                         /\ n.particleCount[NodeId(r, l)] = groups.particleCount[r]
       /\ r >= nLeaves => n.particleCount[NodeId(r, l)] = o.particleCount[NodeId(r, l)]
  BY <1>1, <1>9, <1>10
<1>14. o.particleCount[NodeId(r, l)] = 0 => Written(n, r, l)
  BY <1>13 DEF Written
<1> QED
  BY <1>12, <1>14

(* No two nodes are linked from one slot. *)
LEMMA SlotIdOnce ==
  ASSUME TreeMade, Planned, NEW r, r \in RadixNodes, NEW l, l \in 0 .. EdgeCount[r] - 1,
         NEW t, t \in RadixNodes, NEW k, k \in 0 .. EdgeCount[t] - 1,
         ParentId(r, l) = ParentId(t, k), SlotAt(r, l) = SlotAt(t, k)
  PROVE  r = t /\ l = k
<1>1. /\ IsNode(NodeId(r, l), LevelAt(r, l), FirstOf(r)) /\ LevelAt(r, l) \in 1 .. 10
      /\ IsNode(ParentId(r, l), LevelAt(r, l) - 1, FirstOf(r))
  BY EdgeNode, ParentNode
<1>2. /\ IsNode(NodeId(t, k), LevelAt(t, k), FirstOf(t)) /\ LevelAt(t, k) \in 1 .. 10
      /\ IsNode(ParentId(r, l), LevelAt(t, k) - 1, FirstOf(t))
  BY EdgeNode, ParentNode
<1>3. NodeId(r, l) = NodeId(t, k)
  BY <1>1, <1>2, SlotOnce DEF SlotAt
<1> QED
  BY <1>3, NodeIdOnce

(* A node more of one edge is written; what the other threads have written stays, for no *)
(* two nodes have the same place or the same slot. *)
LEMMA NodeAddedKeeps ==
  ASSUME TreeMade, Planned, NEW o, NEW done, EdgesWritten(o, done),
         NEW r, r \in RadixNodes, NEW l, l = done[r], l \in 0 .. EdgeCount[r] - 1,
         NEW n, n = NodeAdded(o, r, l), NEW after, after = [done EXCEPT ![r] = l + 1]
  PROVE  EdgesWritten(n, after)
<1>1. /\ Shape(o) /\ DOMAIN done = RadixNodes /\ \A t \in RadixNodes : done[t] \in 0 .. EdgeCount[t]
      /\ RootWritten(o)
  BY DEF EdgesWritten
<1>2. o.particleCount[NodeId(r, l)] = 0
  <2>1. EdgeCount[r] \in 0 .. 10
    BY EdgeTypes
  <2>2. l \in done[r] .. EdgeCount[r] - 1
    BY <2>1
  <2> QED
    BY <2>2 DEF EdgesWritten
<1>3. /\ Shape(n) /\ Written(n, r, l)
      /\ r >= nLeaves => n.particleCount = o.particleCount
  BY <1>1, <1>2, NodeAddedIs
<1>4. ASSUME NEW m \in 0 .. MadeNodes, m # NodeId(r, l)
      PROVE  /\ n.level[m] = o.level[m] /\ n.prefix[m] = o.prefix[m] /\ n.parent[m] = o.parent[m]
             /\ n.firstParticle[m] = o.firstParticle[m] /\ n.particleCount[m] = o.particleCount[m]
  BY <1>1, <1>4, NodeAddedIs
<1>5. \A q \in 0 .. MadeNodes, t \in Octants :
        n.children[q][t] = IF q = ParentId(r, l) /\ t = SlotAt(r, l) THEN NodeId(r, l) ELSE o.children[q][t]
  BY <1>1, NodeAddedIs
<1>6. DOMAIN after = RadixNodes /\ after[r] = l + 1 /\ \A t \in RadixNodes : t # r => after[t] = done[t]
  BY <1>1
<1>7. \A t \in RadixNodes : EdgeCount[t] \in 0 .. 10
  BY EdgeTypes
<1>8. ASSUME NEW t \in RadixNodes
      PROVE  /\ after[t] \in 0 .. EdgeCount[t]
             /\ \A k \in 0 .. after[t] - 1 : k \in 0 .. EdgeCount[t] - 1 /\ (k \in 0 .. done[t] - 1 \/ (t = r /\ k = l))
             /\ \A k \in after[t] .. EdgeCount[t] - 1 : /\ k \in 0 .. EdgeCount[t] - 1
                                                        /\ k \in done[t] .. EdgeCount[t] - 1
                                                        /\ ~(t = r /\ k = l)
             /\ \A k \in 0 .. done[t] - 1 : k \in 0 .. after[t] - 1 /\ k \in 0 .. EdgeCount[t] - 1 /\ ~(t = r /\ k = l)
  <2>1. PICK c, d, a : c = EdgeCount[t] /\ d = done[t] /\ a = after[t] /\ c \in 0 .. 10 /\ d \in 0 .. c
    BY <1>1, <1>7
  <2>2. (t = r /\ d = l /\ a = d + 1 /\ l \in 0 .. c - 1) \/ (t # r /\ a = d)
    BY <1>6, <2>1
  <2>3. a \in 0 .. c /\ d <= a
    BY <2>1, <2>2
  <2>4. ASSUME NEW k \in 0 .. a - 1
        PROVE  k \in 0 .. c - 1 /\ (k \in 0 .. d - 1 \/ (t = r /\ k = l))
    <3>1. CASE t = r /\ d = l /\ a = d + 1
      <4>1. k \in 0 .. d - 1 \/ k = d
        BY <2>1, <3>1
      <4>2. k \in 0 .. c - 1
        BY <2>1, <2>3
      <4> QED
        BY <3>1, <4>1, <4>2
    <3>2. CASE a = d
      BY <2>1, <3>2
    <3> QED
      BY <2>2, <3>1, <3>2
  <2>5. ASSUME NEW k \in a .. c - 1
        PROVE  /\ k \in 0 .. c - 1
               /\ k \in d .. c - 1
               /\ ~(t = r /\ k = l)
    BY <2>1, <2>2
  <2>6. ASSUME NEW k \in 0 .. d - 1
        PROVE  k \in 0 .. a - 1 /\ k \in 0 .. c - 1 /\ ~(t = r /\ k = l)
    BY <2>1, <2>2
  <2> QED
    BY <2>1, <2>3, <2>4, <2>5, <2>6
<1>9. /\ MadeNodes \in Nat
      /\ \A t \in RadixNodes : \A k \in 0 .. EdgeCount[t] - 1 :
            /\ NodeId(t, k) \in 0 .. MadeNodes /\ NodeId(t, k) # Root
            /\ ParentId(t, k) \in 0 .. MadeNodes /\ SlotAt(t, k) \in Octants
  <2>0. MadeNodes \in Nat
    BY EdgeTypes
  <2>1. ASSUME NEW t \in RadixNodes, NEW k \in 0 .. EdgeCount[t] - 1
        PROVE  /\ NodeId(t, k) \in 0 .. MadeNodes /\ NodeId(t, k) # Root
               /\ ParentId(t, k) \in 0 .. MadeNodes /\ SlotAt(t, k) \in Octants
    <3>1. NodeId(t, k) \in 1 .. MadeNodes /\ LevelAt(t, k) \in 1 .. 10 /\ ParentId(t, k) \in 0 .. MadeNodes
      BY EdgeNode, ParentNode
    <3>2. SlotAt(t, k) \in Octants
      BY <3>1, EdgeTypes, OctantType DEF SlotAt
    <3> QED
      BY <2>0, <3>1, <3>2 DEF Root
  <2> QED
    BY <2>0, <2>1
<1>10. RootWritten(n)
  <2>1. Root \in 0 .. MadeNodes /\ Root # NodeId(r, l)
    BY <1>9 DEF Root
  <2> QED
    BY <1>1, <1>4, <2>1 DEF RootWritten
<1>11. ASSUME NEW t \in RadixNodes, NEW k \in 0 .. after[t] - 1
       PROVE  Written(n, t, k)
  <2>1. CASE t = r /\ k = l
    BY <1>3, <2>1
  <2>2. CASE ~(t = r /\ k = l)
    <3>1. k \in 0 .. EdgeCount[t] - 1 /\ k \in 0 .. done[t] - 1
      BY <1>8, <2>2
    <3>2. Written(o, t, k)
      BY <3>1 DEF EdgesWritten
    <3>3. NodeId(t, k) # NodeId(r, l)
      BY <2>2, <3>1, NodeIdOnce
    <3>4. ~(ParentId(t, k) = ParentId(r, l) /\ SlotAt(t, k) = SlotAt(r, l))
      BY <2>2, <3>1, SlotIdOnce
    <3>5. PICK m, p, s : /\ m = NodeId(t, k) /\ p = ParentId(t, k) /\ s = SlotAt(t, k)
                         /\ m \in 0 .. MadeNodes /\ p \in 0 .. MadeNodes /\ s \in Octants
      BY <1>9, <3>1
    <3>6. /\ n.level[m] = o.level[m] /\ n.prefix[m] = o.prefix[m] /\ n.parent[m] = o.parent[m]
          /\ n.firstParticle[m] = o.firstParticle[m] /\ n.particleCount[m] = o.particleCount[m]
      BY <1>4, <3>3, <3>5
    <3>7. n.children[p][s] = o.children[p][s]
      BY <1>5, <3>4, <3>5
    <3> QED
      BY <3>2, <3>5, <3>6, <3>7 DEF Written
  <2> QED
    BY <2>1, <2>2
<1>12. ASSUME NEW t \in RadixNodes, NEW k \in after[t] .. EdgeCount[t] - 1
       PROVE  n.particleCount[NodeId(t, k)] = 0
  <2>1. k \in 0 .. EdgeCount[t] - 1 /\ k \in done[t] .. EdgeCount[t] - 1 /\ ~(t = r /\ k = l)
    BY <1>8
  <2>2. o.particleCount[NodeId(t, k)] = 0
    BY <2>1 DEF EdgesWritten
  <2>3. NodeId(t, k) # NodeId(r, l)
    BY <2>1, NodeIdOnce
  <2> QED
    BY <1>4, <1>9, <2>1, <2>2, <2>3
<1>13. ASSUME NEW m \in 0 .. MadeNodes, NEW s \in Octants, n.children[m][s] # NoNode
       PROVE  \E t \in RadixNodes : \E k \in 0 .. after[t] - 1 :
                n.children[m][s] = NodeId(t, k) /\ m = ParentId(t, k) /\ s = SlotAt(t, k)
  <2>1. CASE m = ParentId(r, l) /\ s = SlotAt(r, l)
    <3>1. n.children[m][s] = NodeId(r, l)
      BY <1>5, <2>1
    <3>2. l \in 0 .. after[r] - 1
      BY <1>6, <1>7
    <3> QED
      BY <2>1, <3>1, <3>2
  <2>2. CASE ~(m = ParentId(r, l) /\ s = SlotAt(r, l))
    <3>1. n.children[m][s] = o.children[m][s]
      BY <1>5, <2>2
    <3>2. PICK t \in RadixNodes : \E k \in 0 .. done[t] - 1 :
            o.children[m][s] = NodeId(t, k) /\ m = ParentId(t, k) /\ s = SlotAt(t, k)
      BY <1>13, <3>1 DEF EdgesWritten
    <3> QED
      BY <1>8, <3>1, <3>2
  <2> QED
    BY <2>1, <2>2
<1>14. \A t \in RadixNodes : after[t] \in 0 .. EdgeCount[t]
  BY <1>8
<1> QED
  BY <1>3, <1>6, <1>10, <1>11, <1>12, <1>13, <1>14 DEF EdgesWritten

(* No kernel of the construction changes what the plan is made of. *)
LEMMA SamePlan ==
  ASSUME UNCHANGED <<groups, tree>>
  PROVE  /\ nLeaves' = nLeaves /\ RadixNodes' = RadixNodes /\ EdgeCount' = EdgeCount /\ MadeNodes' = MadeNodes
         /\ \A r : NodeLevel(r)' = NodeLevel(r)
<1>1. nLeaves' = nLeaves /\ RadixNodes' = RadixNodes
  BY DEF nLeaves, RadixNodes
<1>2. \A r : octreeLevelForRadixNode(r)' = octreeLevelForRadixNode(r)
  BY <1>1 DEF octreeLevelForRadixNode
<1>3. \A r : ParentLevel(r)' = ParentLevel(r)
  <2> SUFFICES ASSUME NEW r
               PROVE  ParentLevel(r)' = ParentLevel(r)
    OBVIOUS
  <2>1. tree.parent' = tree.parent
    OBVIOUS
  <2>2. octreeLevelForRadixNode(tree.parent[r])' = octreeLevelForRadixNode(tree.parent[r])
    BY <1>1 DEF octreeLevelForRadixNode
  <2> QED
    BY <2>2 DEF ParentLevel
<1>4. \A r : NodeLevel(r)' = NodeLevel(r)
  BY <1>1, <1>2, <1>3 DEF NodeLevel
<1>5. EdgeCount' = EdgeCount
  BY <1>1, <1>3, <1>4 DEF EdgeCount
<1>6. MadeNodes' = MadeNodes
  BY <1>1, <1>5 DEF MadeNodes
<1> QED
  BY <1>1, <1>4, <1>5, <1>6

(* The thread of an edge links the next node, and the octree stays in order. *)
LEMMA LinkNodeKeeps ==
  ASSUME TreeMade, Linking, NEW r, LinkNode(r)
  PROVE  Linking'
<1>1. /\ r \in RadixNodes /\ r \notin threads /\ linked[r] \in 0 .. EdgeCount[r] - 1
      /\ errorCode' = 0
      /\ octree' = NodeAdded(octree, r, linked[r])
      /\ linked' = [linked EXCEPT ![r] = @ + 1]
      /\ threads' \subseteq threads \cup {r}
      /\ r \in threads' => linked[r] + 1 = EdgeCount[r]
      /\ UNCHANGED <<positions, box, indices, stage, keys, groups, tree, plan>>
  BY LinkNodeAdds
<1>2. Planned /\ EdgesWritten(octree, linked) /\ \A t \in RadixNodes : t \in threads => linked[t] = EdgeCount[t]
  BY DEF Linking
<1>3. PICK o, done, l, n, after : o = octree /\ done = linked /\ l = linked[r] /\ n = octree' /\ after = linked'
  OBVIOUS
<1>4. EdgesWritten(n, after)
  <2>1. EdgesWritten(o, done) /\ l = done[r] /\ l \in 0 .. EdgeCount[r] - 1 /\ n = NodeAdded(o, r, l)
    BY <1>1, <1>2, <1>3
  <2>2. after = [done EXCEPT ![r] = l + 1]
    BY <1>1, <1>3
  <2> QED
    BY <1>1, <1>2, <2>1, <2>2, NodeAddedKeeps
<1>5. /\ RadixNodes' = RadixNodes /\ EdgeCount' = EdgeCount /\ Planned'
      /\ EdgesWritten(n, after)'
  BY <1>1, <1>2, <1>4, Steady
<1>6. EdgesWritten(octree, linked)'
  BY <1>3, <1>5
<1>7. ASSUME NEW t \in RadixNodes, t \in threads'
      PROVE  linked'[t] = EdgeCount[t]
  <2>1. DOMAIN linked = RadixNodes
    BY <1>2 DEF EdgesWritten
  <2>2. CASE t = r
    BY <1>1, <1>7, <2>1, <2>2
  <2>3. CASE t # r
    <3>1. linked'[t] = linked[t] /\ t \in threads
      BY <1>1, <1>7, <2>1, <2>3
    <3> QED
      BY <1>2, <3>1
  <2> QED
    BY <2>2, <2>3
<1> QED
  BY <1>1, <1>5, <1>6, <1>7 DEF Linking

(* A thread that leaves has nothing to make. *)
LEMMA LeaveEdgeKeeps ==
  ASSUME TreeMade, Linking, NEW r, LeaveEdge(r)
  PROVE  Linking'
<1>1. /\ r \in RadixNodes /\ linked[r] = 0
      /\ plan.edgeNodeCount[r] = 0 \/ EdgeError(r) # 0
      /\ errorCode' = Reported(EdgeError(r))
      /\ threads' = threads \cup {r}
      /\ UNCHANGED <<positions, box, indices, octree, stage, keys, groups, tree, plan, linked>>
  BY DEF LeaveEdge
<1>2. /\ Planned /\ EdgesWritten(octree, linked) /\ errorCode = 0
      /\ \A t \in RadixNodes : t \in threads => linked[t] = EdgeCount[t]
  BY DEF Linking
<1>3. EdgeError(r) = 0
  BY <1>1, <1>2, NoEdgeError
<1>4. linked[r] = EdgeCount[r] /\ errorCode' = 0
  BY <1>1, <1>2, <1>3 DEF Planned, Reported
<1>5. PICK o, done : o = octree /\ done = linked
  OBVIOUS
<1>6. /\ RadixNodes' = RadixNodes /\ EdgeCount' = EdgeCount /\ Planned'
      /\ EdgesWritten(o, done)'
  BY <1>1, <1>2, <1>5, Steady
<1>7. EdgesWritten(octree, linked)'
  BY <1>1, <1>5, <1>6
<1>8. \A t \in RadixNodes : t \in threads' => linked'[t] = EdgeCount[t]
  BY <1>1, <1>2, <1>4
<1> QED
  BY <1>4, <1>6, <1>7, <1>8 DEF Linking

(* Of the empty octree with the planned room, no edge is written. *)
LEMMA EmptyWritten ==
  TreeMade /\ Planned /\ octree = EmptyOctree(1 + MadeNodes) /\ linked = [r \in RadixNodes |-> 0]
    => EdgesWritten(octree, linked)
<1> SUFFICES ASSUME TreeMade, Planned, octree = EmptyOctree(1 + MadeNodes), linked = [r \in RadixNodes |-> 0]
             PROVE  EdgesWritten(octree, linked)
  OBVIOUS
<1>1. MadeNodes \in Nat /\ \A r \in RadixNodes : EdgeCount[r] \in 0 .. 10
  BY Offsets
<1>2. PICK N : N = MadeNodes /\ N \in Nat /\ 0 .. (1 + N) - 1 = 0 .. N /\ 0 \in 0 .. N
  BY <1>1
<1>3. octree = [children |-> [m \in 0 .. N |-> [o \in Octants |-> NoNode]],
                parent |-> [m \in 0 .. N |-> NoNode],
                level |-> [m \in 0 .. N |-> IF m = Root THEN 0 ELSE -1],
                prefix |-> [m \in 0 .. N |-> {}],
                firstParticle |-> [m \in 0 .. N |-> -1],
                particleCount |-> [m \in 0 .. N |-> 0],
                centre |-> Empty, halfSize |-> Empty]
  BY <1>2 DEF EmptyOctree
<1>4. Shape(octree)
  BY <1>2, <1>3 DEF Shape
<1>5. RootWritten(octree)
  BY <1>2, <1>3 DEF RootWritten, Root
<1>6. \A r \in RadixNodes : linked[r] = 0 /\ linked[r] \in 0 .. EdgeCount[r]
  BY <1>1
<1>11. \A m \in 0 .. N : octree.particleCount[m] = 0
  BY <1>2, <1>3
<1>7. ASSUME NEW r \in RadixNodes, NEW l \in 0 .. EdgeCount[r] - 1
      PROVE  octree.particleCount[NodeId(r, l)] = 0
  <2>1. NodeId(r, l) \in 1 .. N
    BY <1>2, EdgeNode
  <2>2. PICK m : m = NodeId(r, l) /\ m \in 0 .. N
    BY <1>2, <2>1
  <2> QED
    BY <1>11, <2>2
<1>8. \A r \in RadixNodes : \A l \in 0 .. linked[r] - 1 : Written(octree, r, l)
  BY <1>6
<1>9. \A n \in 0 .. MadeNodes, s \in Octants : octree.children[n][s] = NoNode
  BY <1>2, <1>3
<1>10. \A r \in RadixNodes : \A l \in linked[r] .. EdgeCount[r] - 1 : octree.particleCount[NodeId(r, l)] = 0
  BY <1>6, <1>7
<1> QED
  BY <1>4, <1>5, <1>6, <1>8, <1>9, <1>10 DEF EdgesWritten

(* The plan is made without an error. *)
LEMMA BuildPlanMakes ==
  ASSUME TreeMade, TreeMade', BuildPlan
  PROVE  Linking' /\ stage' = "materialize"
<1>1. /\ errorCode' = Max({PlanError(r) : r \in RadixNodes})
      /\ stage' = IF errorCode' = 0 THEN "materialize" ELSE "failed"
      /\ threads' = {}
      /\ linked' = [r \in RadixNodes |-> 0]
      /\ UNCHANGED <<positions, box, indices, keys, groups, tree>>
  BY DEF BuildPlan
<1>2. /\ plan' = [radixLevel |-> [r \in RadixNodes |-> NodeLevel(r)],
                  edgeNodeCount |-> EdgeCount, edgeNodeOffset |-> ExclusiveSum(EdgeCount)]
      /\ octree' = EmptyOctree(1 + ExclusiveSum(EdgeCount)[2 * nLeaves - 2] + EdgeCount[2 * nLeaves - 2])
  BY DEF BuildPlan, EdgeCount
<1>3. errorCode' = 0
  <2>1. RadixNodes # {}
    <3>1. nLeaves \in Nat \ {0} /\ RadixNodes = 0 .. 2 * nLeaves - 2
      BY Sizes DEF TreeMade
    <3> QED
      BY <3>1
  <2>2. \A r \in RadixNodes : PlanError(r) = 0
    BY NoPlanError
  <2>3. PICK S : S = {PlanError(r) : r \in RadixNodes}
    OBVIOUS
  <2>6. S = {0} /\ errorCode' = Max(S)
    BY <1>1, <2>1, <2>2, <2>3
  <2>4. IsFiniteSet(S) /\ S \subseteq Int /\ S # {}
    <3>1. IsFiniteSet({0})
      BY FS_Singleton
    <3> QED
      BY <2>6, <3>1
  <2>5. Max(S) \in S
    BY <2>4, FiniteMax
  <2> QED
    BY <2>5, <2>6
<1>4. ExclusiveSum(EdgeCount) = [r \in RadixNodes |-> SumTo(EdgeCount, r)]
  BY DEF ExclusiveSum, SumTo, SumOver, EdgeCount
<1>5. octree' = EmptyOctree(1 + MadeNodes)
  <2>1. nLeaves \in Nat \ {0} /\ RadixNodes = 0 .. 2 * nLeaves - 2
    BY Sizes DEF TreeMade
  <2>2. 2 * nLeaves - 2 \in RadixNodes
    BY <2>1
  <2>3. PICK t, o, c, last : /\ t = MadeNodes /\ o = Offset(last) /\ c = EdgeCount[last] /\ last = 2 * nLeaves - 2
                             /\ t = o + c /\ o \in Nat /\ c \in 0 .. 10 /\ last \in RadixNodes
    BY <2>2, Offsets
  <2>4. ExclusiveSum(EdgeCount)[last] = o
    BY <1>4, <2>3 DEF Offset
  <2>5. octree' = EmptyOctree((1 + o) + c)
    BY <1>2, <2>3, <2>4
  <2>6. (1 + o) + c = 1 + t
    BY <2>3
  <2> QED
    BY <2>3, <2>5, <2>6
<1>6. /\ RadixNodes' = RadixNodes /\ EdgeCount' = EdgeCount /\ MadeNodes' = MadeNodes
      /\ \A r : NodeLevel(r)' = NodeLevel(r)
  BY <1>1, SamePlan
<1>7. Planned'
  BY <1>2, <1>4, <1>6 DEF Planned
<1>8. (TreeMade /\ Planned /\ octree = EmptyOctree(1 + MadeNodes) /\ linked = [r \in RadixNodes |-> 0]
         => EdgesWritten(octree, linked))'
  BY EmptyWritten, PTL
<1>9. EdgesWritten(octree, linked)'
  <2>1. octree' = EmptyOctree(1 + MadeNodes)'
    BY <1>5, <1>6 DEF EmptyOctree
  <2>2. linked' = [r \in RadixNodes |-> 0]'
    BY <1>1, <1>6
  <2> QED
    BY <1>7, <1>8, <2>1, <2>2
<1> QED
  BY <1>1, <1>3, <1>7, <1>9 DEF Linking

(* All nodes are written and linked. *)
Complete == Planned /\ EdgesWritten(octree, EdgeCount)

(* Every node has the centre and the half size of its prefix. *)
Measured ==
  /\ octree.centre = [n \in 0 .. MadeNodes |-> Centre(octree.prefix[n], octree.level[n])]
  /\ octree.halfSize = [n \in 0 .. MadeNodes |-> HalfSizeAt(octree.level[n])]

(* computeOctreeGeometry leaves all else as it is. *)
WithGeometry(o, c, h) == [o EXCEPT !.centre = c, !.halfSize = h]

(* The centres and the sizes do not touch the nodes and their links. *)
LEMMA GeometryKeeps ==
  ASSUME NEW o, NEW done, EdgesWritten(o, done), NEW c, NEW h, NEW n,
         n = WithGeometry(o, c, h)
  PROVE  /\ EdgesWritten(n, done) /\ n.centre = c /\ n.halfSize = h
         /\ n.level = o.level /\ n.prefix = o.prefix
<1>1. Shape(o)
  BY DEF EdgesWritten
<1>2. o = [children |-> o.children, parent |-> o.parent, level |-> o.level, prefix |-> o.prefix,
           firstParticle |-> o.firstParticle, particleCount |-> o.particleCount,
           centre |-> o.centre, halfSize |-> o.halfSize]
  BY <1>1 DEF Shape
<1>3. n = [children |-> o.children, parent |-> o.parent, level |-> o.level, prefix |-> o.prefix,
           firstParticle |-> o.firstParticle, particleCount |-> o.particleCount,
           centre |-> c, halfSize |-> h]
  BY <1>2 DEF WithGeometry
<1>4. /\ n.children = o.children /\ n.parent = o.parent /\ n.level = o.level /\ n.prefix = o.prefix
      /\ n.firstParticle = o.firstParticle /\ n.particleCount = o.particleCount
      /\ n.centre = c /\ n.halfSize = h
      /\ n = [children |-> n.children, parent |-> n.parent, level |-> n.level, prefix |-> n.prefix,
              firstParticle |-> n.firstParticle, particleCount |-> n.particleCount,
              centre |-> n.centre, halfSize |-> n.halfSize]
  BY <1>3
<1>5. Shape(n)
  BY <1>1, <1>4 DEF Shape
<1>6. \A r, l : Written(o, r, l) => Written(n, r, l)
  BY <1>4 DEF Written
<1>7. RootWritten(o) => RootWritten(n)
  BY <1>4 DEF RootWritten
<1>8. EdgesWritten(n, done)
  BY <1>4, <1>5, <1>6, <1>7 DEF EdgesWritten
<1> QED
  BY <1>4, <1>8

(* Every node but the root is of an edge. *)
LEMMA NodeOfEdge ==
  ASSUME TreeMade, Planned, NEW n, n \in 0 .. MadeNodes, n # Root
  PROVE  \E r \in RadixNodes : \E l \in 0 .. EdgeCount[r] - 1 : n = NodeId(r, l)
<1>1. PICK level \in 0 .. 10, j \in 0 .. nLeaves - 1 : IsNode(n, level, j)
  BY NodeHasCell
<1>2. PICK r \in RadixNodes : EdgeHas(r, n, level)
  BY <1>1 DEF IsNode
<1>3. \E l \in 0 .. EdgeCount[r] - 1 : n = NodeId(r, l) /\ level = LevelAt(r, l)
  BY <1>2, NodeIdOf
<1> QED
  BY <1>3

(* A node has the level and the prefix of the cell it is for. *)
LEMMA NodeHasPrefix ==
  ASSUME TreeMade, Planned, NEW o, EdgesWritten(o, EdgeCount), NEW n, NEW level, NEW j, IsNode(n, level, j)
  PROVE  o.level[n] = level /\ o.prefix[n] = mortonPrefixAtLevel(groups.uniqueKeys[j], level)
<1>1. CASE n = Root
  <2>1. level = 0
    BY <1>1, NodeTypes
  <2>2. 30 - 0 * 3 .. 30 - 1 = {}
    OBVIOUS
  <2>3. mortonPrefixAtLevel(groups.uniqueKeys[j], 0) = {}
    BY <2>2, Constants DEF mortonPrefixAtLevel
  <2> QED
    BY <1>1, <2>1, <2>3 DEF EdgesWritten, RootWritten
<1>2. CASE n # Root
  <2>1. PICK r \in RadixNodes : EdgeHas(r, n, level) /\ j \in Holds(r)
    BY <1>2 DEF IsNode
  <2>2. PICK l \in 0 .. EdgeCount[r] - 1 : n = NodeId(r, l) /\ level = LevelAt(r, l)
    BY <2>1, NodeIdOf
  <2>3. Written(o, r, l)
    BY <2>2 DEF EdgesWritten
  <2>4. o.level[n] = level /\ o.prefix[n] = mortonPrefixAtLevel(groups.uniqueKeys[FirstOf(r)], level)
    BY <2>2, <2>3 DEF Written
  <2>5. Alike(FirstOf(r), j, level)
    BY <2>1, EdgeTypes, EdgeAlike
  <2> QED
    BY <2>4, <2>5 DEF Alike
<1> QED
  BY <1>1, <1>2

(* computeOctreeGeometry finds all prefixes valid. *)
LEMMA GeometryMade ==
  ASSUME TreeMade, Linking, ComputeGeometry
  PROVE  stage' = "built" /\ Complete' /\ Measured'
<1>1. /\ Planned /\ EdgesWritten(octree, linked) /\ errorCode = 0
      /\ \A r \in RadixNodes : r \in threads => linked[r] = EdgeCount[r]
      /\ threads = RadixNodes /\ UNCHANGED <<positions, box, indices, keys, groups, tree, plan>>
  BY DEF Linking, ComputeGeometry
<1>2. \A r \in RadixNodes : linked[r] = EdgeCount[r]
  BY <1>1
<1>3. PICK o, done, n : o = octree /\ done = EdgeCount /\ n = octree'
  OBVIOUS
<1>4. EdgesWritten(o, done) /\ EdgesWritten(o, EdgeCount)
  <2>1. DOMAIN EdgeCount = RadixNodes
    BY DEF EdgeCount
  <2>2. EdgesWritten(octree, EdgeCount)
    BY <1>1, <1>2, <2>1 DEF EdgesWritten
  <2> QED
    BY <1>3, <2>2
<1>5. Nodes = 0 .. MadeNodes
  BY <1>3, <1>4 DEF EdgesWritten, Shape, Nodes
<1>6. ASSUME NEW m \in Nodes
      PROVE  o.level[m] \in 0 .. kOctreeMaxLevel /\ prefixIsValidForLevel(o.prefix[m], o.level[m])
  <2>1. PICK level \in 0 .. 10, j \in 0 .. nLeaves - 1 : IsNode(m, level, j)
    BY <1>5, NodeHasCell
  <2>2. o.level[m] = level /\ o.prefix[m] = mortonPrefixAtLevel(groups.uniqueKeys[j], level)
    BY <1>1, <1>4, <2>1, NodeHasPrefix
  <2>3. groups.uniqueKeys[j] \subseteq kMortonSpatialMask
    BY KeysShort DEF TreeMade
  <2>4. prefixIsValidForLevel(mortonPrefixAtLevel(groups.uniqueKeys[j], level), level)
    BY <2>3 DEF prefixIsValidForLevel, mortonPrefixAtLevel
  <2> QED
    BY <2>2, <2>4, Constants
<1>7. {m \in Nodes : \/ octree.level[m] \notin 0 .. kOctreeMaxLevel
                     \/ ~prefixIsValidForLevel(octree.prefix[m], octree.level[m])} = {}
  BY <1>3, <1>6
<1>8. /\ errorCode' = 0 /\ stage' = "built"
      /\ octree' = [octree EXCEPT
                      !.centre = [m \in Nodes |-> Centre(octree.prefix[m], octree.level[m])],
                      !.halfSize = [m \in Nodes |-> HalfSizeAt(octree.level[m])]]
  BY <1>1, <1>7 DEF ComputeGeometry
<1>9. PICK c, h : /\ c = [m \in Nodes |-> Centre(octree.prefix[m], octree.level[m])]
                  /\ h = [m \in Nodes |-> HalfSizeAt(octree.level[m])]
  OBVIOUS
<1>10. n = WithGeometry(o, c, h)
  BY <1>3, <1>8, <1>9 DEF WithGeometry
<1>11. /\ EdgesWritten(n, done) /\ n.centre = c /\ n.halfSize = h
       /\ n.level = o.level /\ n.prefix = o.prefix
  BY <1>4, <1>10, GeometryKeeps
<1>12. /\ EdgeCount' = EdgeCount /\ MadeNodes' = MadeNodes /\ Planned'
       /\ EdgesWritten(n, done)'
  BY <1>1, <1>11, Steady
<1>13. Complete'
  BY <1>3, <1>12 DEF Complete
<1>14. Measured'
  <2>1. n.centre = [m \in 0 .. MadeNodes |-> Centre(n.prefix[m], n.level[m])]
    BY <1>3, <1>5, <1>9, <1>11
  <2>2. n.halfSize = [m \in 0 .. MadeNodes |-> HalfSizeAt(n.level[m])]
    BY <1>3, <1>5, <1>9, <1>11
  <2> QED
    BY <1>3, <1>12, <2>1, <2>2 DEF Measured
<1> QED
  BY <1>8, <1>13, <1>14

(* A particle's key is that of a group. *)
Named(p, j) == p \in Particles /\ j \in 0 .. nLeaves - 1 /\ KeyOf(p) = groups.uniqueKeys[j]

(* The octree that the kernels leave. *)
OctreeDone == TreeMade /\ Boxing /\ Complete /\ Measured

(* Every particle has its key among the unique ones, and each of these is some particle's. *)
LEMMA KeyNames ==
  ASSUME TreeMade
  PROVE  /\ \A p \in Particles : \E j \in 0 .. nLeaves - 1 : Named(p, j)
         /\ \A j \in 0 .. nLeaves - 1 : \E p \in Particles : Named(p, j)
<1>1. \A i \in Particles : indices[i] \in Particles /\ keys[i] = KeyOf(indices[i])
  BY DEF TreeMade, InOrder, KeyOf
<1>2. ASSUME NEW p \in Particles
      PROVE  \E j \in 0 .. nLeaves - 1 : Named(p, j)
  <2>1. PICK i \in Particles : indices[i] = p
    BY DEF TreeMade, InOrder
  <2>2. PICK j \in 0 .. nLeaves - 1 : groups.uniqueKeys[j] = keys[i]
    BY DEF TreeMade, Grouped
  <2> QED
    BY <1>1, <2>1, <2>2 DEF Named
<1>3. ASSUME NEW j \in 0 .. nLeaves - 1
      PROVE  \E p \in Particles : Named(p, j)
  <2>1. /\ groups.firstParticle[j] \in Nat /\ groups.particleCount[j] \in Nat \ {0}
        /\ {i \in Particles : keys[i] = groups.uniqueKeys[j]}
             = groups.firstParticle[j] .. groups.firstParticle[j] + groups.particleCount[j] - 1
    BY DEF TreeMade, Grouped
  <2>2. groups.firstParticle[j] \in {i \in Particles : keys[i] = groups.uniqueKeys[j]}
    BY <2>1
  <2>3. PICK i \in Particles : keys[i] = groups.uniqueKeys[j]
    BY <2>2
  <2> QED
    BY <1>1, <2>3 DEF Named
<1> QED
  BY <1>2, <1>3

(* Different keys are not alike at the last level. *)
LEMMA KeysApart ==
  ASSUME TreeMade, NEW j, j \in 0 .. nLeaves - 1, NEW k, k \in 0 .. nLeaves - 1
  PROVE  Alike(j, k, 10) <=> j = k
<1>1. ASSUME j # k
      PROVE  ~Alike(j, k, 10)
  <2>1. Lcp(j, k) \in 2 .. 31
    BY <1>1, PairShares
  <2>2. Alike(j, k, 10) <=> Lcp(j, k) >= 3 * 10 + 2
    BY <1>1, AlikeIs
  <2> QED
    BY <2>1, <2>2
<1>2. Alike(j, j, 10)
  BY DEF Alike
<1> QED
  BY <1>1, <1>2

(* Particles are in one cell exactly if their keys are alike. *)
LEMMA CellsAlike ==
  ASSUME Boxing, NEW p, NEW j, Named(p, j), NEW q, NEW k, Named(q, k), NEW level, level \in 0 .. 10
  PROVE  CellOf(p, level) = CellOf(q, level) <=> Alike(j, k, level)
<1>1. CellOf(p, level) = CellOf(q, level)
        <=> mortonPrefixAtLevel(KeyOf(p), level) = mortonPrefixAtLevel(KeyOf(q), level)
  BY CellKeys DEF Named
<1> QED
  BY <1>1 DEF Named, Alike

(* A node is at the cell it is for. *)
LEMMA NodeCell ==
  ASSUME OctreeDone, NEW n, NEW level, NEW j, IsNode(n, level, j), NEW p, Named(p, j)
  PROVE  CellAt(n) = CellOf(p, level) /\ IsExactCell(n)
<1>1. n \in 0 .. MadeNodes /\ level \in 0 .. 10
  BY NodeTypes DEF OctreeDone
<1>2. PICK o : o = octree /\ EdgesWritten(o, EdgeCount)
  BY DEF OctreeDone, Complete
<1>3. o.level[n] = level /\ o.prefix[n] = mortonPrefixAtLevel(groups.uniqueKeys[j], level)
  BY <1>2, NodeHasPrefix DEF OctreeDone, Complete
<1>4. /\ octree.level[n] = level /\ octree.prefix[n] = mortonPrefixAtLevel(KeyOf(p), level)
      /\ p \in Particles
  BY <1>2, <1>3 DEF Named
<1>5. octree.halfSize[n] = HalfSizeAt(level)
  BY <1>1, <1>4 DEF OctreeDone, Measured
<1>6. octree.centre[n] = Centre(mortonPrefixAtLevel(KeyOf(p), level), level)
  BY <1>1, <1>4 DEF OctreeDone, Measured
<1> QED
  BY <1>1, <1>4, <1>5, <1>6, CellOfNode DEF OctreeDone

(* Nodes of one cell are one node. *)
LEMMA CellAtOnce ==
  ASSUME OctreeDone, NEW n, n \in 0 .. MadeNodes, NEW m, m \in 0 .. MadeNodes, CellAt(n) = CellAt(m)
  PROVE  n = m
<1>1. PICK l \in 0 .. 10, j \in 0 .. nLeaves - 1 : IsNode(n, l, j)
  BY NodeHasCell DEF OctreeDone
<1>2. PICK d \in 0 .. 10, k \in 0 .. nLeaves - 1 : IsNode(m, d, k)
  BY NodeHasCell DEF OctreeDone
<1>3. PICK p \in Particles : Named(p, j)
  BY KeyNames DEF OctreeDone
<1>4. PICK q \in Particles : Named(q, k)
  BY KeyNames DEF OctreeDone
<1>5. CellAt(n) = CellOf(p, l) /\ CellAt(m) = CellOf(q, d)
  BY <1>1, <1>2, <1>3, <1>4, NodeCell
<1>6. l = d
  <2>1. CellOf(p, l).level = l /\ CellOf(q, d).level = d
    BY DEF CellOf
  <2>2. CellOf(p, l).level = CellOf(q, d).level
    BY <1>5
  <2> QED
    BY <2>1, <2>2
<1>7. Alike(j, k, l)
  BY <1>3, <1>4, <1>5, <1>6, CellsAlike DEF OctreeDone
<1> QED
  BY <1>1, <1>2, <1>6, <1>7, CellOnce DEF OctreeDone

(* A cell has particles of different keys if and only if another key is alike. *)
LEMMA SharedCell ==
  ASSUME TreeMade, Boxing, NEW p, NEW j, Named(p, j), NEW level, level \in 0 .. 10
  PROVE  ~OneKey(Inside(CellOf(p, level)))
           <=> \E k \in 0 .. nLeaves - 1 : k # j /\ Alike(j, k, level)
<1>0. j \in 0 .. nLeaves - 1 /\ p \in Particles /\ 10 \in 0 .. 10
  BY DEF Named
<1>1. Inside(CellOf(p, level)) = {q \in Particles : CellOf(q, level) = CellOf(p, level)}
  BY DEF Inside, CellOf
<1>2. ASSUME ~OneKey(Inside(CellOf(p, level)))
      PROVE  \E k \in 0 .. nLeaves - 1 : k # j /\ Alike(j, k, level)
  <2>1. PICK q \in Particles, s \in Particles :
           /\ CellOf(q, level) = CellOf(p, level) /\ CellOf(s, level) = CellOf(p, level)
           /\ CellOf(q, 10) # CellOf(s, 10)
    BY <1>1, <1>2, Constants DEF OneKey
  <2>2. PICK k \in 0 .. nLeaves - 1 : Named(q, k)
    BY KeyNames
  <2>3. PICK h \in 0 .. nLeaves - 1 : Named(s, h)
    BY KeyNames
  <2>4. Alike(j, k, level) /\ Alike(j, h, level)
    BY <2>1, <2>2, <2>3, CellsAlike
  <2>5. ~Alike(k, h, 10)
    BY <1>0, <2>1, <2>2, <2>3, CellsAlike
  <2>6. k # h
    BY <2>5, KeysApart
  <2> QED
    BY <2>4, <2>6
<1>3. ASSUME NEW k \in 0 .. nLeaves - 1, k # j, Alike(j, k, level)
      PROVE  ~OneKey(Inside(CellOf(p, level)))
  <2>1. PICK q \in Particles : Named(q, k)
    BY KeyNames
  <2>2. CellOf(p, level) = CellOf(q, level)
    BY <1>3, <2>1, CellsAlike
  <2>3. ~Alike(j, k, 10)
    BY <1>0, <1>3, KeysApart
  <2>4. CellOf(p, 10) # CellOf(q, 10)
    BY <1>0, <2>1, <2>3, CellsAlike
  <2> QED
    BY <1>0, <1>1, <2>1, <2>2, <2>4, Constants DEF OneKey
<1> QED
  BY <1>2, <1>3

(* The nodes are at the occupied cells. *)
LEMMA NodesAtCells ==
  ASSUME OctreeDone
  PROVE  {CellAt(n) : n \in 0 .. MadeNodes} = OccupiedCells
<1>0. /\ TreeMade /\ Boxing /\ positions \in Layouts /\ box = Bbox(positions) /\ kOctreeMaxLevel = 10
  BY Constants DEF OctreeDone, Boxing
<1>1. ASSUME NEW n \in 0 .. MadeNodes
      PROVE  CellAt(n) \in OccupiedCells
  <2>1. PICK l \in 0 .. 10, j \in 0 .. nLeaves - 1 : IsNode(n, l, j)
    BY <1>0, NodeHasCell
  <2>2. PICK p \in Particles : Named(p, j)
    BY <1>0, KeyNames
  <2>3. CellAt(n) = CellOf(p, l)
    BY <2>1, <2>2, NodeCell
  <2>4. CASE l = 0
    BY <2>3, <2>4 DEF OccupiedCells
  <2>5. CASE l # 0
    <3>1. l \in 1 .. 10 /\ l - 1 \in 0 .. 10
      BY <2>5
    <3>2. PICK r \in RadixNodes : EdgeHas(r, n, l) /\ j \in Holds(r)
      BY <2>1, <2>5 DEF IsNode
    <3>3. l = 1 \/ \E k \in 0 .. nLeaves - 1 : k # j /\ Alike(j, k, l - 1)
      BY <1>0, <3>2, NodeShared
    <3>4. l = 1 \/ ~OneKey(Inside(CellOf(p, l - 1)))
      BY <1>0, <2>2, <3>1, <3>3, SharedCell
    <3>5. Enclosing(CellOf(p, l)) = CellOf(p, l - 1) /\ CellOf(p, l).level = l
      BY <1>0, <3>1, CellsNest DEF CellOf
    <3> QED
      BY <1>0, <2>3, <3>1, <3>4, <3>5 DEF OccupiedCells
  <2> QED
    BY <2>4, <2>5
<1>2. ASSUME NEW p \in Particles
      PROVE  \E n \in 0 .. MadeNodes : CellAt(n) = CellOf(p, 0)
  <2>1. PICK j \in 0 .. nLeaves - 1 : Named(p, j)
    BY <1>0, KeyNames
  <2>2. IsNode(Root, 0, j)
    BY DEF IsNode
  <2>3. Root \in 0 .. MadeNodes /\ CellAt(Root) = CellOf(p, 0)
    BY <1>0, <2>1, <2>2, NodeTypes, NodeCell
  <2> QED
    BY <2>3
<1>3. ASSUME NEW p \in Particles, NEW l \in 1 .. 10,
             CellOf(p, l).level = 1 \/ ~OneKey(Inside(Enclosing(CellOf(p, l))))
      PROVE  \E n \in 0 .. MadeNodes : CellAt(n) = CellOf(p, l)
  <2>1. PICK j \in 0 .. nLeaves - 1 : Named(p, j)
    BY <1>0, KeyNames
  <2>2. Enclosing(CellOf(p, l)) = CellOf(p, l - 1) /\ CellOf(p, l).level = l /\ l - 1 \in 0 .. 10
    <3>1. Enclosing(CellOf(p, l)) = CellOf(p, l - 1)
      BY <1>0, CellsNest
    <3>2. CellOf(p, l).level = l
      BY DEF CellOf
    <3> QED
      BY <3>1, <3>2
  <2>3. l = 1 \/ \E k \in 0 .. nLeaves - 1 : k # j /\ Alike(j, k, l - 1)
    BY <1>0, <1>3, <2>1, <2>2, SharedCell
  <2>4. PICK n : IsNode(n, l, j)
    BY <1>0, <2>3, CellHasId
  <2>5. n \in 0 .. MadeNodes /\ CellAt(n) = CellOf(p, l)
    BY <1>0, <2>1, <2>4, NodeTypes, NodeCell
  <2> QED
    BY <2>5
<1>4. ASSUME NEW c \in OccupiedCells
      PROVE  c \in {CellAt(n) : n \in 0 .. MadeNodes}
  <2>1. \/ \E p \in Particles : c = CellOf(p, 0)
        \/ \E p \in Particles, l \in 1 .. 10 :
             c = CellOf(p, l) /\ (c.level = 1 \/ ~OneKey(Inside(Enclosing(c))))
    BY <1>0, <1>4 DEF OccupiedCells
  <2> QED
    BY <1>2, <1>3, <2>1
<1> QED
  BY <1>1, <1>4

(* There are as many nodes as cells. *)
LEMMA NodesCount ==
  ASSUME OctreeDone
  PROVE  MadeNodes = Cardinality(OccupiedCells) - 1
<1> DEFINE f == [n \in 0 .. MadeNodes |-> CellAt(n)]
<1>1. PICK N : N = MadeNodes /\ N \in Nat
  BY Offsets DEF OctreeDone
<1>2. f \in Bijection(0 .. MadeNodes, OccupiedCells)
  <2>1. \A n \in 0 .. MadeNodes : CellAt(n) \in OccupiedCells
    BY NodesAtCells
  <2>2. f \in [0 .. MadeNodes -> OccupiedCells]
    BY <2>1
  <2>3. \A n, m \in 0 .. MadeNodes : f[n] = f[m] => n = m
    <3>1. \A n \in 0 .. MadeNodes : f[n] = CellAt(n)
      OBVIOUS
    <3> QED
      BY <3>1, CellAtOnce
  <2>4. \A c \in OccupiedCells : \E n \in 0 .. MadeNodes : f[n] = c
    BY NodesAtCells
  <2> QED
    BY <2>2, <2>3, <2>4 DEF Bijection, Injection, Surjection, IsInjective
<1>3. IsFiniteSet(0 .. N) /\ Cardinality(0 .. N) = N + 1
  <2>1. 0 \in Int /\ N \in Int /\ ~(0 > N) /\ N - 0 + 1 = N + 1
    BY <1>1
  <2> QED
    BY <2>1, FS_Interval
<1>4. Cardinality(0 .. MadeNodes) = Cardinality(OccupiedCells)
  <2> HIDE DEF f
  <2> QED
    BY <1>1, <1>2, <1>3, FS_Bijection DEF ExistsBijection
<1> QED
  BY <1>1, <1>3, <1>4

(* A node of an edge is linked from that of the cell around its own, in the slot of its octant. *)
LEMMA EdgeNodeLinked ==
  ASSUME OctreeDone, NEW r, r \in RadixNodes, NEW l, l \in 0 .. EdgeCount[r] - 1
  PROVE  /\ octree.parent[NodeId(r, l)] = ParentId(r, l) /\ ParentId(r, l) \in 0 .. MadeNodes
         /\ CellAt(ParentId(r, l)) = Enclosing(CellAt(NodeId(r, l)))
         /\ SlotAt(r, l) = OctantOf(CellAt(NodeId(r, l))) /\ SlotAt(r, l) \in Octants
         /\ octree.children[ParentId(r, l)][SlotAt(r, l)] = NodeId(r, l)
         /\ NodeId(r, l) \in 1 .. MadeNodes
<1>0. TreeMade /\ Boxing /\ Planned /\ positions \in Layouts /\ box = Bbox(positions)
  BY DEF OctreeDone, Complete, Boxing
<1>1. /\ IsNode(NodeId(r, l), LevelAt(r, l), FirstOf(r)) /\ NodeId(r, l) \in 1 .. MadeNodes
      /\ LevelAt(r, l) \in 1 .. 10
      /\ IsNode(ParentId(r, l), LevelAt(r, l) - 1, FirstOf(r)) /\ ParentId(r, l) \in 0 .. MadeNodes
      /\ FirstOf(r) \in 0 .. nLeaves - 1
  BY <1>0, EdgeNode, ParentNode, EdgeTypes
<1>2. Written(octree, r, l)
  BY DEF OctreeDone, Complete, EdgesWritten
<1>3. PICK p \in Particles : Named(p, FirstOf(r))
  BY <1>0, <1>1, KeyNames
<1>4. PICK level : level = LevelAt(r, l) /\ level \in 1 .. 10
  BY <1>1
<1>5. CellAt(NodeId(r, l)) = CellOf(p, level)
  BY <1>1, <1>3, <1>4, NodeCell
<1>6. CellAt(ParentId(r, l)) = CellOf(p, level - 1)
  BY <1>1, <1>3, <1>4, NodeCell
<1>7. Enclosing(CellOf(p, level)) = CellOf(p, level - 1)
  BY <1>0, <1>4, CellsNest
<1>8. SlotAt(r, l) = OctantOf(CellOf(p, level))
  <2>1. octantAtLevel(KeyOf(p), level) = OctantOf(CellOf(p, level))
    BY <1>0, <1>4, CellOctant
  <2>2. KeyOf(p) = groups.uniqueKeys[FirstOf(r)]
    BY <1>3 DEF Named
  <2> QED
    BY <1>4, <2>1, <2>2 DEF SlotAt, OctantAt
<1>9. SlotAt(r, l) \in Octants
  BY <1>0, <1>1, OctantType DEF SlotAt
<1> QED
  BY <1>1, <1>2, <1>5, <1>6, <1>7, <1>8, <1>9 DEF Written

(* What a slot has is a node linked from there. *)
LEMMA SlotHasNode ==
  ASSUME OctreeDone, NEW n, n \in 0 .. MadeNodes, NEW s, s \in Octants, octree.children[n][s] # NoNode
  PROVE  \E t \in RadixNodes : \E k \in 0 .. EdgeCount[t] - 1 :
           octree.children[n][s] = NodeId(t, k) /\ n = ParentId(t, k) /\ s = SlotAt(t, k)
BY DEF OctreeDone, Complete, EdgesWritten

(* A leaf has no children: its cell has one key. *)
LEMMA LeafHasNone ==
  ASSUME OctreeDone, NEW r, r \in RadixNodes, NEW l, l \in 0 .. EdgeCount[r] - 1, r < nLeaves
  PROVE  ChildrenOf(NodeId(r, l)) = {}
<1>0. TreeMade /\ Planned
  BY DEF OctreeDone, Complete
<1> SUFFICES ASSUME NEW s, s \in Octants, octree.children[NodeId(r, l)][s] # NoNode
             PROVE  FALSE
  BY DEF ChildrenOf
<1>1. PICK m, level, j : /\ m = NodeId(r, l) /\ level = LevelAt(r, l) /\ j = FirstOf(r)
                         /\ EdgeHas(r, m, level) /\ IsNode(m, level, j) /\ m \in 0 .. MadeNodes
                         /\ level \in 1 .. 10 /\ j \in Holds(r)
  <2>1. /\ EdgeHas(r, NodeId(r, l), LevelAt(r, l)) /\ IsNode(NodeId(r, l), LevelAt(r, l), FirstOf(r))
        /\ LevelAt(r, l) \in 1 .. 10 /\ FirstOf(r) \in Holds(r)
    BY <1>0, EdgeNode, EdgeTypes
  <2>2. NodeId(r, l) \in 0 .. MadeNodes
    BY <1>0, <2>1, NodeTypes
  <2> QED
    BY <2>1, <2>2
<1>2. PICK t \in RadixNodes : \E k \in 0 .. EdgeCount[t] - 1 :
        octree.children[m][s] = NodeId(t, k) /\ m = ParentId(t, k) /\ s = SlotAt(t, k)
  BY <1>1, SlotHasNode
<1>3. PICK k \in 0 .. EdgeCount[t] - 1 : m = ParentId(t, k)
  BY <1>2
<1>4. PICK c, depth, i : /\ c = NodeId(t, k) /\ depth = LevelAt(t, k) /\ i = FirstOf(t)
                         /\ EdgeHas(t, c, depth) /\ depth \in 1 .. 10
                         /\ IsNode(m, depth - 1, i) /\ i \in Holds(t) /\ i \in 0 .. nLeaves - 1
  BY <1>0, <1>3, EdgeNode, ParentNode, EdgeTypes
<1>5. level = depth - 1 /\ Alike(j, i, level)
  BY <1>0, <1>1, <1>4, NodeOnce
<1>6. \A h \in 0 .. nLeaves - 1 : Alike(j, h, level) => h = j
  BY <1>0, <1>1, LeafAlone
<1>7. i = j
  BY <1>4, <1>5, <1>6
<1>8. depth = 1 \/ \E h \in 0 .. nLeaves - 1 : h # i /\ Alike(i, h, depth - 1)
  BY <1>0, <1>4, NodeShared
<1>9. depth # 1
  BY <1>1, <1>4, <1>5
<1> QED
  BY <1>5, <1>6, <1>7, <1>8, <1>9

(* Any other node has a child. *)
LEMMA HasChild ==
  ASSUME OctreeDone, NEW n, NEW level, NEW j, IsNode(n, level, j),
         level = 0 \/ \E k \in 0 .. nLeaves - 1 : k # j /\ Alike(j, k, level)
  PROVE  ChildrenOf(n) # {}
<1>0. TreeMade /\ Planned
  BY DEF OctreeDone, Complete
<1>1. n \in 0 .. MadeNodes /\ level \in 0 .. 10 /\ j \in 0 .. nLeaves - 1
  BY <1>0, NodeTypes
<1>2. level # 10
  <2>1. \A k \in 0 .. nLeaves - 1 : Alike(j, k, 10) => k = j
    BY <1>0, <1>1, KeysApart
  <2> QED
    BY <2>1
<1>3. PICK d : d = level + 1 /\ d \in 1 .. 10 /\ d - 1 = level
  BY <1>1, <1>2
<1>4. d = 1 \/ \E k \in 0 .. nLeaves - 1 : k # j /\ Alike(j, k, d - 1)
  BY <1>3
<1>5. PICK m : IsNode(m, d, j)
  BY <1>0, <1>1, <1>3, <1>4, CellHasId
<1>6. PICK t \in RadixNodes : EdgeHas(t, m, d)
  <2>1. d # 0
    BY <1>3
  <2> QED
    BY <1>5, <2>1 DEF IsNode
<1>7. PICK k \in 0 .. EdgeCount[t] - 1 : m = NodeId(t, k) /\ d = LevelAt(t, k)
  BY <1>0, <1>6, NodeIdOf
<1>8. PICK i : i = FirstOf(t) /\ i \in 0 .. nLeaves - 1 /\ IsNode(m, d, i) /\ IsNode(ParentId(t, k), d - 1, i)
  BY <1>0, <1>7, EdgeNode, ParentNode, EdgeTypes
<1>9. Alike(j, i, level)
  <2>1. Alike(j, i, d)
    BY <1>0, <1>5, <1>8, NodeOnce
  <2>2. Alike(j, i, d - 1)
    BY <1>0, <1>1, <1>3, <1>8, <2>1, OctantStep
  <2> QED
    BY <1>3, <2>2
<1>10. ParentId(t, k) = n
  <2>1. IsNode(ParentId(t, k), level, i)
    BY <1>3, <1>8
  <2> QED
    BY <1>0, <1>9, <2>1, CellOnce
<1>11. /\ octree.children[n][SlotAt(t, k)] = m /\ SlotAt(t, k) \in Octants /\ m \in 1 .. MadeNodes
  BY <1>7, <1>10, EdgeNodeLinked
<1>12. m # NoNode
  BY <1>11 DEF NoNode
<1> QED
  BY <1>11, <1>12 DEF ChildrenOf

(* A leaf has the particles of its cell. *)
LEMMA LeafParticles ==
  ASSUME OctreeDone, NEW r, r \in RadixNodes, NEW l, l \in 0 .. EdgeCount[r] - 1, r < nLeaves
  PROVE  /\ octree.particleCount[NodeId(r, l)] > 0
         /\ octree.firstParticle[NodeId(r, l)] \in 0 .. Cardinality(Particles) - octree.particleCount[NodeId(r, l)]
         /\ ParticlesOf(NodeId(r, l)) = Inside(CellAt(NodeId(r, l)))
<1>0. TreeMade /\ Planned /\ Boxing /\ positions \in Layouts
  BY DEF OctreeDone, Complete, Boxing
<1>1. PICK m, level : /\ m = NodeId(r, l) /\ level = LevelAt(r, l) /\ FirstOf(r) = r
                      /\ EdgeHas(r, m, level) /\ IsNode(m, level, r) /\ r \in 0 .. nLeaves - 1
                      /\ level \in 0 .. 10 /\ r \in Holds(r)
  <2>1. /\ EdgeHas(r, NodeId(r, l), LevelAt(r, l)) /\ IsNode(NodeId(r, l), LevelAt(r, l), FirstOf(r))
        /\ FirstOf(r) \in Holds(r) /\ FirstOf(r) \in 0 .. nLeaves - 1
    BY <1>0, EdgeNode, EdgeTypes
  <2>2. FirstOf(r) = r
    BY DEF FirstOf
  <2>3. LevelAt(r, l) \in 0 .. 10
    BY <1>0, <2>1, NodeTypes
  <2> QED
    BY <2>1, <2>2, <2>3
<1>2. /\ octree.firstParticle[m] = groups.firstParticle[r] /\ octree.particleCount[m] = groups.particleCount[r]
  BY <1>1 DEF OctreeDone, Complete, EdgesWritten, Written
<1>3. PICK first, count : /\ first = groups.firstParticle[r] /\ count = groups.particleCount[r]
                          /\ first \in Nat /\ count \in Nat \ {0}
                          /\ {i \in Particles : keys[i] = groups.uniqueKeys[r]} = first .. first + count - 1
  BY <1>0, <1>1 DEF TreeMade, Grouped
<1>4. PICK size : size = Cardinality(Particles) /\ size \in Nat \ {0} /\ Particles = 0 .. size - 1
  BY <1>0, Numbered
<1>5. first \in 0 .. size - count
  <2>1. first + count - 1 \in first .. first + count - 1
    BY <1>3
  <2>2. first + count - 1 \in 0 .. size - 1
    BY <1>3, <1>4, <2>1
  <2> QED
    BY <1>3, <1>4, <2>2
<1>6. ParticlesOf(m) = {indices[i] : i \in {k \in Particles : keys[k] = groups.uniqueKeys[r]}}
  BY <1>2, <1>3 DEF ParticlesOf
<1>7. PICK p \in Particles : Named(p, r)
  BY <1>0, <1>1, KeyNames
<1>8. CellAt(m) = CellOf(p, level)
  BY <1>1, <1>7, NodeCell
<1>9. Inside(CellAt(m)) = {q \in Particles : CellOf(q, level) = CellOf(p, level)}
  BY <1>8 DEF Inside, CellOf
<1>10. \A k \in 0 .. nLeaves - 1 : Alike(r, k, level) => k = r
  BY <1>0, <1>1, LeafAlone
<1>11. ASSUME NEW q \in Particles
       PROVE  CellOf(q, level) = CellOf(p, level) <=> KeyOf(q) = groups.uniqueKeys[r]
  <2>1. PICK k \in 0 .. nLeaves - 1 : Named(q, k)
    BY <1>0, KeyNames
  <2>2. CellOf(p, level) = CellOf(q, level) <=> Alike(r, k, level)
    BY <1>0, <1>1, <1>7, <2>1, CellsAlike
  <2>3. ASSUME Alike(r, k, level)
        PROVE  KeyOf(q) = groups.uniqueKeys[r]
    BY <1>10, <2>1, <2>3 DEF Named
  <2>4. ASSUME KeyOf(q) = groups.uniqueKeys[r]
        PROVE  Alike(r, k, level)
    BY <2>1, <2>4 DEF Named, Alike
  <2> QED
    BY <2>2, <2>3, <2>4
<1>12. /\ \A i \in Particles : indices[i] \in Particles /\ keys[i] = KeyOf(indices[i])
       /\ \A q \in Particles : \E i \in Particles : indices[i] = q
  BY <1>0 DEF TreeMade, InOrder, KeyOf
<1>13. {indices[i] : i \in {k \in Particles : keys[k] = groups.uniqueKeys[r]}}
         = {q \in Particles : KeyOf(q) = groups.uniqueKeys[r]}
  BY <1>12
<1>14. {q \in Particles : CellOf(q, level) = CellOf(p, level)} = {q \in Particles : KeyOf(q) = groups.uniqueKeys[r]}
  BY <1>11
<1>15. ParticlesOf(m) = Inside(CellAt(m))
  BY <1>6, <1>9, <1>13, <1>14
<1> QED
  BY <1>1, <1>2, <1>3, <1>4, <1>5, <1>15

(* What the kernels leave is the octree of the particles. *)
LEMMA OctreeMade ==
  OctreeDone => IsSparseOctree
<1> SUFFICES ASSUME OctreeDone
             PROVE  IsSparseOctree
  OBVIOUS
<1>0. TreeMade /\ Planned /\ Boxing /\ MadeNodes \in Nat
  BY Offsets DEF OctreeDone, Complete
<1>1. Nodes = 0 .. MadeNodes /\ Root \in Nodes
  BY <1>0 DEF OctreeDone, Complete, EdgesWritten, Shape, Nodes, Root
<1>2. Nodes = 0 .. Cardinality(OccupiedCells) - 1
  BY <1>1, NodesCount
<1>3. {CellAt(n) : n \in Nodes} = OccupiedCells
  BY <1>1, NodesAtCells
<1>4. ASSUME NEW n \in Nodes
      PROVE  IsExactCell(n)
  <2>1. PICK level \in 0 .. 10, j \in 0 .. nLeaves - 1 : IsNode(n, level, j)
    BY <1>0, <1>1, NodeHasCell
  <2>2. PICK p \in Particles : Named(p, j)
    BY <1>0, KeyNames
  <2> QED
    BY <2>1, <2>2, NodeCell
<1>5. octree.parent[Root] = NoNode /\ octree.particleCount[Root] = 0
  BY DEF OctreeDone, Complete, EdgesWritten, RootWritten
<1>6. ASSUME NEW n \in Nodes, n # Root
      PROVE  /\ octree.parent[n] \in Nodes
             /\ CellAt(octree.parent[n]) = Enclosing(CellAt(n))
             /\ octree.children[octree.parent[n]][OctantOf(CellAt(n))] = n
  <2>1. PICK r \in RadixNodes : \E l \in 0 .. EdgeCount[r] - 1 : n = NodeId(r, l)
    BY <1>0, <1>1, <1>6, NodeOfEdge
  <2>2. PICK l \in 0 .. EdgeCount[r] - 1 : n = NodeId(r, l)
    BY <2>1
  <2> QED
    BY <1>1, <2>2, EdgeNodeLinked
<1>7. ASSUME NEW n \in Nodes, NEW o \in Octants, octree.children[n][o] # NoNode
      PROVE  /\ octree.children[n][o] \in Nodes \ {Root} /\ octree.parent[octree.children[n][o]] = n
             /\ OctantOf(CellAt(octree.children[n][o])) = o
  <2>1. PICK t \in RadixNodes : \E k \in 0 .. EdgeCount[t] - 1 :
          octree.children[n][o] = NodeId(t, k) /\ n = ParentId(t, k) /\ o = SlotAt(t, k)
    BY <1>1, <1>7, SlotHasNode
  <2>2. PICK k \in 0 .. EdgeCount[t] - 1 :
          octree.children[n][o] = NodeId(t, k) /\ n = ParentId(t, k) /\ o = SlotAt(t, k)
    BY <2>1
  <2>3. /\ octree.parent[NodeId(t, k)] = ParentId(t, k) /\ SlotAt(t, k) = OctantOf(CellAt(NodeId(t, k)))
        /\ NodeId(t, k) \in 1 .. MadeNodes
    BY EdgeNodeLinked
  <2>4. NodeId(t, k) \in Nodes \ {Root}
    BY <1>0, <1>1, <2>3 DEF Root
  <2> QED
    BY <2>2, <2>3, <2>4
<1>8. ASSUME NEW n \in Nodes
      PROVE  IF IsLeaf(n)
             THEN /\ ChildrenOf(n) = {}
                  /\ octree.firstParticle[n] \in 0 .. Cardinality(Particles) - octree.particleCount[n]
                  /\ ParticlesOf(n) = Inside(CellAt(n))
             ELSE ChildrenOf(n) # {}
  <2>1. CASE n = Root
    <3>1. ~IsLeaf(n)
      BY <1>5, <2>1 DEF IsLeaf
    <3>2. PICK j : j \in 0 .. nLeaves - 1
      BY <1>0, <1>1, NodeHasCell
    <3>3. IsNode(n, 0, j)
      BY <2>1, <3>2 DEF IsNode
    <3> QED
      BY <3>1, <3>3, HasChild
  <2>2. CASE n # Root
    <3>1. PICK r \in RadixNodes : \E l \in 0 .. EdgeCount[r] - 1 : n = NodeId(r, l)
      BY <1>0, <1>1, <2>2, NodeOfEdge
    <3>2. PICK l \in 0 .. EdgeCount[r] - 1 : n = NodeId(r, l)
      BY <3>1
    <3>3. CASE r < nLeaves
      <4>1. ChildrenOf(n) = {}
        BY <3>2, <3>3, LeafHasNone
      <4>2. /\ octree.particleCount[n] > 0
            /\ octree.firstParticle[n] \in 0 .. Cardinality(Particles) - octree.particleCount[n]
            /\ ParticlesOf(n) = Inside(CellAt(n))
        BY <3>2, <3>3, LeafParticles
      <4> QED
        BY <4>1, <4>2 DEF IsLeaf
    <3>4. CASE r >= nLeaves
      <4>1. octree.particleCount[n] = 0
        BY <3>2, <3>4 DEF OctreeDone, Complete, EdgesWritten, Written
      <4>2. ~IsLeaf(n)
        BY <4>1 DEF IsLeaf
      <4>3. PICK level, j : /\ level = LevelAt(r, l) /\ j = FirstOf(r) /\ EdgeHas(r, n, level)
                            /\ IsNode(n, level, j) /\ j \in Holds(r)
        BY <1>0, <3>2, EdgeNode, EdgeTypes
      <4>4. \E k \in 0 .. nLeaves - 1 : k # j /\ Alike(j, k, level)
        BY <1>0, <3>4, <4>3, LeafAlone
      <4>5. ChildrenOf(n) # {}
        BY <4>3, <4>4, HasChild
      <4> QED
        BY <4>2, <4>5
    <3>5. r < nLeaves \/ r >= nLeaves
      <4>1. nLeaves \in Nat \ {0} /\ RadixNodes = 0 .. 2 * nLeaves - 2
        BY <1>0, EdgeTypes
      <4> QED
        BY <4>1
    <3> QED
      BY <3>3, <3>4, <3>5
  <2> QED
    BY <2>1, <2>2
<1> QED
  BY <1>2, <1>3, <1>4, <1>5, <1>6, <1>7, <1>8 DEF IsSparseOctree

(* Whether the octree is that of the particles depends on these variables only. *)
LEMMA SameOctree ==
  ASSUME UNCHANGED <<positions, box, indices, octree>>
  PROVE  IsSparseOctree' <=> IsSparseOctree
<1>1. \A p, l : CellOf(p, l)' = CellOf(p, l)
  BY DEF CellOf
<1>2. \A c : Inside(c)' = Inside(c)
  BY <1>1 DEF Inside, Particles
<1>3. OccupiedCells' = OccupiedCells
  BY <1>1, <1>2 DEF OccupiedCells, OneKey, Particles
<1>4. \A n : CellAt(n)' = CellAt(n) /\ (IsExactCell(n)' <=> IsExactCell(n))
  BY DEF CellAt, IsExactCell
<1>5. \A n : ChildrenOf(n)' = ChildrenOf(n) /\ (IsLeaf(n)' <=> IsLeaf(n)) /\ ParticlesOf(n)' = ParticlesOf(n)
  BY DEF ChildrenOf, IsLeaf, ParticlesOf
<1> QED
  BY <1>2, <1>3, <1>4, <1>5 DEF IsSparseOctree, Nodes, Particles

(* The invariant of the whole construction: the kernels find no error. *)
OctreeInv ==
  /\ TreeInv
  /\ stage # "failed"
  /\ stage # "keys" => box = Bbox(positions)
  /\ stage = "materialize" => Linking
  /\ stage = "built" => IsSparseOctree /\ octree # Empty

(* For every layout of the particles and every order in which the threads of the kernels *)
(* run, the construction (SparseOctreeBuilder::build and its kernels) reports no error, *)
(* while the edges are written the octree holds just the nodes the threads have come to, and *)
(* it ends with the sparse octree of the particles. *)
THEOREM OctreeInvariant == Spec => []OctreeInv
<1>1. Init => OctreeInv
  BY DEF Init, BuildInit, OctreeInv, TreeInv, Stages
<1>2. TreeInv /\ TreeInv' /\ OctreeInv /\ [Next]_vars => OctreeInv'
  <2> SUFFICES ASSUME TreeInv, TreeInv', OctreeInv, [Next]_vars
               PROVE  OctreeInv'
    OBVIOUS
  <2>1. CASE BuildKeys
    BY <2>1 DEF BuildKeys, OctreeInv
  <2>2. CASE SortKeys
    BY <2>2 DEF SortKeys, OctreeInv
  <2>3. CASE BuildGroups
    BY <2>3 DEF BuildGroups, OctreeInv
  <2>4. ASSUME NEW i \in 0 .. Cardinality(Particles) - 2, BuildNode(i)
        PROVE  OctreeInv'
    BY <2>4 DEF BuildNode, OctreeInv
  <2>5. CASE BuildPlan
    <3>1. /\ stage = "tree" /\ threads = Internal
          /\ UNCHANGED <<positions, box, indices, keys, groups, tree>>
      BY <2>5 DEF BuildPlan
    <3>2. TreeMade
      BY <3>1 DEF TreeInv, TreeMade
    <3>3. TreeMade'
      BY <3>1, <3>2, SameTree DEF TreeMade
    <3>4. Linking' /\ stage' = "materialize"
      BY <2>5, <3>2, <3>3, BuildPlanMakes
    <3> QED
      BY <3>1, <3>4 DEF OctreeInv
  <2>6. ASSUME NEW r, LinkNode(r) \/ LeaveEdge(r)
        PROVE  OctreeInv'
    <3>1. stage = "materialize" /\ stage' = "materialize" /\ UNCHANGED <<positions, box>>
      BY <2>6 DEF LinkNode, LeaveEdge
    <3>2. TreeMade /\ Linking
      BY <3>1 DEF TreeInv, TreeMade, OctreeInv
    <3>3. Linking'
      BY <2>6, <3>2, LinkNodeKeeps, LeaveEdgeKeeps
    <3> QED
      BY <3>1, <3>3 DEF OctreeInv
  <2>7. CASE ComputeGeometry
    <3>1. stage = "materialize" /\ UNCHANGED <<positions, box, indices, keys, groups, tree>>
      BY <2>7 DEF ComputeGeometry
    <3>2. TreeMade /\ Linking
      BY <3>1 DEF TreeInv, TreeMade, OctreeInv
    <3>3. stage' = "built" /\ Complete' /\ Measured'
      BY <2>7, <3>2, GeometryMade
    <3>4. TreeMade' /\ Boxing'
      <4>1. TreeMade'
        BY <3>1, <3>2, SameTree DEF TreeMade
      <4>2. Boxing'
        BY <3>1 DEF Boxing, OctreeInv, TreeInv
      <4> QED
        BY <4>1, <4>2
    <3>5. (OctreeDone => IsSparseOctree)'
      BY OctreeMade, PTL
    <3>6. IsSparseOctree'
      BY <3>3, <3>4, <3>5 DEF OctreeDone
    <3>7. (octree # Empty)'
      <4>1. Shape(octree)'
        BY <3>3 DEF Complete, EdgesWritten
      <4>2. "level" \in DOMAIN octree'
        BY <4>1 DEF Shape
      <4>3. DOMAIN Empty = {}
        BY DEF Empty
      <4> QED
        BY <4>2, <4>3 DEF Empty
    <3> QED
      BY <3>1, <3>3, <3>6, <3>7 DEF OctreeInv
  <2>8. CASE Traverse \/ UNCHANGED vars
    <3>1. UNCHANGED <<positions, box, indices, octree>> /\ UNCHANGED buildVars
      BY <2>8, WalkReads DEF vars, buildVars
    <3>2. IsSparseOctree' <=> IsSparseOctree
      BY <3>1, SameOctree
    <3>3. Linking => Linking'
      <4> SUFFICES ASSUME Linking
                   PROVE  Linking'
        OBVIOUS
      <4>1. UNCHANGED <<groups, tree, plan, octree, linked, threads, errorCode>>
        BY <3>1 DEF buildVars
      <4>2. PICK o, done : o = octree /\ done = linked
        OBVIOUS
      <4>3. EdgesWritten(o, done) /\ Planned /\ errorCode = 0
        BY <4>2 DEF Linking
      <4>4. /\ RadixNodes' = RadixNodes /\ EdgeCount' = EdgeCount /\ Planned'
            /\ EdgesWritten(o, done)'
        BY <4>1, <4>3, Steady
      <4> QED
        BY <4>1, <4>2, <4>3, <4>4 DEF Linking
    <3> QED
      BY <3>1, <3>2, <3>3 DEF OctreeInv, buildVars
  <2> QED
    BY <2>1, <2>2, <2>3, <2>4, <2>5, <2>6, <2>7, <2>8 DEF Next, Build, BuildNext
<1> QED
  BY <1>1, <1>2, TreeInvariant, PTL DEF Spec

(* For every layout: whenever the construction is over, the octree has one node for each *)
(* cell with particles that it needs, each with its centre, its size, its parent and its *)
(* octants, and each particle is in the group of one leaf (octree_builder.cu). *)
THEOREM OctreeIsBuilt == Spec => []OctreeBuilt
<1>1. OctreeInv => OctreeBuilt
  BY DEF OctreeInv, OctreeBuilt
<1> QED
  BY <1>1, OctreeInvariant, PTL

=============================================================================

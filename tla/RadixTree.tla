------------------------------ MODULE RadixTree ------------------------------
(***************************************************************************)
(* The binary radix tree over N sorted keys (tree_builder.cu), after       *)
(* Karras: every internal node finds its own range of keys and its split,  *)
(* without looking at any other node.                                      *)
(*                                                                         *)
(* Keys are a function on 0 .. N - 1.  The leaves of the tree are          *)
(* 0 .. N - 1, its internal nodes N .. 2 * N - 2, of which N is the root.  *)
(***************************************************************************)
EXTENDS Words

Size(keys) == Cardinality(DOMAIN keys)
None == -1

longestCommonPrefix(keys, i, j) ==
  CASE j \notin 0 .. Size(keys) - 1 -> -1
    [] j = i -> 64
    [] j \in 0 .. Size(keys) - 1 /\ keys[i] # keys[j] -> Clz(Xor(keys[i], keys[j]))
    [] OTHER -> kMortonStorageBits + Clz(Xor(Word(i), Word(j)))

determineDirection(keys, i) ==
  IF longestCommonPrefix(keys, i, i + 1) > longestCommonPrefix(keys, i, i - 1) THEN 1 ELSE -1

\* The other end of node i's range: doubling a length until the key there shares no more
\* with key i than the neighbour outside the range does, then halving it.
determineRange(keys, i) ==
  LET direction == determineDirection(keys, i)
      deltaMin == longestCommonPrefix(keys, i, i - direction)
      within(length) == longestCommonPrefix(keys, i, i + length * direction) > deltaMin
      grown[length \in 1 .. 2 * Size(keys)] == IF within(length) THEN grown[2 * length] ELSE length
      reach[t \in 1 .. 2 * Size(keys)] ==
        [l \in Nat |->
           LET next == IF within(l + t) THEN l + t ELSE l
           IN IF t > 1 THEN reach[t \div 2][next] ELSE next]
      j == i + reach[grown[2] \div 2][0] * direction
  IN [first |-> Min({i, j}), last |-> Max({i, j})]

\* Mutant: the distance is halved rounding down.
RoundDown(step) == step \div 2
Halve(step) == (step + 1) \div 2

\* The last key of the left child, found in steps that halve, rounding up.
findSplit(keys, first, last) ==
  LET nodePrefix == longestCommonPrefix(keys, first, last)
      onTheLeft(k) == k < last /\ longestCommonPrefix(keys, first, k) > nodePrefix
      from[step \in 1 .. last - first] ==
        [split \in first .. last |->
           LET half == Halve(step)
               next == IF onTheLeft(split + half) THEN split + half ELSE split
           IN IF half > 1 THEN from[half][next] ELSE next]
  IN from[last - first][first]

----------------------------------------------------------------------------
(* A tree under construction: buildTree sets every parent to -1; the other arrays are *)
(* written by the threads only.                                                       *)

EmptyTree(N) ==
  LET internal == [i \in 0 .. N - 2 |-> None]
  IN [left |-> internal, right |-> internal, rangeFirst |-> internal, rangeLast |-> internal,
      prefixLength |-> internal, parent |-> [n \in 0 .. 2 * N - 2 |-> None]]

\* buildTreeKernel: what the thread of internal node i writes.
WithNode(tree, keys, i) ==
  LET N == Size(keys)
      range == determineRange(keys, i)
      split == findSplit(keys, range.first, range.last)
      leftChild == IF split = range.first THEN split ELSE N + split
      rightChild == IF split + 1 = range.last THEN split + 1 ELSE N + split + 1
  IN [tree EXCEPT !.rangeFirst[i] = range.first, !.rangeLast[i] = range.last,
                  !.prefixLength[i] = longestCommonPrefix(keys, range.first, range.last),
                  !.left[i] = leftChild, !.right[i] = rightChild,
                  !.parent[leftChild] = N + i, !.parent[rightChild] = N + i]
=============================================================================

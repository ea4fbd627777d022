------------------------------- MODULE Words -------------------------------
(***************************************************************************)
(* The 32-bit words of the Morton codes and of the array indices.  A word  *)
(* is the set of the positions of its one bits: & and | are intersection   *)
(* and union, ^ is the symmetric difference, a shift moves the positions.  *)
(***************************************************************************)
EXTENDS Integers, FiniteSetsExt

kMortonStorageBits == 32
BitPositions == 0 .. kMortonStorageBits - 1

\* The word of a number below 2^30.
Word(n) == {b \in 0 .. 29 : (n \div 2^b) % 2 = 1}

ShiftLeft(w, k) == {b + k : b \in w} \cap BitPositions
ShiftRight(w, k) == {b - k : b \in w} \cap BitPositions
Xor(v, w) == (v \ w) \cup (w \ v)

\* __clz: the number of leading zeros.
Clz(w) == IF w = {} THEN kMortonStorageBits ELSE kMortonStorageBits - 1 - Max(w)

\* The order of words as unsigned numbers: the highest bit they differ in decides.
Precedes(v, w) == v # w /\ Max(Xor(v, w)) \in w
=============================================================================

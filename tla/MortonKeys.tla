----------------------------- MODULE MortonKeys -----------------------------
(***************************************************************************)
(* The bounding box of the particles and their Morton keys                 *)
(* (globalbounding.cu, morton.cu), as functions of the positions.          *)
(*                                                                         *)
(* A position is a triple of integers in some unit of length; quotients    *)
(* are kept as fractions, so nothing is rounded but by quantise_kernel.    *)
(***************************************************************************)
EXTENDS Words

Axes == 1 .. 3
kMortonDimensions == 3
kMortonBitsPerAxis == 10
kMortonSpatialBits == kMortonDimensions * kMortonBitsPerAxis
kMortonPaddingBits == kMortonStorageBits - kMortonSpatialBits
kMortonSpatialMask == 0 .. kMortonSpatialBits - 1
kOctreeMaxLevel == kMortonBitsPerAxis

----------------------------------------------------------------------------
(* Bbox::compute_box: twice the centre, and ten times the side of the cube, *)
(* which is the longest extent padded by a tenth, or 1.                     *)

Bbox(positions) ==
  LET coordinates(a) == {positions[p][a] : p \in DOMAIN positions}
      extent == Max({Max(coordinates(a)) - Min(coordinates(a)) : a \in Axes})
  IN [twiceCentre |-> [a \in Axes |-> Min(coordinates(a)) + Max(coordinates(a))],
      tenSides |-> IF extent = 0 THEN 10 ELSE 11 * extent]

\* normalise_kernel: (v - (centre - side / 2)) / side, as a numerator over Unit(box).
Unit(box) == 2 * box.tenSides
Normalised(box, a, v) == 20 * v - 10 * box.twiceCentre[a] + box.tenSides

\* quantise_kernel
gridSize == 2^kMortonBitsPerAxis
Quantised(box, a, v) ==
  Min({Max({(gridSize * Normalised(box, a, v)) \div Unit(box), 0}), gridSize - 1})

----------------------------------------------------------------------------
(* interleave_bits *)

\* (x | (x << k)) & mask
Spread(x, k, mask) == (UNION {{b, b + k} : b \in x}) \cap mask

\* The bits of a coordinate, two zeros between them: the masks are 0x030000FF, 0x0300F00F,
\* 0x030C30C3 and 0x09249249.
expand_bits(value) ==
  LET by16 == Spread(value \cap 0 .. 9, 16, (0 .. 7) \cup {24, 25})
      by8 == Spread(by16, 8, (0 .. 3) \cup (12 .. 15) \cup {24, 25})
      by4 == Spread(by8, 4, {0, 1, 6, 7, 12, 13, 18, 19, 24, 25})
  IN Spread(by4, 2, {3 * b : b \in 0 .. 9})

interleave_bits(x, y, z) ==
  ShiftLeft(expand_bits(x), 2) \cup ShiftLeft(expand_bits(y), 1) \cup expand_bits(z)

MortonKey(box, position) ==
  LET q(a) == Word(Quantised(box, a, position[a]))
  IN interleave_bits(q(1), q(2), q(3))

----------------------------------------------------------------------------
(* octree_builder.cu: the part of a key that names a cell of a level, and the octant of *)
(* that cell in the cell above it.                                                      *)

RemainingBits(level) == kMortonSpatialBits - level * kMortonDimensions
mortonPrefixAtLevel(key, level) == key \cap (RemainingBits(level) .. kMortonSpatialBits - 1)

Octants == 0 .. 7
octantAtLevel(key, level) ==
  CHOOSE o \in Octants : Word(o) = ShiftRight(key, RemainingBits(level)) \cap 0 .. 2
=============================================================================

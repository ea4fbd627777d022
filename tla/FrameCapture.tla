----------------------------- MODULE FrameCapture -----------------------------
(***************************************************************************)
(* What a frame holds (device_capture.cu) and what a reader makes of it    *)
(* (frame.cpp): an evenly spaced sample of the particles, its bounds, and  *)
(* each position as a whole number of quanta between them, written chunk   *)
(* by chunk.  The three components are treated alike: positions are of one *)
(* component, integers.                                                    *)
(***************************************************************************)
EXTENDS Integers, FiniteSets, FiniteSetsExt, Functions

CONSTANTS
  kFrameChunkParticles,      \* how many samples the device buffers hold
  kQuantizedPositionMaximum  \* the quanta between the bounds

ASSUME CaptureAssumption ==
  kFrameChunkParticles \in Nat \ {0} /\ kQuantizedPositionMaximum \in Nat \ {0}

\* How many of `count` particles a frame shows; no maximum means all.
SampleSize(count, maximum) == IF maximum = 0 THEN count ELSE Min({count, maximum})

\* A sample's index in the frame, and the particle it shows. Mutant: every chunk starts over.
WithinChunk(offset, chunkIndex) == chunkIndex
SampleIndex(offset, chunkIndex) == offset + chunkIndex
SourceIndex(offset, chunkIndex, count, size) ==
  (SampleIndex(offset, chunkIndex) * count) \div size

\* The samples of an array in the order they are written: chunk after chunk.
Gathered(array, count, size) ==
  [i \in 0 .. size - 1 |->
     LET chunkIndex == i % kFrameChunkParticles
     IN array[SourceIndex(i - chunkIndex, chunkIndex, count, size)]]

PositionBounds(samples) == [minimum |-> Min(Range(samples)), maximum |-> Max(Range(samples))]

\* To the nearest quantum; the conversion to an integer truncates.
quantizePosition(position, bounds) ==
  LET range == bounds.maximum - bounds.minimum IN
  IF range = 0 THEN 0
  ELSE (2 * (position - bounds.minimum) * kQuantizedPositionMaximum + range) \div (2 * range)

\* Three components of 16 bits; a type has one byte.
PositionBytes(size) == size * 3 * 2

\* A frame's sizes, bounds and payload; its types are sampled already.
Quantized(positions, types, count, size) ==
  LET samples == Gathered(positions, count, size)
      bounds == PositionBounds(samples)
  IN [sourceParticleCount |-> count, particleCount |-> size, bounds |-> bounds,
      particleTypeBytes |-> size, payloadBytes |-> PositionBytes(size) + size,
      positions |-> [i \in 0 .. size - 1 |-> quantizePosition(samples[i], bounds)],
      types |-> types]

\* What readFrameHeader demands of a frame's counts, sizes and bounds.
Consistent(frame) ==
  /\ frame.particleCount > 0
  /\ frame.sourceParticleCount >= frame.particleCount
  /\ frame.particleTypeBytes = frame.particleCount
  /\ frame.payloadBytes = PositionBytes(frame.particleCount) + frame.particleTypeBytes
  /\ frame.payloadBytes = PositionBytes(Cardinality(DOMAIN frame.positions)) + Cardinality(DOMAIN frame.types)
  /\ frame.bounds.minimum <= frame.bounds.maximum

\* A decoded position, times kQuantizedPositionMaximum.
Decoded(frame, i) ==
  frame.bounds.minimum * kQuantizedPositionMaximum
    + (frame.bounds.maximum - frame.bounds.minimum) * frame.positions[i]

----------------------------------------------------------------------------
\* The reference: a frame shows the particles given, in order and evenly spaced, each within
\* half a quantum of its place and with its own type.
Distance(a, b) == IF a < b THEN b - a ELSE a - b
EvenlySpaced(shown, count, size) ==
  /\ shown[0] = 0 /\ shown[size - 1] < count
  /\ \A i \in 1 .. size - 1 : shown[i] - shown[i - 1] \in {count \div size, count \div size + 1}

Shows(frame, positions, types) ==
  LET count == frame.sourceParticleCount
      size == frame.particleCount
      shown == [i \in 0 .. size - 1 |-> (i * count) \div size]
      range == frame.bounds.maximum - frame.bounds.minimum
  IN /\ EvenlySpaced(shown, count, size)
     /\ \A i \in 0 .. size - 1 :
          /\ 2 * Distance(Decoded(frame, i), positions[shown[i]] * kQuantizedPositionMaximum) <= range
          /\ frame.types[i] = types[shown[i]]
=============================================================================

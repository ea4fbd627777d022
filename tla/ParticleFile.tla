----------------------------- MODULE ParticleFile -----------------------------
(***************************************************************************)
(* Particle files (particle.hpp).  A file is a particle count of 32 or 64  *)
(* bits, seven blocks of doubles and, in some files, a byte per particle   *)
(* for its type.  Nothing in the file says which: the reader tries the     *)
(* four layouts and takes the first whose size is that of the file.        *)
(*                                                                         *)
(* A file's content matters only where a count may be read from it: the    *)
(* eight bytes at its start.                                               *)
(***************************************************************************)
EXTENDS Integers, Sequences, SequencesExt

\* The width of the count in bytes, and whether types follow the doubles.
Layout(header, typed) == [header |-> header, typed |-> typed]
Unsupported == Layout(0, FALSE)

bytes_per_particle == 7 * 8
Bytes(layout, count) ==
  layout.header + count * bytes_per_particle + (IF layout.typed THEN count ELSE 0)

\* A file as its author wrote it, `cut` bytes short. mantissa is the low half of the first
\* mass, the four bytes after a count of 32 bits: zero for 1.0 and for other round values.
File(layout, count, mantissa, cut) ==
  [layout |-> layout, count |-> count, mantissa |-> mantissa, size |-> Bytes(layout, count) - cut]

\* The counts a reader accepts that takes the file's first `header` bytes for one. Eight bytes
\* of a file with a count of four hold a number beyond 32 bits unless the mantissa is zero.
CountRead(file, header) ==
  {c \in {file.count} : c > 0 /\ (header <= file.layout.header \/ file.mantissa = 0)}

matches_layout(file, layout) ==
  \E count \in CountRead(file, layout.header) : file.size = Bytes(layout, count)

\* Mutant: counts of 32 bits are tried first.
NarrowFirst == <<Layout(4, TRUE), Layout(4, FALSE), Layout(8, TRUE), Layout(8, FALSE)>>
Candidates == <<Layout(8, TRUE), Layout(8, FALSE), Layout(4, TRUE), Layout(4, FALSE)>>

detect_particle_file_header(file) ==
  LET first == SelectInSeq(Candidates, LAMBDA layout : matches_layout(file, layout))
  IN IF first = 0 THEN Unsupported ELSE Candidates[first]
=============================================================================

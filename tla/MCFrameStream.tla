--------------------------- MODULE MCFrameStream ---------------------------
(* Instances of FrameStream small enough for TLC. *)
EXTENDS FrameStream, TLC

CONSTANTS s1, s2, c1, c2

NoFrames == {}
\* The second frame of the first run comes from a build the client does not know.
SecondUnreadable == {<<1, 1>>}

\* Servers are interchangeable.
ServerSymmetry == Permutations(Servers)
=============================================================================

----------------------------- MODULE MCSimulation -----------------------------
(* Instances of SimulationProgram small enough for TLC. *)
EXTENDS SimulationProgram

CommandLines ==
  {[streaming |-> stream, cluster |-> server, steps |-> 2, maximum |-> most] :
     stream \in BOOLEAN, server \in BOOLEAN, most \in {0, 2}}
SomeOptions == {o \in CommandLines : (o.cluster => o.streaming) /\ (o.maximum = 2 => o.streaming /\ ~o.cluster)}

\* Files of all four layouts, and one that is cut short.
Layouts == {Layout(header, typed) : header \in {4, 8}, typed \in BOOLEAN}
Intact == {File(layout, count, mantissa, 0) : layout \in Layouts, count \in {1, 3, 4}, mantissa \in {0, 1}}
CutShort == {File(layout, 3, 1, 2) : layout \in Layouts}
Ambiguous == File(Layout(4, TRUE), 4, 0, 0)
Unambiguous == (Intact \cup CutShort) \ {Ambiguous}
AllFiles == Intact

\* Particles that spread and shrink back, and particles in one place that never move.
Spread == [drifts \in 0 .. 2 |-> [i \in 0 .. 3 |-> ((i * i + 3 * drifts * i) % 11) - 2]]
Still == [drifts \in 0 .. 2 |-> [i \in 0 .. 3 |-> 5]]
SomeMotions == {Spread, Still}

StarThenOthers(i) == 1 + (i % 3)
=============================================================================

--------------------------- MODULE MCForcePipeline ---------------------------
(* Instances of ForcePipeline small enough for TLC. *)
EXTENDS ForcePipeline

\* Places that share from none to all of the ten levels of cells, along and off the axes.
Places == <<
  <<0, 0, 0>>, <<1, 0, 0>>, <<0, 30, 0>>, <<0, 7, 500>>,
  <<499, 500, 501>>, <<1000, 998, 3>>, <<1000, 999, 0>>, <<700, 300, 1000>> >>

\* n particles at places in ascending order, turned by one so that their indices are not in
\* the order of their places.
Ascending(n) == {f \in [0 .. n - 1 -> DOMAIN Places] : \A i \in 1 .. n - 1 : f[i - 1] <= f[i]}
Layout(f) == [p \in DOMAIN f |-> Places[f[(p + 1) % Cardinality(DOMAIN f)]]]

Fives == {<<1, 2, 3, 4, 5>>, <<2, 3, 6, 7, 8>>, <<1, 2, 6, 6, 7>>, <<5, 5, 5, 6, 7>>}
AllLayouts ==
  {Layout(f) : f \in UNION {Ascending(n) : n \in 1 .. 4}} \cup
  {Layout([p \in 0 .. 4 |-> f[p + 1]]) : f \in Fives}

MasslessSets == {{}, {0}, {0, 1}}
=============================================================================

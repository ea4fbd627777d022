------------------------- MODULE MCMassPropagation -------------------------
(* Instances of MassPropagation small enough for TLC. *)
EXTENDS MassPropagation, TLC

SixNodes == 0 .. 5

\* Every tree over a set of nodes, up to the numbering of its nodes.
TreesOver(nodes) ==
  {p \in [nodes -> nodes \cup {NoParent}] :
     p[Root] = NoParent /\ \A n \in nodes \ {Root} : p[n] \in 0 .. n - 1}
AllTrees == TreesOver(Nodes)

\* A root with an internal node over one leaf, and an internal node over a leaf and an
\* internal node over one leaf.
SevenNodes == 0 .. 6
LopsidedTree == {(0 :> NoParent) @@ (1 :> 0) @@ (2 :> 0) @@ (3 :> 1) @@ (4 :> 1) @@ (5 :> 2) @@ (6 :> 3)}

\* All masses lie in one cache line.
OneLine(n) == 0
=============================================================================

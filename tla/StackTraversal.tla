--------------------------- MODULE StackTraversal ---------------------------
(***************************************************************************)
(* A depth-first traversal of an octree with an explicit stack, the way    *)
(* barnes_hut.cu says it once was written: "The old explicit stack pushed  *)
(* children 0 -> 7 and therefore visited them in LIFO order 7 -> 0.        *)
(* Preserve that ordering."  ForceTraversal, which keeps one node and no   *)
(* stack, is shown to implement it.                                        *)
(***************************************************************************)
EXTENDS Integers, Sequences

VARIABLES
  children, \* node -> octant -> the child there, or -1
  stack     \* the nodes to be visited, the next one last

vars == <<children, stack>>

Top == stack[Len(stack)]
Rest == SubSeq(stack, 1, Len(stack) - 1)

\* The children are pushed from slot 0 to slot 7.
PushAll(nodes, slots) ==
  LET pushed[k \in 0 .. 8] ==
        IF k = 0 THEN nodes
        ELSE IF slots[k - 1] = -1 THEN pushed[k - 1] ELSE Append(pushed[k - 1], slots[k - 1])
  IN pushed[8]

Init == stack = <<>>

\* Between two traversals the octree may be replaced.
Rebuild == stack = <<>> /\ stack' = <<>>

Start ==
  /\ stack = <<>>
  /\ stack' = <<0>>
  /\ UNCHANGED children

\* A node is left, as a whole or as a leaf, or opened.
Pass ==
  /\ stack # <<>>
  /\ stack' = Rest
  /\ UNCHANGED children

Open ==
  /\ stack # <<>>
  /\ stack' = PushAll(Rest, children[Top])
  /\ UNCHANGED children

\* An error ends the traversal.
Abandon ==
  /\ stack' = <<>>
  /\ UNCHANGED children

Next == Rebuild \/ Start \/ Pass \/ Open \/ Abandon

Spec == Init /\ [][Next]_vars
=============================================================================

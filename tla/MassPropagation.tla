--------------------------- MODULE MassPropagation ---------------------------
(***************************************************************************)
(* Total masses of the octree's nodes (octree_physics.cu).  After the      *)
(* arrays have been cleared, the children counted and the occupied leaves  *)
(* initialised, the kernel propagateOctreeMassKernel starts a thread at    *)
(* every occupied leaf.  A thread announces its node at the parent's       *)
(* counter; the last of the children to arrive sums them and climbs on,    *)
(* the others leave.  No barrier orders the threads: what a thread stores  *)
(* becomes visible to the others at some time before its next fence.       *)
(*                                                                         *)
(* The mass of a node is abstracted to the set of the leaves it sums.      *)
(*                                                                         *)
(* If Incoherent, plain loads go through a cache of the multiprocessor the *)
(* thread runs on, which the stores of others do not update and which only *)
(* a fence on that multiprocessor empties.                                 *)
(***************************************************************************)
EXTENDS Integers, FiniteSets, FiniteSetsExt

CONSTANTS
  Nodes,       \* the octree's nodes; the root is 0
  Trees,       \* the trees the builder may produce: node -> parent, -1 for the root's
  Processors,  \* the multiprocessors
  LineOf(_),   \* the cache line that holds the mass of a node
  Incoherent   \* whether loads may be answered from a multiprocessor's own cache

Root == 0
NoParent == -1

ASSUME TreeAssumption ==
  /\ Nodes \subseteq Nat /\ Root \in Nodes /\ IsFiniteSet(Nodes)
  /\ \A p \in Trees :
       /\ p \in [Nodes -> Nodes \cup {NoParent}]
       /\ \A n \in Nodes : p[n] = NoParent <=> n = Root
ASSUME ProcessorAssumption == Processors # {} /\ Incoherent \in BOOLEAN

VARIABLES
  parent,    \* octree.parent; children is its inverse
  place,     \* leaf -> the multiprocessor its thread runs on
  phase,     \* "clear", "count", "leaves", "propagate": what the host launches next
  childCount, pendingChildren,
  mass,      \* octree.mass in the memory all threads share
  thread,    \* leaf -> the state of its thread
  announced, \* history: the nodes that have been counted at their parents
  l1,        \* multiprocessor -> node -> what its cache holds
  errorCode

vars == <<parent, place, phase, childCount, pendingChildren, mass, thread, announced, l1, errorCode>>

Children(n) == {c \in Nodes : parent[c] = n}
Leaves == {n \in Nodes : Children(n) = {}}

\* A thread: what it does next, completedNode, the sum it has formed (or stored, not yet
\* visible to others) and the children it has still to load.
Thread(pc, node, sum, left) == [pc |-> pc, node |-> node, sum |-> sum, left |-> left]
Exited == Thread("exit", Root, {}, {})
At(t) == thread[t].node
Above(t) == parent[At(t)]

Absent == {NoParent}
EmptyCache == [n \in Nodes |-> Absent]

\* The physical arrays hold anything when they have been allocated.
Init ==
  /\ parent \in Trees
  /\ place \in [Nodes -> Processors]
  /\ phase = "clear"
  /\ childCount = [n \in Nodes |-> 0]
  /\ \E v \in {0, 1} : pendingChildren = [n \in Nodes |-> v]
  /\ mass = [n \in Nodes |-> {}]
  /\ thread = [t \in Nodes |-> Exited]
  /\ announced = {}
  /\ l1 = [p \in Processors |-> EmptyCache]
  /\ errorCode = 0

----------------------------------------------------------------------------
(* computeOctreeMassAndCenterOfMass: the host clears, counts and initialises. *)

\* Mutant: pendingChildren is not cleared.
Uninitialized(counters) == counters
Cleared(counters) == [n \in Nodes |-> 0]

Clear ==
  /\ phase = "clear"
  /\ phase' = "count"
  /\ pendingChildren' = Cleared(pendingChildren)
  /\ mass' = [n \in Nodes |-> {}]
  /\ childCount' = [n \in Nodes |-> 0]
  /\ errorCode' = 0
  /\ UNCHANGED <<parent, place, thread, announced, l1>>

CountChildren ==
  /\ phase = "count"
  /\ phase' = "leaves"
  /\ childCount' = [n \in Nodes |-> Cardinality(Children(n))]
  /\ UNCHANGED <<parent, place, pendingChildren, mass, thread, announced, l1, errorCode>>

\* The kernels are synchronised: the leaves' masses are visible when the threads start.
InitializeLeaves ==
  /\ phase = "leaves"
  /\ phase' = "propagate"
  /\ mass' = [n \in Nodes |-> IF n \in Leaves THEN {n} ELSE {}]
  /\ thread' = [t \in Nodes |-> IF t \in Leaves THEN Thread("climb", t, {t}, {}) ELSE Exited]
  /\ UNCHANGED <<parent, place, childCount, pendingChildren, announced, l1, errorCode>>

----------------------------------------------------------------------------
(* propagateOctreeMassKernel *)

Becomes(t, state) == thread' = [thread EXCEPT ![t] = state]

\* The memory when what the thread has stored is visible, and the cache it is stored through.
Stored(t) == [mass EXCEPT ![At(t)] = thread[t].sum]
StoredThrough(t) == [l1 EXCEPT ![place[t]][At(t)] = Absent]

\* The store becomes visible before the thread has reached its fence.
Flush(t) ==
  /\ thread[t].pc = "climb"
  /\ mass[At(t)] # thread[t].sum
  /\ mass' = Stored(t)
  /\ l1' = StoredThrough(t)
  /\ UNCHANGED <<parent, place, phase, childCount, pendingChildren, thread, announced, errorCode>>

\* The loop ends at the root; when the kernel ends its stores are visible.
ReachRoot(t) ==
  /\ thread[t].pc = "climb"
  /\ Above(t) = NoParent
  /\ mass' = Stored(t)
  /\ l1' = StoredThrough(t)
  /\ Becomes(t, Exited)
  /\ UNCHANGED <<parent, place, phase, childCount, pendingChildren, announced, errorCode>>

\* Mutant: there is no fence; what was not visible before still is not.
Unflushed(t) == mass
\* __threadfence: every store of the thread is visible.
Fenced(t) == Stored(t)

Fence(t) ==
  /\ thread[t].pc = "climb"
  /\ Above(t) # NoParent
  /\ mass' = Fenced(t)
  /\ l1' = [l1 EXCEPT ![place[t]] = EmptyCache]
  /\ Becomes(t, [thread[t] EXCEPT !.pc = "arrive"])
  /\ UNCHANGED <<parent, place, phase, childCount, pendingChildren, announced, errorCode>>

\* Mutants: the last child but one goes on as well; the last child leaves.
TooEarly(completed, required) == completed + 1 < required
TooLate(completed, required) == completed <= required
\* completedChildren < requiredChildren
Incomplete(completed, required) == completed < required

\* atomicAdd on the parent's counter, and what the thread concludes from it.
Arrive(t) ==
  /\ thread[t].pc = "arrive"
  /\ LET completed == pendingChildren[Above(t)] + 1
         required == childCount[Above(t)]
         overrun == ~Incomplete(completed, required) /\ completed > required
     IN /\ pendingChildren' = [pendingChildren EXCEPT ![Above(t)] = completed]
        /\ Becomes(t, IF Incomplete(completed, required) \/ overrun THEN Exited
                       ELSE Thread("load", At(t), {}, Children(Above(t))))
        /\ errorCode' = IF overrun /\ errorCode = 0 THEN 7 ELSE errorCode
  /\ announced' = announced \cup {At(t)}
  /\ UNCHANGED <<parent, place, phase, childCount, mass, l1>>

\* What a load of node c's mass may see: the memory, the line entering the cache, or what
\* the cache holds already.
Views(t, c) ==
  LET cache == l1[place[t]]
      fetched == [n \in Nodes |-> IF LineOf(n) = LineOf(c) THEN mass[n] ELSE cache[n]]
  IN IF ~Incoherent THEN {mass} ELSE {fetched} \cup {v \in {cache} : v[c] # Absent}

\* The mass of a child is loaded and added.
Load(t) ==
  /\ thread[t].pc = "load"
  /\ \E c \in thread[t].left : \E view \in Views(t, c) :
       /\ Becomes(t, [thread[t] EXCEPT !.sum = @ \cup view[c], !.left = @ \ {c}])
       /\ l1' = IF Incoherent THEN [l1 EXCEPT ![place[t]] = view] ELSE l1
  /\ UNCHANGED <<parent, place, phase, childCount, pendingChildren, mass, announced, errorCode>>

\* The sum is stored at the parent, which becomes the thread's completed node.
Store(t) ==
  /\ thread[t].pc = "load"
  /\ thread[t].left = {}
  /\ Becomes(t, Thread("climb", Above(t), thread[t].sum, {}))
  /\ UNCHANGED <<parent, place, phase, childCount, pendingChildren, mass, announced, l1, errorCode>>

Climb(t) == Flush(t) \/ ReachRoot(t) \/ Fence(t) \/ Arrive(t) \/ Load(t) \/ Store(t)

Next ==
  \/ Clear
  \/ CountChildren
  \/ InitializeLeaves
  \/ \E t \in Nodes : Climb(t)

Spec == Init /\ [][Next]_vars

\* The host launches the kernels and the GPU runs every thread: none waits for another.
FairSpec ==
  /\ Spec
  /\ WF_vars(Clear) /\ WF_vars(CountChildren) /\ WF_vars(InitializeLeaves)
  /\ \A t \in Nodes : WF_vars(Climb(t))

----------------------------------------------------------------------------
(* Properties *)

TypeOK ==
  /\ parent \in Trees
  /\ place \in [Nodes -> Processors]
  /\ phase \in {"clear", "count", "leaves", "propagate"}
  /\ childCount \in [Nodes -> Nat] /\ pendingChildren \in [Nodes -> Nat]
  /\ mass \in [Nodes -> SUBSET Nodes]
  /\ thread \in [Nodes -> [pc : {"climb", "arrive", "load", "exit"}, node : Nodes,
                           sum : SUBSET Nodes, left : SUBSET Nodes]]
  /\ announced \in SUBSET Nodes
  /\ errorCode \in {0, 7}

\* The nodes on the way from a node to the root: the least set with the node in it that
\* contains the parent of each of its members.
UpwardClosed(S) == \A m \in S : parent[m] \in S \cup {NoParent}
Ancestors(n) == {a \in Nodes : \A S \in SUBSET Nodes : n \in S /\ UpwardClosed(S) => a \in S}
LeavesBelow(n) == {l \in Leaves : n \in Ancestors(l)}

\* "This is the last completed child, so all children of parentNode now have valid mass":
\* a node that has been announced holds the sum of all the leaves below it and no others.
SubtreeSummed == \A n \in announced : mass[n] = LeavesBelow(n)

\* "An octree parent was signalled too many times" is never reported.
NoOverrun == errorCode # 7

\* Plain stores do not race: no two threads write the mass of one node.
Writes(t, n) ==
  \/ thread[t].pc = "load" /\ Above(t) = n
  \/ thread[t].pc \in {"climb", "arrive"} /\ At(t) = n
SoleWriter == \A s, t \in Nodes : \A n \in Nodes : Writes(s, n) /\ Writes(t, n) => s = t

\* All threads come to an end, the last one with the mass of the whole tree at the root.
Finished == phase = "propagate" /\ \A t \in Nodes : thread[t].pc = "exit"
RootSummed == <>[](Finished /\ mass[Root] = Leaves)
=============================================================================

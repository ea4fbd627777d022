--------------------------- MODULE ForceTraversal ---------------------------
(***************************************************************************)
(* The Barnes-Hut traversal of the octree (barnes_hut.cu) by the thread of *)
(* one target particle.  Threads share nothing but what they read: each    *)
(* writes the acceleration of its own target.                              *)
(*                                                                         *)
(* An acceleration is abstracted to how often each body has been added to  *)
(* it, alone or within the mass of an accepted node.  Whether a node the   *)
(* target lies outside of is far enough away depends on theta and on the   *)
(* centre of mass: it is left open.                                        *)
(***************************************************************************)
EXTENDS SparseOctree

CONSTANT Massless  \* the sets of bodies that may have no mass

VARIABLES
  walk,      \* "idle", "walking", "done", or "failed"
  target,    \* the particle whose thread this is
  massless,  \* the bodies without mass
  softened,  \* whether the softening is positive
  node,      \* the node to be visited
  counted,   \* body -> how often its attraction has been added
  walkError  \* the kernel's error code

walkVars == <<walk, target, massless, softened, node, counted, walkError>>

TraversalEnd == -1

WalkInit ==
  /\ walk = "idle"
  /\ target = 0 /\ node = TraversalEnd
  /\ massless = {} /\ softened = TRUE
  /\ counted = <<>>
  /\ walkError = 0

----------------------------------------------------------------------------
(* Where the traversal goes: to a node or to its end, or it finds the octree malformed. *)

HalfSide == 2^kOctreeMaxLevel

To(n) == [node |-> n, error |-> 0]
Malformed(code) == [node |-> TraversalEnd, error |-> code]

SlotsOf(n) == {o \in Octants : octree.children[n][o] # NoNode}
ValidChild(n, o) == octree.children[n][o] \in Nodes \ {Root}

\* The child in the highest of some slots of n.
HighestChild(n, slots) ==
  IF ValidChild(n, Max(slots)) THEN To(octree.children[n][Max(slots)]) ELSE Malformed(1)

firstTraversalChild(n) ==
  IF SlotsOf(n) = {} THEN Malformed(5) ELSE HighestChild(n, SlotsOf(n))

\* Mutant: the scan goes on upwards.
HigherSlots(n) ==
  {o \in SlotsOf(octree.parent[n]) : \E s \in Octants : octree.children[octree.parent[n]][s] = n /\ o > s}
\* The slots that are scanned after n's own.
LowerSlots(n) ==
  {o \in SlotsOf(octree.parent[n]) : \E s \in Octants : octree.children[octree.parent[n]][s] = n /\ o < s}

LinkError(n) ==
  LET parent == octree.parent[n]
      own == {o \in Octants : octree.children[parent][o] = n}
      scanned == {o \in SlotsOf(parent) : \A s \in own : o > s}
  IN CASE parent \notin Nodes -> 4
       [] parent \in Nodes /\ \E o \in scanned : ~ValidChild(parent, o) -> 1
       [] parent \in Nodes /\ own = {} -> 4
       [] OTHER -> 0

\* Climbing from n to the first node that is the root, malformed, or followed by a sibling.
nextTraversalNode(n) ==
  LET up == [octree.parent EXCEPT ![Root] = Root]
      above[k \in 0 .. Cardinality(Nodes)] == IF k = 0 THEN n ELSE up[above[k - 1]]
      stops(m) == m = Root \/ LinkError(m) # 0 \/ LowerSlots(m) # {}
      stop == above[CHOOSE k \in DOMAIN above :
                      stops(above[k]) /\ \A j \in 0 .. k - 1 : ~stops(above[j])]
  IN CASE stop = Root -> To(TraversalEnd)
       [] stop # Root /\ LinkError(stop) # 0 -> Malformed(LinkError(stop))
       [] OTHER -> HighestChild(octree.parent[stop], LowerSlots(stop))

----------------------------------------------------------------------------
(* What is decided at a node *)

Bodies(ps) == ps \ massless

\* The mass of a node is that of the bodies below it (what MassPropagation establishes).
HasMass(n) == Bodies(ParticlesBelow(n)) # {}

\* nodeContainsTarget, boundaries included.
nodeContainsTarget(n) ==
  \A a \in Axes :
    LET offset == 2 * HalfSide * Normalised(box, a, positions[target][a])
                    - octree.centre[n][a] * Unit(box)
    IN -octree.halfSize[n] * Unit(box) <= offset /\ offset <= octree.halfSize[n] * Unit(box)

\* Mutant: far away is all that counts.
Anywhere(n) == TRUE
MayAccept(n) == ~nodeContainsTarget(n)

\* Mutant: the interaction is tried before the target is left out.
CoincidentOrSelf(ps) == {p \in ps : positions[p] = positions[target]}
Coincident(ps) == {p \in ps \ {target} : positions[p] = positions[target]}

Others(ps) == ps \ {target}

LeafError(n) ==
  LET first == octree.firstParticle[n]
      count == octree.particleCount[n]
      inRange == first >= 0 /\ first <= Cardinality(Particles) - count
  IN CASE ChildrenOf(n) # {} -> 7
       [] ChildrenOf(n) = {} /\ ~inRange -> 2
       [] ChildrenOf(n) = {} /\ inRange /\ ~ ParticlesOf(n) \subseteq Particles -> 3
       [] OTHER -> IF ~softened /\ Bodies(Coincident(ParticlesOf(n))) # {} THEN 6 ELSE 0

----------------------------------------------------------------------------
(* computeBarnesHutAccelerationKernel *)

\* The octree is complete, its masses are computed, the kernel is launched.
Launch ==
  /\ walk = "idle"
  /\ walk' = "walking"
  /\ target' \in Particles
  /\ massless' \in {ps \in Massless : ps \subseteq Particles}
  /\ softened' \in BOOLEAN
  /\ node' = Root
  /\ counted' = [p \in Particles |-> 0]
  /\ UNCHANGED <<positions, box, indices, octree, walkError>>

Visiting(n) == walk = "walking" /\ node = n

\* The thread goes on to where a helper has sent it, or returns with the error found there.
Goes(way) ==
  /\ walk' = CASE way.error # 0 -> "failed"
               [] way.error = 0 /\ way.node = TraversalEnd -> "done"
               [] OTHER -> "walking"
  /\ node' = way.node
  /\ walkError' = way.error
  /\ UNCHANGED <<positions, box, indices, octree, target, massless, softened>>

Counting(ps) == counted' = [p \in Particles |-> counted[p] + IF p \in Bodies(ps) THEN 1 ELSE 0]

\* An occupied leaf is always evaluated exactly.
VisitLeaf(n) ==
  /\ Visiting(n) /\ IsLeaf(n)
  /\ IF LeafError(n) # 0 THEN UNCHANGED counted ELSE Counting(Others(ParticlesOf(n)))
  /\ Goes(IF LeafError(n) # 0 THEN Malformed(LeafError(n)) ELSE nextTraversalNode(n))

SkipMassless(n) ==
  /\ Visiting(n) /\ ~IsLeaf(n)
  /\ ~HasMass(n)
  /\ UNCHANGED counted
  /\ Goes(nextTraversalNode(n))

\* The node's centre of mass is not at the target, so its attraction is never singular.
AcceptNode(n) ==
  /\ Visiting(n) /\ ~IsLeaf(n)
  /\ HasMass(n) /\ MayAccept(n)
  /\ Counting(ParticlesBelow(n))
  /\ Goes(nextTraversalNode(n))

OpenNode(n) ==
  /\ Visiting(n) /\ ~IsLeaf(n)
  /\ HasMass(n)
  /\ UNCHANGED counted
  /\ Goes(firstTraversalChild(n))

Walk ==
  \/ Launch
  \/ \E n \in Nodes : VisitLeaf(n) \/ SkipMassless(n) \/ AcceptNode(n) \/ OpenNode(n)

----------------------------------------------------------------------------
(* Properties *)

\* The sum over the leaves and the accepted nodes is a sum over all bodies: when a traversal
\* ends, every other body with mass has been added exactly once and the target never has
\* ("Explicitly remove self interaction"); on the way nothing is added twice.
EachBodyOnce ==
  walk \in {"walking", "done"} =>
    \A p \in Particles :
      /\ counted[p] <= 1
      /\ walk = "done" /\ p \in Bodies(Particles \ {target}) => counted[p] = 1
      /\ p = target => counted[p] = 0

\* The only error a traversal of a built octree can report is the singular interaction, and
\* that only without softening and for a target that shares its place with another body.
OnlySingular ==
  walk = "failed" =>
    /\ walkError = 6 /\ ~softened
    /\ \E p \in Bodies(Particles \ {target}) : positions[p] = positions[target]

\* The nodes an explicit stack would hold when the thread is at a node: the node itself and the
\* siblings still to come of the nodes on its path, from the lowest to the highest; deeper nodes
\* are higher, and of siblings the one in the higher slot.
Waiting(n) == UNION {{octree.children[octree.parent[m]][o] : o \in LowerSlots(m)} : m \in Ancestry(n) \ {Root}}
Height(m) ==
  IF m = Root THEN 0
  ELSE 8 * octree.level[m] + (CHOOSE o \in Octants : octree.children[octree.parent[m]][o] = m)
StackAt(n) ==
  LET nodes == Waiting(n) \cup {n}
  IN [i \in 1 .. Cardinality(nodes) |->
        CHOOSE m \in nodes : Cardinality({q \in nodes : Height(q) < Height(m)}) = i - 1]
=============================================================================

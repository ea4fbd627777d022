--------------------------- MODULE SimulationSteps ---------------------------
(***************************************************************************)
(* The class Simulation (simulation.cpp, gpu/cuda_kernels/simulation.cu):  *)
(* a call of initialize or step is a sequence of stages on the device,     *)
(* most of which may throw. The octree is rebuilt in every call; the new   *)
(* structures are staged and replace the old ones only when all are built. *)
(*                                                                         *)
(* Data is abstracted to where it comes from. Positions are the number of  *)
(* drifts they have seen, an acceleration is the positions its octree, its *)
(* order of particles and its bodies were taken from, the velocities are   *)
(* the accelerations of their half kicks.                                  *)
(***************************************************************************)
EXTENDS Integers, Sequences, SequencesExt

VARIABLES
  state,         \* created, ready, failed, destroyed
  stepNumber,
  todo,          \* the stages the call under way has still to do
  positions,     \* how many times they have drifted
  kicks,         \* the accelerations of the half kicks so far
  acceleration, nextAcceleration,
  member,        \* slot -> the allocation (none or one) the simulation owns there
  staged,        \* slot -> the allocation the call under way owns there
  live,          \* the device's allocations
  misfreed       \* whether anything has been freed that was not live

simVars == <<state, stepNumber, todo, positions, kicks, acceleration, nextAcceleration,
             member, staged, live, misfreed>>

\* The structures in the order they are built, and the slots of all allocations.
SpatialStages == <<"mortonKeys", "groups", "radixTree", "plan", "octree">>
Spatial == ToSet(SpatialStages)
Slots == Spatial \cup {"deviceState"}
Nothing == [s \in Slots |-> {}]
Owned(owner) == UNION {owner[s] : s \in Slots}

\* The acceleration of the bodies at `p`; Zero is what a new buffer holds.
From(tree, order, bodies) == [tree |-> tree, order |-> order, bodies |-> bodies]
Field(p) == From(p, p, p)
Zero == Field(-1)

InitializeStages == <<"deviceState">> \o SpatialStages \o <<"commit", "accelerate", "swap">>
StepStages ==
  <<"updatePositions">> \o SpatialStages \o <<"commit", "accelerate", "updateVelocities", "swap">>
\* What cannot throw: moves, swaps and counters.
Noexcept == {"commit", "swap"}

SimInit ==
  /\ state = "created" /\ stepNumber = 0 /\ todo = <<>>
  /\ positions = 0 /\ kicks = <<>>
  /\ acceleration = Zero /\ nextAcceleration = Zero
  /\ member = Nothing /\ staged = Nothing /\ live = {} /\ misfreed = FALSE

----------------------------------------------------------------------------
(* Device memory. *)

Allocated(slot) == {<<slot, positions>>}

\* Frees what `owners` own.
Free(owned) ==
  /\ live' = live \ owned
  /\ misfreed' = (misfreed \/ ~(owned \subseteq live))

\* DeviceBuffer's move: the source is left empty. Mutant: it keeps its pointer.
KeepSource(source, slots) == source
MovedFrom(source, slots) == [s \in Slots |-> IF s \in slots THEN {} ELSE source[s]]

\* releaseResources: whatever is owned is freed, and every pointer reset.
ReleaseResources(others) ==
  /\ member' = Nothing
  /\ Free(others \cup Owned(member))

----------------------------------------------------------------------------
(* The calls and their stages. *)

Initialize ==
  /\ state = "created" /\ todo = <<>>
  /\ todo' = InitializeStages
  /\ UNCHANGED <<state, stepNumber, positions, kicks, acceleration, nextAcceleration,
                 member, staged, live, misfreed>>

Step ==
  /\ state = "ready" /\ todo = <<>>
  /\ todo' = StepStages
  /\ UNCHANGED <<state, stepNumber, positions, kicks, acceleration, nextAcceleration,
                 member, staged, live, misfreed>>

Stage(name) ==
  /\ todo # <<>> /\ Head(todo) = name
  /\ todo' = Tail(todo)

CreateDeviceState ==
  /\ Stage("deviceState")
  /\ member' = [member EXCEPT !["deviceState"] = Allocated("deviceState")]
  /\ live' = live \cup Allocated("deviceState")
  /\ acceleration' = Zero /\ nextAcceleration' = Zero
  /\ UNCHANGED <<state, stepNumber, positions, kicks, staged, misfreed>>

\* The leapfrog's first half kick and its drift.
UpdatePositions ==
  /\ Stage("updatePositions")
  /\ kicks' = Append(kicks, acceleration)
  /\ positions' = positions + 1
  /\ UNCHANGED <<state, stepNumber, acceleration, nextAcceleration, member, staged, live, misfreed>>

StageStructure(slot) ==
  /\ Stage(slot)
  /\ staged' = [staged EXCEPT ![slot] = Allocated(slot)]
  /\ live' = live \cup Allocated(slot)
  /\ UNCHANGED <<state, stepNumber, positions, kicks, acceleration, nextAcceleration, member, misfreed>>

\* The old structures are released, the staged ones moved; the staged owner dies at the end.
CommitStaged ==
  LET left == MovedFrom(staged, Spatial)
      old == UNION {member[s] : s \in Spatial}
  IN /\ Stage("commit")
     /\ member' = [s \in Slots |-> IF s \in Spatial THEN staged[s] ELSE member[s]]
     /\ staged' = Nothing
     /\ Free(old \cup Owned(left))
     /\ UNCHANGED <<state, stepNumber, positions, kicks, acceleration, nextAcceleration>>

\* The bodies are gathered in Morton order as the positions are now; the octree walked is the
\* one committed last. The result goes to the next buffers.
MadeAt(slot) == (CHOOSE allocation \in member[slot] : TRUE)[2]
ComputeAccelerations ==
  /\ Stage("accelerate")
  /\ \A slot \in {"deviceState", "mortonKeys"} : member[slot] # {}
  /\ nextAcceleration' = From(MadeAt("octree"), MadeAt("mortonKeys"), positions)
  /\ UNCHANGED <<state, stepNumber, positions, kicks, acceleration, member, staged, live, misfreed>>

\* The second half kick. Mutant: by the current acceleration.
CurrentForKick == acceleration
AccelerationForKick == nextAcceleration
UpdateVelocities ==
  /\ Stage("updateVelocities")
  /\ kicks' = Append(kicks, AccelerationForKick)
  /\ UNCHANGED <<state, stepNumber, positions, acceleration, nextAcceleration, member, staged, live, misfreed>>

\* The last stage: the buffers are swapped, and the call returns.
SwapAccelerations ==
  /\ Stage("swap")
  /\ acceleration' = nextAcceleration /\ nextAcceleration' = acceleration
  /\ IF state = "created" THEN state' = "ready" /\ UNCHANGED stepNumber
     ELSE stepNumber' = stepNumber + 1 /\ UNCHANGED state
  /\ UNCHANGED <<positions, kicks, member, staged, live, misfreed>>

\* A stage throws: the staged owner is unwound, and initialize releases everything.
Throw ==
  /\ todo # <<>> /\ Head(todo) \notin Noexcept
  /\ todo' = <<>> /\ state' = "failed" /\ staged' = Nothing
  /\ IF state = "created"
     THEN ReleaseResources(Owned(staged))
     ELSE UNCHANGED member /\ Free(Owned(staged))
  /\ UNCHANGED <<stepNumber, positions, kicks, acceleration, nextAcceleration>>

Stages ==
  \/ CreateDeviceState \/ UpdatePositions \/ CommitStaged
  \/ \E slot \in Spatial : StageStructure(slot)
  \/ ComputeAccelerations \/ UpdateVelocities \/ SwapAccelerations

\* The destructor.
Destroy ==
  /\ todo = <<>> /\ state' = "destroyed"
  /\ ReleaseResources({})
  /\ UNCHANGED <<stepNumber, todo, positions, kicks, acceleration, nextAcceleration, staged>>

----------------------------------------------------------------------------
\* Every allocation on the device is owned by exactly one of the members and the staged
\* structures, none is freed twice, and none outlives the simulation: through failed stages,
\* commits and the destructor (which runs after initialize has already released everything).
OwnedOnce ==
  /\ ~misfreed
  /\ live = Owned(member) \cup Owned(staged)
  /\ Owned(member) \cap Owned(staged) = {}
  /\ state = "destroyed" => live = {}

\* Leapfrog's order: half kicks by the accelerations of steps 0, 1, 1, 2, 2, ..., each
\* computed from an octree, an order and bodies of one and the same positions; after a step
\* the positions and the current acceleration are those of that step.
LeapfrogOrder ==
  /\ \A i \in DOMAIN kicks : kicks[i] = Field(i \div 2)
  /\ state = "ready" /\ todo = <<>> =>
       /\ positions = stepNumber /\ Len(kicks) = 2 * stepNumber
       /\ acceleration = Field(stepNumber)
=============================================================================

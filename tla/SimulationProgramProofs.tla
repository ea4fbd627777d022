---------------------- MODULE SimulationProgramProofs ---------------------
(***************************************************************************)
(* The simulation program, part by part. SimulationSteps, for every        *)
(* number of steps and every stage that throws: what the members, the      *)
(* staged structures and the device hold, and how far positions,           *)
(* velocities and accelerations are, is determined by the number of        *)
(* stages the call under way has left. FrameCapture, for every number of   *)
(* particles, every maximum, every length of a chunk and every place the   *)
(* particles may be in. The program around them, SimulationProgram, for    *)
(* every command line, particle file and motion, and every point at which  *)
(* something fails.                                                        *)
(***************************************************************************)
EXTENDS SimulationProgram, SimulationSteps, SequenceTheorems, FiniteSetTheorems, WellFoundedInduction, TLAPS

---------------------------------------------------------------------------
(* The steps of the integrator *)

StageName ==
  Slots \cup {"updatePositions", "commit", "accelerate", "updateVelocities", "swap"}

(* The call under way has done a prefix of its stages. *)
Follows(stages) ==
  /\ 1 <= Len(todo) /\ Len(todo) <= Len(stages)
  /\ \A i \in 1 .. Len(todo) : todo[i] = stages[Len(stages) - Len(todo) + i]

(* Members with a device state and all structures, those made at `p'. *)
DeviceStateOnly == [s \in Slots |-> IF s = "deviceState" THEN {<<s, 0>>} ELSE {}]
MadeFrom(p) == [s \in Slots |-> IF s = "deviceState" THEN {<<s, 0>>} ELSE {<<s, p>>}]

(* The structures staged when `left' stages are left before the commit, each made at `p'. *)
StagedAt(left, p) ==
  [s \in Slots |->
     IF \E i \in 1 .. 5 : s = SpatialStages[i] /\ 0 <= left /\ i <= 5 - left THEN {<<s, p>>} ELSE {}]

Initializing ==
  /\ stepNumber = 0 /\ positions = 0 /\ kicks = <<>>
  /\ todo = <<>> => member = Nothing /\ staged = Nothing
  /\ todo # <<>> =>
       /\ Follows(InitializeStages)
       /\ member = IF Len(todo) = 9 THEN Nothing
                   ELSE IF Len(todo) >= 3 THEN DeviceStateOnly ELSE MadeFrom(0)
       /\ staged = StagedAt(Len(todo) - 3, 0)
       /\ Len(todo) = 1 => nextAcceleration = Field(0)

Stepping ==
  /\ acceleration = Field(stepNumber)
  /\ todo = <<>> =>
       /\ positions = stepNumber /\ Len(kicks) = 2 * stepNumber
       /\ member = MadeFrom(stepNumber) /\ staged = Nothing
  /\ todo # <<>> =>
       /\ Follows(StepStages)
       /\ positions = IF Len(todo) = 10 THEN stepNumber ELSE stepNumber + 1
       /\ Len(kicks) = 2 * stepNumber + (IF Len(todo) = 10 THEN 0 ELSE IF Len(todo) = 1 THEN 2 ELSE 1)
       /\ member = MadeFrom(IF Len(todo) >= 4 THEN stepNumber ELSE stepNumber + 1)
       /\ staged = StagedAt(Len(todo) - 4, stepNumber + 1)
       /\ Len(todo) <= 2 => nextAcceleration = Field(stepNumber + 1)

SimInv ==
  /\ state \in {"created", "ready", "failed", "destroyed"}
  /\ stepNumber \in Nat /\ todo \in Seq(StageName) /\ kicks \in Seq([tree : Int, order : Int, bodies : Int])
  /\ member = [s \in Slots |-> member[s]] /\ staged = [s \in Slots |-> staged[s]]
  /\ ~misfreed /\ live = Owned(member) \cup Owned(staged)
  /\ \A i \in DOMAIN kicks : kicks[i] = Field(i \div 2)
  /\ state = "created" => Initializing
  /\ state = "ready" => Stepping
  /\ state \in {"failed", "destroyed"} => todo = <<>> /\ staged = Nothing
  /\ state = "destroyed" => live = {} /\ member = Nothing
----------------------------------------------------------------------------
(* The stages of the two calls, and the slots, one by one. *)
LEMMA SpatialList ==
  /\ Len(SpatialStages) = 5
  /\ SpatialStages[1] = "mortonKeys" /\ SpatialStages[2] = "groups" /\ SpatialStages[3] = "radixTree"
  /\ SpatialStages[4] = "plan" /\ SpatialStages[5] = "octree"
  /\ Spatial = {"mortonKeys", "groups", "radixTree", "plan", "octree"}
  /\ SpatialStages \in Seq(StageName)
<1>1. DOMAIN SpatialStages = 1 .. 5 /\ 1 .. 5 = {1, 2, 3, 4, 5}
  BY DEF SpatialStages
<1>2. /\ SpatialStages[1] = "mortonKeys" /\ SpatialStages[2] = "groups" /\ SpatialStages[3] = "radixTree"
      /\ SpatialStages[4] = "plan" /\ SpatialStages[5] = "octree" /\ Len(SpatialStages) = 5
  BY DEF SpatialStages
<1>3. Spatial = {"mortonKeys", "groups", "radixTree", "plan", "octree"}
  BY <1>1, <1>2 DEF Spatial, ToSet
<1>4. SpatialStages \in Seq(StageName)
  BY <1>3 DEF SpatialStages, StageName, Slots
<1> QED
  BY <1>2, <1>3, <1>4

LEMMA InitializeList ==
  /\ Len(InitializeStages) = 9 /\ InitializeStages \in Seq(StageName)
  /\ InitializeStages[1] = "deviceState"
  /\ InitializeStages[2] = "mortonKeys" /\ InitializeStages[3] = "groups" /\ InitializeStages[4] = "radixTree"
  /\ InitializeStages[5] = "plan" /\ InitializeStages[6] = "octree"
  /\ InitializeStages[7] = "commit" /\ InitializeStages[8] = "accelerate" /\ InitializeStages[9] = "swap"
<1> DEFINE x == <<"deviceState">>
           z == <<"commit", "accelerate", "swap">>
<1>1. x \in Seq(StageName) /\ z \in Seq(StageName)
  BY DEF StageName, Slots
<1>2. x \o SpatialStages \in Seq(StageName)
  BY <1>1, SpatialList, ConcatProperties
<1>3. x \o SpatialStages \o z \in Seq(StageName)
  BY <1>1, <1>2, ConcatProperties
<1> QED
  BY <1>3 DEF InitializeStages, SpatialStages

LEMMA StepList ==
  /\ Len(StepStages) = 10 /\ StepStages \in Seq(StageName)
  /\ StepStages[1] = "updatePositions"
  /\ StepStages[2] = "mortonKeys" /\ StepStages[3] = "groups" /\ StepStages[4] = "radixTree"
  /\ StepStages[5] = "plan" /\ StepStages[6] = "octree"
  /\ StepStages[7] = "commit" /\ StepStages[8] = "accelerate" /\ StepStages[9] = "updateVelocities"
  /\ StepStages[10] = "swap"
<1> DEFINE x == <<"updatePositions">>
           z == <<"commit", "accelerate", "updateVelocities", "swap">>
<1>1. x \in Seq(StageName) /\ z \in Seq(StageName)
  BY DEF StageName, Slots
<1>2. x \o SpatialStages \in Seq(StageName)
  BY <1>1, SpatialList, ConcatProperties
<1>3. x \o SpatialStages \o z \in Seq(StageName)
  BY <1>1, <1>2, ConcatProperties
<1> QED
  BY <1>3 DEF StepStages, SpatialStages

LEMMA NoStage == <<>> \in Seq(StageName)
OBVIOUS

LEMMA EmptyCall == ASSUME NEW s \in Seq(StageName) PROVE Len(s) \in Nat /\ (s = <<>> <=> Len(s) = 0)
OBVIOUS

LEMMA InitializeSome == InitializeStages # <<>>
<1>1. InitializeStages = <<>> => Len(InitializeStages) = 0
  OBVIOUS
<1> QED
  BY <1>1, InitializeList

LEMMA StepSome == StepStages # <<>>
<1>1. StepStages = <<>> => Len(StepStages) = 0
  OBVIOUS
<1> QED
  BY <1>1, StepList

(* The next stage of a call says how many stages are left. *)
LEMMA InitializeNext ==
  ASSUME todo \in Seq(StageName), Follows(InitializeStages)
  PROVE  /\ Head(todo) = "deviceState" => Len(todo) = 9
         /\ \A i \in 1 .. 5 : Head(todo) = SpatialStages[i] => Len(todo) = 9 - i
         /\ Head(todo) = "commit" => Len(todo) = 3
         /\ Head(todo) = "accelerate" => Len(todo) = 2
         /\ Head(todo) = "swap" => Len(todo) = 1
         /\ Head(todo) \notin {"updatePositions", "updateVelocities"}
         /\ Len(todo) \in 1 .. 9
<1>0. Len(todo) \in 1 .. 9 /\ Len(todo) # 0
  <2> DEFINE n == Len(todo)
  <2>1. 1 <= n /\ n <= 9
    BY InitializeList DEF Follows
  <2>2. n \in Nat
    BY EmptyCall
  <2>3. n \in 1 .. 9 /\ n # 0
    <3> HIDE DEF n
    <3> QED
      BY <2>1, <2>2
  <2> QED
    BY <2>3
<1>1. \A i \in 1 .. Len(todo) : todo[i] = InitializeStages[9 - Len(todo) + i]
  BY InitializeList DEF Follows
<1>2. Head(todo) = InitializeStages[10 - Len(todo)]
  <2>1. todo # <<>>
    BY <1>0, EmptyCall
  <2>2. Head(todo) = todo[1] /\ 1 \in 1 .. Len(todo)
    BY <1>0, <2>1
  <2>3. 9 - Len(todo) + 1 = 10 - Len(todo)
    BY <1>0
  <2> QED
    BY <1>1, <2>2, <2>3
<1> DEFINE n == Len(todo)
           name == Head(todo)
<1>3. n \in {1, 2, 3, 4, 5, 6, 7, 8, 9}
  BY <1>0
<1>4. name = InitializeStages[10 - n]
  BY <1>2
<1> HIDE DEF n, name
<1>5. /\ n = 9 => name = "deviceState"
      /\ n = 8 => name = "mortonKeys"
      /\ n = 7 => name = "groups"
      /\ n = 6 => name = "radixTree"
      /\ n = 5 => name = "plan"
      /\ n = 4 => name = "octree"
      /\ n = 3 => name = "commit"
      /\ n = 2 => name = "accelerate"
      /\ n = 1 => name = "swap"
  BY <1>4, InitializeList
<1>6. \A i \in 1 .. 5 : name = SpatialStages[i] => n = 9 - i
  BY <1>3, <1>5, SpatialList
<1>7. /\ name = "deviceState" => n = 9
      /\ name = "commit" => n = 3
      /\ name = "accelerate" => n = 2
      /\ name = "swap" => n = 1
      /\ name \notin {"updatePositions", "updateVelocities"}
  BY <1>3, <1>5
<1> QED
  BY <1>0, <1>6, <1>7 DEF n, name

LEMMA StepNext ==
  ASSUME todo \in Seq(StageName), Follows(StepStages)
  PROVE  /\ Head(todo) = "updatePositions" => Len(todo) = 10
         /\ \A i \in 1 .. 5 : Head(todo) = SpatialStages[i] => Len(todo) = 10 - i
         /\ Head(todo) = "commit" => Len(todo) = 4
         /\ Head(todo) = "accelerate" => Len(todo) = 3
         /\ Head(todo) = "updateVelocities" => Len(todo) = 2
         /\ Head(todo) = "swap" => Len(todo) = 1
         /\ Head(todo) # "deviceState"
         /\ Len(todo) \in 1 .. 10
<1>0. Len(todo) \in 1 .. 10 /\ Len(todo) # 0
  <2> DEFINE n == Len(todo)
  <2>1. 1 <= n /\ n <= 10
    BY StepList DEF Follows
  <2>2. n \in Nat
    BY EmptyCall
  <2>3. n \in 1 .. 10 /\ n # 0
    <3> HIDE DEF n
    <3> QED
      BY <2>1, <2>2
  <2> QED
    BY <2>3
<1>1. \A i \in 1 .. Len(todo) : todo[i] = StepStages[10 - Len(todo) + i]
  BY StepList DEF Follows
<1>2. Head(todo) = StepStages[11 - Len(todo)]
  <2>1. todo # <<>>
    BY <1>0, EmptyCall
  <2>2. Head(todo) = todo[1] /\ 1 \in 1 .. Len(todo)
    BY <1>0, <2>1
  <2>3. 10 - Len(todo) + 1 = 11 - Len(todo)
    BY <1>0
  <2> QED
    BY <1>1, <2>2, <2>3
<1> DEFINE n == Len(todo)
           name == Head(todo)
<1>3. n \in {1, 2, 3, 4, 5, 6, 7, 8, 9, 10}
  BY <1>0
<1>4. name = StepStages[11 - n]
  BY <1>2
<1> HIDE DEF n, name
<1>5. /\ n = 10 => name = "updatePositions"
      /\ n = 9 => name = "mortonKeys"
      /\ n = 8 => name = "groups"
      /\ n = 7 => name = "radixTree"
      /\ n = 6 => name = "plan"
      /\ n = 5 => name = "octree"
      /\ n = 4 => name = "commit"
      /\ n = 3 => name = "accelerate"
      /\ n = 2 => name = "updateVelocities"
      /\ n = 1 => name = "swap"
  BY <1>4, StepList
<1>6. \A i \in 1 .. 5 : name = SpatialStages[i] => n = 10 - i
  BY <1>3, <1>5, SpatialList
<1>7. /\ name = "updatePositions" => n = 10
      /\ name = "commit" => n = 4
      /\ name = "accelerate" => n = 3
      /\ name = "updateVelocities" => n = 2
      /\ name = "swap" => n = 1
      /\ name # "deviceState"
  BY <1>3, <1>5
<1> QED
  BY <1>0, <1>6, <1>7 DEF n, name

(* A stage done, the call has one stage less to do, or returns. *)
LEMMA StageDone ==
  ASSUME todo \in Seq(StageName), NEW name, Stage(name)
  PROVE  /\ todo # <<>> /\ Head(todo) = name /\ todo' \in Seq(StageName) /\ Len(todo') = Len(todo) - 1
         /\ Len(todo) \in Nat \ {0}
         /\ Len(todo) = 1 <=> todo' = <<>>
         /\ \A stages \in Seq(StageName) : Follows(stages) /\ todo' # <<>> => Follows(stages)'
<1>1. /\ todo # <<>> /\ Head(todo) = name /\ todo' = Tail(todo)
      /\ todo' \in Seq(StageName) /\ Len(todo') = Len(todo) - 1 /\ Len(todo) \in Nat \ {0}
      /\ \A i \in 1 .. Len(todo) - 1 : todo'[i] = todo[i + 1]
  BY DEF Stage
<1>2. Len(todo) = 1 <=> todo' = <<>>
  <2>1. Len(todo') = 0 <=> Len(todo) = 1
    BY <1>1
  <2> QED
    BY <1>1, <2>1, EmptyCall
<1>3. ASSUME NEW stages \in Seq(StageName), Follows(stages), todo' # <<>> PROVE Follows(stages)'
  <2>1. 1 <= Len(todo') /\ Len(todo') <= Len(stages) /\ Len(stages) \in Nat
    BY <1>1, <1>2, <1>3 DEF Follows
  <2>2. ASSUME NEW i \in 1 .. Len(todo') PROVE todo'[i] = stages[Len(stages) - Len(todo') + i]
    <3>1. i + 1 \in 1 .. Len(todo) /\ Len(stages) - Len(todo') + i = Len(stages) - Len(todo) + (i + 1)
      BY <1>1, <2>1
    <3> QED
      BY <1>1, <1>3, <2>2, <3>1 DEF Follows
  <2> QED
    BY <2>1, <2>2 DEF Follows
<1> QED
  BY <1>1, <1>2, <1>3
----------------------------------------------------------------------------
(* What is owned. *)
LEMMA OwnedElements ==
  ASSUME NEW owner, NEW x PROVE x \in Owned(owner) <=> \E s \in Slots : x \in owner[s]
BY DEF Owned

LEMMA OwnedNothing == Owned(Nothing) = {}
BY DEF Owned, Nothing

(* The slots: five structures, all different, and the device state. *)
LEMMA SlotList ==
  /\ Slots = {"mortonKeys", "groups", "radixTree", "plan", "octree", "deviceState"}
  /\ "deviceState" \in Slots /\ "deviceState" \notin Spatial
  /\ \A s \in Slots : s # "deviceState" <=> s \in Spatial
  /\ \A s \in Spatial : \E i \in 1 .. 5 : s = SpatialStages[i]
  /\ \A i \in 1 .. 5 : SpatialStages[i] \in Spatial /\ SpatialStages[i] \in Slots
  /\ \A i, j \in 1 .. 5 : SpatialStages[i] = SpatialStages[j] => i = j
<1>1. Slots = {"mortonKeys", "groups", "radixTree", "plan", "octree", "deviceState"}
  BY SpatialList DEF Slots
<1>2. \A s \in Spatial : \E i \in 1 .. 5 : s = SpatialStages[i]
  <2> SUFFICES ASSUME NEW s \in Spatial PROVE \E i \in 1 .. 5 : s = SpatialStages[i]
    OBVIOUS
  <2>1. 1 \in 1 .. 5 /\ 2 \in 1 .. 5 /\ 3 \in 1 .. 5 /\ 4 \in 1 .. 5 /\ 5 \in 1 .. 5
    OBVIOUS
  <2> QED
    BY <2>1, SpatialList
<1>3. \A i \in 1 .. 5 : i = 1 \/ i = 2 \/ i = 3 \/ i = 4 \/ i = 5
  OBVIOUS
<1>4. \A i \in 1 .. 5 : SpatialStages[i] \in Spatial
  BY <1>3, SpatialList
<1>5. \A i, j \in 1 .. 5 : SpatialStages[i] = SpatialStages[j] => i = j
  BY <1>3, SpatialList
<1> QED
  BY <1>1, <1>2, <1>4, <1>5, SpatialList

(* The staged structures, as the stages of a call go by. *)
LEMMA StagedNone ==
  ASSUME NEW left \in Int, NEW p, left < 0 \/ left >= 5 PROVE StagedAt(left, p) = Nothing
BY DEF StagedAt, Nothing

LEMMA StagedOne ==
  ASSUME NEW i \in 1 .. 5, NEW p
  PROVE  StagedAt(5 - i, p) =
           [StagedAt(6 - i, p) EXCEPT ![SpatialStages[i]] = {<<SpatialStages[i], p>>}]
<1> DEFINE before == StagedAt(6 - i, p)
           after == StagedAt(5 - i, p)
<1>1. DOMAIN before = Slots /\ DOMAIN after = Slots
  BY DEF StagedAt
<1>2. ASSUME NEW s \in Slots
      PROVE  after[s] = IF s = SpatialStages[i] THEN {<<s, p>>} ELSE before[s]
  <2>1. after[s] = IF \E j \in 1 .. 5 : s = SpatialStages[j] /\ j <= i THEN {<<s, p>>} ELSE {}
    BY DEF StagedAt
  <2>2. before[s] = IF \E j \in 1 .. 5 : s = SpatialStages[j] /\ j <= i - 1 THEN {<<s, p>>} ELSE {}
    BY DEF StagedAt
  <2>3. CASE s = SpatialStages[i]
    BY <2>1, <2>3
  <2>4. CASE s # SpatialStages[i]
    <3>1. (\E j \in 1 .. 5 : s = SpatialStages[j] /\ j <= i)
            <=> \E j \in 1 .. 5 : s = SpatialStages[j] /\ j <= i - 1
      <4>1. \A j \in 1 .. 5 : j <= i /\ j # i <=> j <= i - 1
        OBVIOUS
      <4> QED
        BY <4>1, <2>4
    <3> QED
      BY <2>1, <2>2, <2>4, <3>1
  <2> QED
    BY <2>3, <2>4
<1>3. after = [s \in Slots |-> after[s]]
  BY DEF StagedAt
<1>4. before = [s \in Slots |-> before[s]]
  BY DEF StagedAt
<1> HIDE DEF before, after
<1> QED
  BY <1>1, <1>2, <1>3, <1>4, SlotList DEF before, after

LEMMA StagedAll ==
  ASSUME NEW p
  PROVE  StagedAt(0, p) = [s \in Slots |-> IF s \in Spatial THEN {<<s, p>>} ELSE {}]
<1>1. ASSUME NEW s \in Slots
      PROVE  (\E i \in 1 .. 5 : s = SpatialStages[i] /\ 0 <= 0 /\ i <= 5 - 0) <=> s \in Spatial
  BY SlotList
<1> QED
  BY <1>1 DEF StagedAt

----------------------------------------------------------------------------
(* In a stage: how many stages are left, and what that says. *)
LEMMA InStage ==
  ASSUME SimInv, NEW name, Stage(name)
  PROVE  /\ state \in {"created", "ready"} /\ todo # <<>> /\ Head(todo) = name
         /\ todo' \in Seq(StageName) /\ Len(todo') = Len(todo) - 1 /\ Len(todo) \in Nat \ {0}
         /\ Len(todo) = 1 <=> todo' = <<>>
         /\ state = "created" =>
              /\ Initializing /\ Follows(InitializeStages)
              /\ todo' # <<>> => Follows(InitializeStages)'
         /\ state = "ready" =>
              /\ Stepping /\ Follows(StepStages)
              /\ todo' # <<>> => Follows(StepStages)'
<1>1. /\ todo # <<>> /\ Head(todo) = name /\ todo' \in Seq(StageName) /\ Len(todo') = Len(todo) - 1
      /\ Len(todo) \in Nat \ {0}
      /\ Len(todo) = 1 <=> todo' = <<>>
      /\ \A stages \in Seq(StageName) : Follows(stages) /\ todo' # <<>> => Follows(stages)'
  BY StageDone DEF SimInv
<1>2. state \in {"created", "ready"}
  BY <1>1 DEF SimInv
<1>3. state = "created" => Initializing /\ Follows(InitializeStages)
  BY <1>1 DEF SimInv, Initializing
<1>4. state = "ready" => Stepping /\ Follows(StepStages)
  BY <1>1 DEF SimInv, Stepping
<1>5. Follows(InitializeStages) /\ todo' # <<>> => Follows(InitializeStages)'
  <2>1. InitializeStages \in Seq(StageName)
    BY InitializeList
  <2> HIDE DEF Follows
  <2> QED
    BY <1>1, <2>1
<1>6. Follows(StepStages) /\ todo' # <<>> => Follows(StepStages)'
  BY <1>1, StepList
<1> QED
  BY <1>1, <1>2, <1>3, <1>4, <1>5, <1>6

LEMMA SimCreateDeviceState == SimInv /\ CreateDeviceState => SimInv'
<1> SUFFICES ASSUME SimInv, CreateDeviceState PROVE SimInv'
  OBVIOUS
<1>0. Stage("deviceState")
  BY DEF CreateDeviceState
<1>1. /\ state = "created" /\ Initializing /\ Follows(InitializeStages) /\ Len(todo) = 9
      /\ todo # <<>> /\ Len(todo') = 8 /\ todo' # <<>> /\ todo' \in Seq(StageName)
      /\ Follows(InitializeStages)'
  <2>1. state # "ready"
    BY <1>0, InStage, StepNext DEF SimInv
  <2>2. state = "created" /\ Follows(InitializeStages) /\ Initializing
    BY <1>0, <2>1, InStage
  <2>3. Len(todo) = 9
    BY <1>0, <2>2, InStage, InitializeNext DEF SimInv
  <2> QED
    BY <1>0, <2>2, <2>3, InStage
<1>2. member = Nothing /\ staged = Nothing /\ positions = 0 /\ stepNumber = 0 /\ kicks = <<>>
  <2>1. staged = StagedAt(6, 0) /\ member = Nothing
    BY <1>1 DEF Initializing
  <2> QED
    BY <1>1, <2>1, StagedNone DEF Initializing
<1>3. member' = DeviceStateOnly
  BY <1>2, SlotList DEF CreateDeviceState, Allocated, Nothing, DeviceStateOnly
<1>4. staged' = StagedAt(5, 0) /\ staged' = Nothing
  BY <1>2, StagedNone DEF CreateDeviceState
<1>5. live' = Owned(member') \cup Owned(staged')
  <2>1. live = {}
    BY <1>2, OwnedNothing DEF SimInv
  <2>2. Owned(DeviceStateOnly) = {<<"deviceState", 0>>}
    BY SlotList DEF Owned, DeviceStateOnly
  <2> QED
    BY <1>2, <1>3, <1>4, <2>1, <2>2, OwnedNothing DEF CreateDeviceState, Allocated
<1>6. Initializing'
  BY <1>1, <1>2, <1>3, <1>4 DEF CreateDeviceState, Initializing
<1>7. member' = [s \in Slots |-> member'[s]] /\ staged' = [s \in Slots |-> staged'[s]]
  BY <1>3, <1>4 DEF DeviceStateOnly, Nothing
<1> QED
  BY <1>1, <1>5, <1>6, <1>7 DEF SimInv, CreateDeviceState

LEMMA FieldTyped ==
  /\ \A p \in Int : Field(p) \in [tree : Int, order : Int, bodies : Int]
BY DEF Field, From

(* One more half kick, by the acceleration whose turn it is. *)
LEMMA OneMoreKick ==
  ASSUME SimInv, NEW p \in Int, kicks' = Append(kicks, Field(p)), (Len(kicks) + 1) \div 2 = p
  PROVE  /\ kicks' \in Seq([tree : Int, order : Int, bodies : Int])
         /\ Len(kicks') = Len(kicks) + 1
         /\ \A i \in DOMAIN kicks' : kicks'[i] = Field(i \div 2)
<1> DEFINE R == [tree : Int, order : Int, bodies : Int]
<1>1. kicks \in Seq(R) /\ Field(p) \in R /\ \A i \in DOMAIN kicks : kicks[i] = Field(i \div 2)
  BY FieldTyped DEF SimInv
<1> HIDE DEF R
<1>2. /\ kicks' \in Seq(R) /\ Len(kicks') = Len(kicks) + 1 /\ DOMAIN kicks' = 1 .. Len(kicks) + 1
      /\ Len(kicks) \in Nat /\ DOMAIN kicks = 1 .. Len(kicks)
      /\ \A i \in 1 .. Len(kicks) : kicks'[i] = kicks[i]
      /\ kicks'[Len(kicks) + 1] = Field(p)
  BY <1>1
<1>3. ASSUME NEW i \in DOMAIN kicks' PROVE kicks'[i] = Field(i \div 2)
  <2>1. CASE i \in 1 .. Len(kicks)
    BY <1>1, <1>2, <2>1
  <2>2. CASE i = Len(kicks) + 1
    BY <1>2, <2>2
  <2> QED
    BY <1>2, <1>3, <2>1, <2>2
<1> QED
  BY <1>2, <1>3 DEF R

LEMMA SimUpdatePositions == SimInv /\ UpdatePositions => SimInv'
<1> SUFFICES ASSUME SimInv, UpdatePositions PROVE SimInv'
  OBVIOUS
<1>0. Stage("updatePositions")
  BY DEF UpdatePositions
<1>1. /\ state = "ready" /\ Stepping /\ Follows(StepStages) /\ Len(todo) = 10
      /\ todo # <<>> /\ Len(todo') = 9 /\ todo' # <<>> /\ todo' \in Seq(StageName)
      /\ Follows(StepStages)'
  <2>1. state # "created"
    BY <1>0, InStage, InitializeNext DEF SimInv
  <2>2. state = "ready" /\ Follows(StepStages) /\ Stepping
    BY <1>0, <2>1, InStage
  <2>3. Len(todo) = 10
    BY <1>0, <2>2, InStage, StepNext DEF SimInv
  <2> QED
    BY <1>0, <2>2, <2>3, InStage
<1>2. /\ stepNumber \in Nat /\ positions = stepNumber /\ Len(kicks) = 2 * stepNumber
      /\ acceleration = Field(stepNumber) /\ member = MadeFrom(stepNumber) /\ staged = StagedAt(6, stepNumber + 1)
  BY <1>1 DEF SimInv, Stepping
<1>3. /\ kicks' \in Seq([tree : Int, order : Int, bodies : Int])
      /\ Len(kicks') = 2 * stepNumber + 1
      /\ \A i \in DOMAIN kicks' : kicks'[i] = Field(i \div 2)
  <2>1. kicks' = Append(kicks, Field(stepNumber))
    BY <1>2 DEF UpdatePositions
  <2>2. (Len(kicks) + 1) \div 2 = stepNumber /\ stepNumber \in Int
    BY <1>2
  <2> QED
    BY <1>2, <2>1, <2>2, OneMoreKick
<1>4. staged' = StagedAt(5, stepNumber + 1)
  BY <1>2, StagedNone DEF UpdatePositions
<1>5. Stepping'
  BY <1>1, <1>2, <1>3, <1>4 DEF UpdatePositions, Stepping, MadeFrom
<1> QED
  BY <1>1, <1>3, <1>5 DEF SimInv, UpdatePositions

(* What a structure newly staged adds to what is owned. *)
LEMMA OwnedMore ==
  ASSUME NEW owner, owner = [s \in Slots |-> owner[s]], NEW slot \in Slots, owner[slot] = {}, NEW a
  PROVE  Owned([owner EXCEPT ![slot] = {a}]) = Owned(owner) \cup {a}
<1> DEFINE new == [owner EXCEPT ![slot] = {a}]
<1>1. \A s \in Slots : new[s] = IF s = slot THEN {a} ELSE owner[s]
  OBVIOUS
<1> HIDE DEF new
<1>2. \A x : x \in Owned(new) <=> x \in Owned(owner) \cup {a}
  BY <1>1, OwnedElements
<1> QED
  BY <1>2 DEF new

(* How many stages are left before and after the `i'th structure is staged. *)
LEMMA BuildingInitialize ==
  ASSUME NEW i \in 1 .. 5, NEW n, n = 9 - i
  PROVE  /\ n - 3 = 6 - i /\ n # 9 /\ n >= 3
         /\ (n - 1) - 3 = 5 - i /\ n - 1 # 9 /\ n - 1 >= 3 /\ n - 1 # 1
OBVIOUS

LEMMA BuildingStep ==
  ASSUME NEW i \in 1 .. 5, NEW n, n = 10 - i
  PROVE  /\ n - 4 = 6 - i /\ n # 10 /\ n # 1 /\ n >= 4
         /\ (n - 1) - 4 = 5 - i /\ n - 1 # 10 /\ n - 1 # 1 /\ n - 1 >= 4 /\ ~(n - 1 <= 2)
OBVIOUS

LEMMA SimStageStructure ==
  ASSUME SimInv, NEW slot \in Spatial, StageStructure(slot) PROVE SimInv'
<1>0. Stage(slot)
  BY DEF StageStructure
<1>1. PICK i \in 1 .. 5 : slot = SpatialStages[i]
  BY SlotList
<1>2. /\ state \in {"created", "ready"} /\ todo # <<>> /\ Head(todo) = slot
      /\ todo' \in Seq(StageName) /\ Len(todo') = Len(todo) - 1 /\ Len(todo) \in Nat \ {0}
      /\ Len(todo) = 1 <=> todo' = <<>>
      /\ state = "created" => Initializing /\ Follows(InitializeStages) /\ (todo' # <<>> => Follows(InitializeStages)')
      /\ state = "ready" => Stepping /\ Follows(StepStages) /\ (todo' # <<>> => Follows(StepStages)')
  <2> HIDE DEF Follows
  <2> QED
    BY <1>0, InStage
<1>3. state = "created" => Len(todo) = 9 - i
  BY <1>1, <1>2, InitializeNext DEF SimInv
<1>4. state = "ready" => Len(todo) = 10 - i
  BY <1>1, <1>2, StepNext DEF SimInv
<1>5. todo' # <<>>
  BY <1>2, <1>3, <1>4
<1>6. staged = StagedAt(6 - i, positions) /\ positions \in Nat
  <2>1. CASE state = "created"
    <3>1. Len(todo) - 3 = 6 - i
      BY <1>3, <2>1
    <3> QED
      BY <1>2, <2>1, <3>1 DEF Initializing
  <2>2. CASE state = "ready"
    <3>1. Len(todo) - 4 = 6 - i /\ Len(todo) # 10 /\ stepNumber \in Nat
      BY <1>4, <2>2, BuildingStep DEF SimInv
    <3>2. positions = stepNumber + 1
      BY <1>2, <2>2, <3>1 DEF Stepping
    <3> QED
      BY <1>2, <2>2, <3>1, <3>2 DEF Stepping
  <2> QED
    BY <1>2, <2>1, <2>2
<1>7. staged' = StagedAt(5 - i, positions)
  BY <1>1, <1>6, StagedOne DEF StageStructure, Allocated
<1>8. staged[slot] = {} /\ staged = [s \in Slots |-> staged[s]] /\ slot \in Slots
  <2>1. ~\E j \in 1 .. 5 : slot = SpatialStages[j] /\ 0 <= 6 - i /\ j <= 5 - (6 - i)
    BY <1>1, SlotList
  <2>2. slot \in Slots
    BY SlotList, <1>1
  <2> QED
    BY <1>6, <2>1, <2>2 DEF StagedAt, SimInv
<1>9. Owned(staged') = Owned(staged) \cup Allocated(slot)
  BY <1>8, OwnedMore DEF StageStructure, Allocated
<1>10. live' = Owned(member') \cup Owned(staged') /\ member' = [s \in Slots |-> member'[s]]
  BY <1>9 DEF StageStructure, SimInv
<1>11. staged' = [s \in Slots |-> staged'[s]]
  BY <1>7 DEF StagedAt
<1>12. CASE state = "created"
  <2>1. Len(todo') - 3 = 5 - i /\ Len(todo') # 9 /\ Len(todo') >= 3 /\ Len(todo') # 1
    BY <1>2, <1>3, <1>12, BuildingInitialize
  <2>2. Len(todo) # 9 /\ Len(todo) >= 3
    BY <1>3, <1>12, BuildingInitialize
  <2>3. member' = DeviceStateOnly /\ positions = 0
    BY <1>2, <1>12, <2>2 DEF StageStructure, Initializing
  <2>4. Initializing'
    BY <1>2, <1>5, <1>7, <1>12, <2>1, <2>3 DEF StageStructure, Initializing
  <2> QED
    BY <1>2, <1>5, <1>10, <1>11, <1>12, <2>4 DEF StageStructure, SimInv
<1>13. CASE state = "ready"
  <2>1. Len(todo') - 4 = 5 - i /\ Len(todo') # 10 /\ Len(todo') # 1 /\ Len(todo') >= 4 /\ ~(Len(todo') <= 2)
    BY <1>2, <1>4, <1>13, BuildingStep
  <2>2. Len(todo) # 10 /\ Len(todo) # 1 /\ Len(todo) >= 4
    BY <1>4, <1>13, BuildingStep
  <2>3. /\ acceleration = Field(stepNumber) /\ positions = stepNumber + 1 /\ Len(kicks) = 2 * stepNumber + 1
        /\ member = MadeFrom(stepNumber)
    BY <1>2, <1>13, <2>2 DEF Stepping
  <2>4. Stepping'
    BY <1>2, <1>5, <1>7, <1>13, <2>1, <2>3 DEF StageStructure, Stepping, MadeFrom
  <2> QED
    BY <1>2, <1>5, <1>10, <1>11, <1>13, <2>4 DEF StageStructure, SimInv
<1> QED
  BY <1>2, <1>12, <1>13

LEMMA OwnedMadeFrom ==
  ASSUME NEW p
  PROVE  /\ Owned(MadeFrom(p)) = {<<"deviceState", 0>>} \cup UNION {StagedAt(0, p)[s] : s \in Spatial}
         /\ Owned(StagedAt(0, p)) = UNION {StagedAt(0, p)[s] : s \in Spatial}
         /\ Owned(StagedAt(0, p)) = {<<s, p>> : s \in Spatial}
<1>1. \A s \in Spatial : StagedAt(0, p)[s] = {<<s, p>>} /\ MadeFrom(p)[s] = {<<s, p>>}
  BY StagedAll, SlotList DEF MadeFrom, Slots
<1>2. StagedAt(0, p)["deviceState"] = {} /\ MadeFrom(p)["deviceState"] = {<<"deviceState", 0>>}
  BY StagedAll, SlotList DEF MadeFrom
<1>3. \A s \in Slots : s = "deviceState" \/ s \in Spatial
  BY SlotList
<1>4. \A x : x \in Owned(MadeFrom(p)) <=> x = <<"deviceState", 0>> \/ \E s \in Spatial : x = <<s, p>>
  BY <1>1, <1>2, <1>3, OwnedElements, SlotList DEF Slots
<1>5. \A x : x \in Owned(StagedAt(0, p)) <=> \E s \in Spatial : x = <<s, p>>
  BY <1>1, <1>2, <1>3, OwnedElements, SlotList DEF Slots
<1>6. \A x : x \in UNION {StagedAt(0, p)[s] : s \in Spatial} <=> \E s \in Spatial : x = <<s, p>>
  BY <1>1
<1> HIDE DEF Spatial, Slots
<1> QED
  BY <1>4, <1>5, <1>6

(* Committing structures made elsewhere: what was committed before is freed, and only that. *)
LEMMA CommitTo ==
  ASSUME SimInv, CommitStaged, NEW p, staged = StagedAt(0, p),
         \/ member = DeviceStateOnly
         \/ \E q : q # p /\ member = MadeFrom(q)
  PROVE  /\ member' = MadeFrom(p) /\ staged' = Nothing
         /\ ~misfreed' /\ live' = Owned(member') \cup Owned(staged')
<1> DEFINE left == MovedFrom(staged, Spatial)
           old == UNION {member[s] : s \in Spatial}
<1>1. Owned(left) = {}
  <2>1. \A s \in Slots : left[s] = {}
    BY StagedAll, SlotList DEF MovedFrom, Slots
  <2> HIDE DEF left
  <2>2. \A x : x \notin Owned(left)
    BY <2>1, OwnedElements
  <2> QED
    BY <2>2
<1>2. member["deviceState"] = {<<"deviceState", 0>>}
  BY SlotList DEF DeviceStateOnly, MadeFrom
<1>3. member' = MadeFrom(p) /\ staged' = Nothing
  BY <1>2, StagedAll, SlotList DEF CommitStaged, MadeFrom
<1>4. live' = live \ old /\ misfreed' = (misfreed \/ ~(old \subseteq live))
  BY <1>1 DEF CommitStaged, Free
<1>5. \A x : x \in Owned(member) <=> x = <<"deviceState", 0>> \/ x \in old
  <2>1. \A x : x \in old <=> \E s \in Spatial : x \in member[s]
    OBVIOUS
  <2>2. \A s \in Slots : s = "deviceState" \/ s \in Spatial
    BY SlotList
  <2>3. \A s \in Spatial : s \in Slots
    BY SlotList
  <2> HIDE DEF old
  <2> QED
    BY <1>2, <2>1, <2>2, <2>3, OwnedElements, SlotList
<1>6. <<"deviceState", 0>> \notin old
  <2>1. \A s \in Spatial : \A x \in member[s] : x[1] # "deviceState"
    BY SlotList DEF DeviceStateOnly, MadeFrom
  <2> QED
    BY <2>1
<1>7. old \cap Owned(staged) = {}
  <2>1. \A x \in Owned(staged) : x[2] = p
    BY OwnedMadeFrom
  <2>2. CASE member = DeviceStateOnly
    BY <2>2, SlotList DEF DeviceStateOnly
  <2>3. ASSUME NEW q, q # p, member = MadeFrom(q) PROVE \A x \in old : x[2] # p
    <3>1. \A s \in Spatial : member[s] = {<<s, q>>}
      BY <2>3, SlotList DEF MadeFrom
    <3> QED
      BY <2>3, <3>1
  <2> QED
    BY <2>1, <2>2, <2>3
<1>8. live = Owned(member) \cup Owned(staged) /\ ~misfreed
  BY DEF SimInv
<1>9. Owned(MadeFrom(p)) = {<<"deviceState", 0>>} \cup Owned(staged)
  BY OwnedMadeFrom
<1> HIDE DEF old
<1>10. live' = {<<"deviceState", 0>>} \cup Owned(staged) /\ ~misfreed'
  BY <1>4, <1>5, <1>6, <1>7, <1>8
<1> QED
  BY <1>3, <1>9, <1>10, OwnedNothing

LEMMA SimCommitStaged == SimInv /\ CommitStaged => SimInv'
<1> SUFFICES ASSUME SimInv, CommitStaged PROVE SimInv'
  OBVIOUS
<1>0. Stage("commit")
  BY DEF CommitStaged
<1>2. /\ state \in {"created", "ready"} /\ todo # <<>> /\ Head(todo) = "commit"
      /\ todo' \in Seq(StageName) /\ Len(todo') = Len(todo) - 1 /\ Len(todo) \in Nat \ {0}
      /\ Len(todo) = 1 <=> todo' = <<>>
      /\ state = "created" => Initializing /\ Follows(InitializeStages) /\ (todo' # <<>> => Follows(InitializeStages)')
      /\ state = "ready" => Stepping /\ Follows(StepStages) /\ (todo' # <<>> => Follows(StepStages)')
  <2> HIDE DEF Follows
  <2> QED
    BY <1>0, InStage
<1>3. CASE state = "created"
  <2>0. Len(todo) = 3
    BY <1>2, <1>3, InitializeNext DEF SimInv
  <2>1. Len(todo) = 3 /\ Len(todo') = 2 /\ todo' # <<>>
    BY <1>2, <2>0
  <2>2. member = DeviceStateOnly /\ staged = StagedAt(0, 0)
    BY <1>2, <1>3, <2>1 DEF Initializing
  <2>3. /\ member' = MadeFrom(0) /\ staged' = Nothing
        /\ ~misfreed' /\ live' = Owned(member') \cup Owned(staged')
    BY <2>2, CommitTo
  <2>4. Initializing'
    <3>1. staged' = StagedAt(Len(todo') - 3, 0)
      BY <2>1, <2>3, StagedNone
    <3>2. ~(Len(todo') = 9) /\ ~(Len(todo') >= 3) /\ ~(Len(todo') = 1)
      BY <2>1
    <3> QED
      BY <1>2, <1>3, <2>1, <2>3, <3>1, <3>2 DEF CommitStaged, Initializing
  <2>5. member' = [s \in Slots |-> member'[s]] /\ staged' = [s \in Slots |-> staged'[s]]
    BY <2>3 DEF MadeFrom, Nothing
  <2> QED
    BY <1>2, <1>3, <2>1, <2>3, <2>4, <2>5 DEF CommitStaged, SimInv
<1>4. CASE state = "ready"
  <2>0. Len(todo) = 4
    BY <1>2, <1>4, StepNext DEF SimInv
  <2>1. Len(todo) = 4 /\ Len(todo') = 3 /\ todo' # <<>>
    BY <1>2, <2>0
  <2>2. /\ member = MadeFrom(stepNumber) /\ staged = StagedAt(0, stepNumber + 1) /\ stepNumber \in Nat
        /\ positions = stepNumber + 1 /\ Len(kicks) = 2 * stepNumber + 1 /\ acceleration = Field(stepNumber)
    BY <1>2, <1>4, <2>1 DEF Stepping, SimInv
  <2>3. /\ member' = MadeFrom(stepNumber + 1) /\ staged' = Nothing
        /\ ~misfreed' /\ live' = Owned(member') \cup Owned(staged')
    <3>1. stepNumber # stepNumber + 1
      BY <2>2
    <3> QED
      BY <2>2, <3>1, CommitTo
  <2>4. Stepping'
    <3>1. staged' = StagedAt(Len(todo') - 4, stepNumber + 1)
      BY <2>1, <2>3, StagedNone
    <3>2. ~(Len(todo') = 10) /\ ~(Len(todo') >= 4) /\ ~(Len(todo') = 1) /\ ~(Len(todo') <= 2)
      BY <2>1
    <3> QED
      BY <1>2, <1>4, <2>1, <2>2, <2>3, <3>1, <3>2 DEF CommitStaged, Stepping
  <2>5. member' = [s \in Slots |-> member'[s]] /\ staged' = [s \in Slots |-> staged'[s]]
    BY <2>3 DEF MadeFrom, Nothing
  <2> QED
    BY <1>2, <1>4, <2>1, <2>3, <2>4, <2>5 DEF CommitStaged, SimInv
<1> QED
  BY <1>2, <1>3, <1>4

LEMMA Sole == ASSUME NEW S, NEW x, S = {x} PROVE (CHOOSE y \in S : TRUE) = x
<1>1. \E y : y \in S
  OBVIOUS
<1>2. (CHOOSE y \in S : TRUE) \in S
  BY <1>1
<1> QED
  BY <1>2

LEMMA SimComputeAccelerations == SimInv /\ ComputeAccelerations => SimInv'
<1> SUFFICES ASSUME SimInv, ComputeAccelerations PROVE SimInv'
  OBVIOUS
<1>0. Stage("accelerate")
  BY DEF ComputeAccelerations
<1>1. \A p : member = MadeFrom(p) => nextAcceleration' = From(p, p, positions)
  <2>1. ASSUME NEW p, member = MadeFrom(p) PROVE MadeAt("octree") = p /\ MadeAt("mortonKeys") = p
    <3>1. member["octree"] = {<<"octree", p>>} /\ member["mortonKeys"] = {<<"mortonKeys", p>>}
      BY <2>1, SlotList DEF MadeFrom
    <3>2. /\ (CHOOSE allocation \in member["octree"] : TRUE) = <<"octree", p>>
          /\ (CHOOSE allocation \in member["mortonKeys"] : TRUE) = <<"mortonKeys", p>>
      BY <3>1, Sole
    <3>3. MadeAt("octree") = <<"octree", p>>[2] /\ MadeAt("mortonKeys") = <<"mortonKeys", p>>[2]
      BY <3>2, Zenon DEF MadeAt
    <3> QED
      BY <3>3
  <2> QED
    BY <2>1 DEF ComputeAccelerations
<1>2. /\ state \in {"created", "ready"} /\ todo # <<>> /\ Head(todo) = "accelerate"
      /\ todo' \in Seq(StageName) /\ Len(todo') = Len(todo) - 1 /\ Len(todo) \in Nat \ {0}
      /\ Len(todo) = 1 <=> todo' = <<>>
      /\ state = "created" => Initializing /\ Follows(InitializeStages) /\ (todo' # <<>> => Follows(InitializeStages)')
      /\ state = "ready" => Stepping /\ Follows(StepStages) /\ (todo' # <<>> => Follows(StepStages)')
  <2> HIDE DEF Follows
  <2> QED
    BY <1>0, InStage
<1>3. CASE state = "created"
  <2>0. Len(todo) = 2
    BY <1>2, <1>3, InitializeNext DEF SimInv
  <2>1. Len(todo) = 2 /\ Len(todo') = 1 /\ todo' # <<>>
    BY <1>2, <2>0
  <2>2. member = MadeFrom(0) /\ staged = Nothing /\ positions = 0
    <3>1. staged = StagedAt(-1, 0) /\ member = MadeFrom(0) /\ positions = 0
      BY <1>2, <1>3, <2>1 DEF Initializing
    <3> QED
      BY <3>1, StagedNone
  <2>3. nextAcceleration' = Field(0)
    BY <1>1, <2>2 DEF Field
  <2>4. Initializing'
    <3>1. staged' = StagedAt(Len(todo') - 3, 0)
      BY <2>1, <2>2, StagedNone DEF ComputeAccelerations
    <3>2. ~(Len(todo') = 9) /\ ~(Len(todo') >= 3)
      BY <2>1
    <3> QED
      BY <1>2, <1>3, <2>1, <2>2, <2>3, <3>1, <3>2 DEF ComputeAccelerations, Initializing
  <2> QED
    BY <1>2, <1>3, <2>1, <2>4 DEF ComputeAccelerations, SimInv
<1>4. CASE state = "ready"
  <2>0. Len(todo) = 3
    BY <1>2, <1>4, StepNext DEF SimInv
  <2>1. Len(todo) = 3 /\ Len(todo') = 2 /\ todo' # <<>>
    BY <1>2, <2>0
  <2>2. /\ member = MadeFrom(stepNumber + 1) /\ staged = Nothing /\ stepNumber \in Nat
        /\ positions = stepNumber + 1 /\ Len(kicks) = 2 * stepNumber + 1 /\ acceleration = Field(stepNumber)
    <3>1. /\ member = MadeFrom(stepNumber + 1) /\ staged = StagedAt(-1, stepNumber + 1) /\ stepNumber \in Nat
          /\ positions = stepNumber + 1 /\ Len(kicks) = 2 * stepNumber + 1 /\ acceleration = Field(stepNumber)
      BY <1>2, <1>4, <2>1 DEF Stepping, SimInv
    <3> QED
      BY <3>1, StagedNone
  <2>3. nextAcceleration' = Field(stepNumber + 1)
    BY <1>1, <2>2 DEF Field
  <2>4. Stepping'
    <3>1. staged' = StagedAt(Len(todo') - 4, stepNumber + 1)
      BY <2>1, <2>2, StagedNone DEF ComputeAccelerations
    <3>2. ~(Len(todo') = 10) /\ ~(Len(todo') >= 4) /\ ~(Len(todo') = 1)
      BY <2>1
    <3> QED
      BY <1>2, <1>4, <2>1, <2>2, <2>3, <3>1, <3>2 DEF ComputeAccelerations, Stepping
  <2> QED
    BY <1>2, <1>4, <2>1, <2>4 DEF ComputeAccelerations, SimInv
<1> QED
  BY <1>2, <1>3, <1>4

LEMMA SimUpdateVelocities == SimInv /\ UpdateVelocities => SimInv'
<1> SUFFICES ASSUME SimInv, UpdateVelocities PROVE SimInv'
  OBVIOUS
<1>0. Stage("updateVelocities")
  BY DEF UpdateVelocities
<1>1. /\ state = "ready" /\ Stepping /\ Follows(StepStages) /\ Len(todo) = 2
      /\ todo # <<>> /\ Len(todo') = 1 /\ todo' # <<>> /\ todo' \in Seq(StageName)
      /\ Follows(StepStages)'
  <2>1. state # "created"
    BY <1>0, InStage, InitializeNext DEF SimInv
  <2>2. state = "ready" /\ Follows(StepStages) /\ Stepping
    BY <1>0, <2>1, InStage
  <2>3. Len(todo) = 2
    BY <1>0, <2>2, InStage, StepNext DEF SimInv
  <2> QED
    BY <1>0, <2>2, <2>3, InStage
<1>2. /\ stepNumber \in Nat /\ positions = stepNumber + 1 /\ Len(kicks) = 2 * stepNumber + 1
      /\ acceleration = Field(stepNumber) /\ member = MadeFrom(stepNumber + 1) /\ staged = Nothing
      /\ nextAcceleration = Field(stepNumber + 1)
  <2>1. staged = StagedAt(-2, stepNumber + 1) /\ stepNumber \in Nat
    BY <1>1 DEF SimInv, Stepping
  <2>2. staged = Nothing
    BY <2>1, StagedNone
  <2> QED
    BY <1>1, <2>1, <2>2 DEF SimInv, Stepping
<1>3. /\ kicks' \in Seq([tree : Int, order : Int, bodies : Int])
      /\ Len(kicks') = 2 * stepNumber + 2
      /\ \A i \in DOMAIN kicks' : kicks'[i] = Field(i \div 2)
  <2>1. kicks' = Append(kicks, Field(stepNumber + 1))
    BY <1>2 DEF UpdateVelocities, AccelerationForKick
  <2>2. (Len(kicks) + 1) \div 2 = stepNumber + 1 /\ stepNumber + 1 \in Int
    BY <1>2
  <2>3. /\ kicks' \in Seq([tree : Int, order : Int, bodies : Int])
        /\ Len(kicks') = Len(kicks) + 1
        /\ \A i \in DOMAIN kicks' : kicks'[i] = Field(i \div 2)
    BY <2>1, <2>2, OneMoreKick
  <2> QED
    BY <1>2, <2>3
<1>4. Stepping'
  <2>1. staged' = StagedAt(Len(todo') - 4, stepNumber + 1)
    BY <1>1, <1>2, StagedNone DEF UpdateVelocities
  <2>2. ~(Len(todo') = 10) /\ ~(Len(todo') >= 4)
    BY <1>1
  <2> QED
    BY <1>1, <1>2, <1>3, <2>1, <2>2 DEF UpdateVelocities, Stepping
<1> QED
  BY <1>1, <1>3, <1>4 DEF SimInv, UpdateVelocities

(* The last stage of a step completes it. *)
LEMMA SimSwapAccelerations == SimInv /\ SwapAccelerations => SimInv'
<1> SUFFICES ASSUME SimInv, SwapAccelerations PROVE SimInv'
  OBVIOUS
<1>0. Stage("swap")
  BY DEF SwapAccelerations
<1>2. /\ state \in {"created", "ready"} /\ todo # <<>> /\ Head(todo) = "swap"
      /\ todo' \in Seq(StageName) /\ Len(todo') = Len(todo) - 1 /\ Len(todo) \in Nat \ {0}
      /\ Len(todo) = 1 <=> todo' = <<>>
      /\ state = "created" => Initializing /\ Follows(InitializeStages) /\ (todo' # <<>> => Follows(InitializeStages)')
      /\ state = "ready" => Stepping /\ Follows(StepStages) /\ (todo' # <<>> => Follows(StepStages)')
  <2> HIDE DEF Follows
  <2> QED
    BY <1>0, InStage
<1>3. CASE state = "created"
  <2>0. Len(todo) = 1
    BY <1>2, <1>3, InitializeNext DEF SimInv
  <2>1. todo' = <<>>
    BY <1>2, <2>0
  <2>2. /\ member = MadeFrom(0) /\ staged = Nothing /\ positions = 0 /\ stepNumber = 0 /\ kicks = <<>>
        /\ nextAcceleration = Field(0)
    <3>1. staged = StagedAt(-2, 0)
      BY <1>2, <1>3, <2>0 DEF Initializing
    <3> QED
      BY <1>2, <1>3, <2>0, <3>1, StagedNone DEF Initializing
  <2>3. state' = "ready" /\ acceleration' = Field(0) /\ stepNumber' = 0 /\ Len(kicks) = 0
    BY <1>3, <2>2 DEF SwapAccelerations
  <2>4. Stepping'
    BY <2>1, <2>2, <2>3 DEF SwapAccelerations, Stepping
  <2> QED
    BY <1>2, <1>3, <2>1, <2>3, <2>4 DEF SwapAccelerations, SimInv
<1>4. CASE state = "ready"
  <2>0. Len(todo) = 1
    BY <1>2, <1>4, StepNext DEF SimInv
  <2>1. todo' = <<>>
    BY <1>2, <2>0
  <2>2. /\ member = MadeFrom(stepNumber + 1) /\ staged = Nothing /\ stepNumber \in Nat
        /\ positions = stepNumber + 1 /\ Len(kicks) = 2 * stepNumber + 2 /\ nextAcceleration = Field(stepNumber + 1)
    <3>1. staged = StagedAt(-3, stepNumber + 1) /\ stepNumber \in Nat
      BY <1>2, <1>4, <2>0 DEF Stepping, SimInv
    <3>2. staged = Nothing
      BY <3>1, StagedNone
    <3>3. member = MadeFrom(stepNumber + 1) /\ positions = stepNumber + 1 /\ nextAcceleration = Field(stepNumber + 1)
      BY <1>2, <1>4, <2>0 DEF Stepping
    <3>4. Len(kicks) = 2 * stepNumber + 2
      BY <1>2, <1>4, <2>0 DEF Stepping
    <3> QED
      BY <3>1, <3>2, <3>3, <3>4
  <2>3. state' = "ready" /\ acceleration' = Field(stepNumber') /\ stepNumber' = stepNumber + 1
    BY <1>4, <2>2 DEF SwapAccelerations
  <2>4. Stepping'
    BY <2>1, <2>2, <2>3 DEF SwapAccelerations, Stepping
  <2>5. stepNumber' \in Nat
    BY <2>2, <2>3
  <2> QED
    BY <1>2, <1>4, <2>1, <2>3, <2>4, <2>5 DEF SwapAccelerations, SimInv
<1> QED
  BY <1>2, <1>3, <1>4

LEMMA OwnedStaged ==
  ASSUME NEW left, NEW p, NEW x \in Owned(StagedAt(left, p)) PROVE x[2] = p /\ x[1] \in Spatial
<1>1. PICK s \in Slots : x \in StagedAt(left, p)[s]
  BY OwnedElements
<1>2. x = <<s, p>> /\ \E i \in 1 .. 5 : s = SpatialStages[i]
  BY <1>1 DEF StagedAt
<1> QED
  BY <1>2, SlotList

(* Nothing is owned by a member and a staged structure. *)
LEMMA OwnedDisjoint == SimInv => Owned(member) \cap Owned(staged) = {}
<1> SUFFICES ASSUME SimInv, NEW x, x \in Owned(member), x \in Owned(staged) PROVE FALSE
  OBVIOUS
<1>1. staged # Nothing
  BY OwnedNothing
<1>2. CASE state = "created"
  <2>0. Initializing
    BY <1>2 DEF SimInv
  <2>1. todo # <<>>
    BY <1>1, <2>0 DEF Initializing
  <2>2. Len(todo) - 3 \in Int /\ Len(todo) \in Nat /\ staged = StagedAt(Len(todo) - 3, 0)
    BY <2>0, <2>1 DEF Initializing, SimInv
  <2>3. Len(todo) >= 3
    BY <1>1, <2>2, StagedNone
  <2>4. member = Nothing \/ member = DeviceStateOnly
    BY <2>0, <2>1, <2>3 DEF Initializing
  <2>5. PICK s \in Slots : x \in member[s]
    BY OwnedElements
  <2>6. x = <<"deviceState", 0>>
    BY <2>4, <2>5 DEF Nothing, DeviceStateOnly
  <2> QED
    BY <2>2, <2>6, OwnedStaged, SlotList
<1>3. CASE state = "ready"
  <2>0. Stepping /\ stepNumber \in Nat
    BY <1>3 DEF SimInv
  <2>1. todo # <<>>
    BY <1>1, <2>0 DEF Stepping
  <2>2. Len(todo) - 4 \in Int /\ Len(todo) \in Nat /\ staged = StagedAt(Len(todo) - 4, stepNumber + 1)
    BY <2>0, <2>1 DEF Stepping, SimInv
  <2>3. Len(todo) >= 4
    BY <1>1, <2>2, StagedNone
  <2>4. member = MadeFrom(stepNumber)
    BY <2>0, <2>1, <2>3 DEF Stepping
  <2>5. PICK s \in Slots : x \in member[s]
    BY OwnedElements
  <2>6. x = <<"deviceState", 0>> \/ x = <<s, stepNumber>>
    BY <2>4, <2>5 DEF MadeFrom
  <2>7. x[2] = stepNumber + 1 /\ x[1] \in Spatial
    BY <2>2, OwnedStaged
  <2>8. x[1] # "deviceState" /\ stepNumber # stepNumber + 1
    BY <2>0, <2>7, SlotList
  <2> QED
    BY <2>6, <2>7, <2>8
<1> QED
  BY <1>1, <1>2, <1>3 DEF SimInv

LEMMA SimInitialize == SimInv /\ Initialize => SimInv'
<1> SUFFICES ASSUME SimInv, Initialize PROVE SimInv'
  OBVIOUS
<1>0. state' = "created" /\ Initializing /\ todo = <<>> /\ todo' = InitializeStages
  BY DEF SimInv, Initialize
<1>1. /\ state' = "created" /\ Initializing /\ todo = <<>> /\ todo' = InitializeStages
      /\ todo' \in Seq(StageName) /\ Len(todo') = 9 /\ todo' # <<>>
  <2>1. todo' \in Seq(StageName) /\ Len(todo') = 9
    BY <1>0, InitializeList
  <2>2. todo' # <<>>
    <3>1. todo' = <<>> => Len(todo') = 0
      OBVIOUS
    <3> QED
      BY <2>1, <3>1
  <2> QED
    BY <1>0, <2>1, <2>2
<1>2. Follows(InitializeStages)'
  BY <1>1 DEF Follows
<1>3. Initializing'
  <2>1. staged' = StagedAt(Len(todo') - 3, 0)
    BY <1>1, StagedNone DEF Initialize, Initializing
  <2> QED
    BY <1>1, <1>2, <2>1 DEF Initialize, Initializing
<1> QED
  BY <1>1, <1>3 DEF SimInv, Initialize

LEMMA SimStep == SimInv /\ Step => SimInv'
<1> SUFFICES ASSUME SimInv, Step PROVE SimInv'
  OBVIOUS
<1>0. state' = "ready" /\ Stepping /\ todo = <<>> /\ todo' = StepStages
  BY DEF SimInv, Step
<1>1. /\ state' = "ready" /\ Stepping /\ todo = <<>> /\ todo' = StepStages
      /\ todo' \in Seq(StageName) /\ Len(todo') = 10 /\ todo' # <<>>
  <2>1. todo' \in Seq(StageName) /\ Len(todo') = 10
    BY <1>0, StepList
  <2>2. todo' # <<>>
    <3>1. todo' = <<>> => Len(todo') = 0
      OBVIOUS
    <3> QED
      BY <2>1, <3>1
  <2> QED
    BY <1>0, <2>1, <2>2
<1>2. Follows(StepStages)'
  BY <1>1 DEF Follows
<1>3. Stepping'
  <2>1. staged' = StagedAt(Len(todo') - 4, stepNumber' + 1)
    BY <1>1, StagedNone DEF Step, Stepping
  <2>2. Len(todo') >= 4 /\ Len(todo') # 1 /\ ~(Len(todo') <= 2)
    BY <1>1
  <2> QED
    BY <1>1, <1>2, <2>1, <2>2 DEF Step, Stepping, MadeFrom, SimInv
<1> QED
  BY <1>1, <1>3 DEF SimInv, Step

LEMMA SimThrow == SimInv /\ Throw => SimInv'
<1> SUFFICES ASSUME SimInv, Throw PROVE SimInv'
  OBVIOUS
<1>1. /\ live = Owned(member) \cup Owned(staged) /\ Owned(member) \cap Owned(staged) = {} /\ ~misfreed
      /\ state' = "failed" /\ todo' = <<>> /\ staged' = Nothing
  BY OwnedDisjoint DEF SimInv, Throw
<1>2. CASE state = "created"
  <2>1. member' = Nothing /\ live' = {} /\ ~misfreed'
    BY <1>1, <1>2 DEF Throw, ReleaseResources, Free
  <2> QED
    BY <1>1, <2>1, OwnedNothing, NoStage DEF SimInv, Throw, Nothing
<1>3. CASE state # "created"
  <2>1. member' = member /\ live' = Owned(member) /\ ~misfreed'
    BY <1>1, <1>3 DEF Throw, Free
  <2> QED
    BY <1>1, <2>1, OwnedNothing, NoStage DEF SimInv, Throw, Nothing
<1> QED
  BY <1>2, <1>3

LEMMA SimDestroy == SimInv /\ Destroy => SimInv'
<1> SUFFICES ASSUME SimInv, Destroy PROVE SimInv'
  OBVIOUS
<1>1. todo = <<>> /\ staged = Nothing /\ staged' = Nothing /\ todo' = <<>> /\ state' = "destroyed"
  BY DEF SimInv, Destroy, Initializing, Stepping
<1>2. live = Owned(member) /\ ~misfreed
  BY <1>1, OwnedNothing DEF SimInv
<1>3. member' = Nothing /\ live' = {} /\ ~misfreed'
  BY <1>2 DEF Destroy, ReleaseResources, Free
<1> QED
  BY <1>1, <1>3, OwnedNothing DEF SimInv, Destroy, Nothing

(* The system takes back everything a killed program held. *)
LEMMA SimKilled ==
  ASSUME SimInv, live' = {}, member' = Nothing, staged' = Nothing, state' = "destroyed", todo' = <<>>,
         UNCHANGED <<stepNumber, kicks, misfreed>>
  PROVE  SimInv'
BY OwnedNothing, NoStage DEF SimInv, Nothing

LEMMA SimUnchanged == SimInv /\ UNCHANGED simVars => SimInv'
<1> SUFFICES ASSUME SimInv, UNCHANGED simVars PROVE SimInv'
  OBVIOUS
<1>1. /\ state' = state /\ stepNumber' = stepNumber /\ todo' = todo /\ positions' = positions
      /\ kicks' = kicks /\ acceleration' = acceleration /\ nextAcceleration' = nextAcceleration
      /\ member' = member /\ staged' = staged /\ live' = live /\ misfreed' = misfreed
  BY DEF simVars
<1>2. Initializing => Initializing'
  BY <1>1 DEF Initializing, Follows
<1>3. Stepping => Stepping'
  BY <1>1 DEF Stepping, Follows
<1> QED
  BY <1>1, <1>2, <1>3 DEF SimInv

LEMMA SimInitially == SimInit => SimInv
<1> SUFFICES ASSUME SimInit PROVE SimInv
  OBVIOUS
<1>1. Initializing
  BY DEF SimInit, Initializing
<1>2. <<>> \in Seq([tree : Int, order : Int, bodies : Int])
  OBVIOUS
<1>3. DOMAIN kicks = {} /\ kicks \in Seq([tree : Int, order : Int, bodies : Int])
  <2>1. DOMAIN <<>> = {}
    OBVIOUS
  <2> QED
    BY <1>2, <2>1 DEF SimInit
<1>4. member = [s \in Slots |-> member[s]] /\ staged = [s \in Slots |-> staged[s]]
  BY DEF SimInit, Nothing
<1>5. live = Owned(member) \cup Owned(staged)
  BY OwnedNothing DEF SimInit
<1>6. state = "created" /\ stepNumber \in Nat /\ todo \in Seq(StageName) /\ ~misfreed
  BY NoStage DEF SimInit
<1> QED
  BY <1>1, <1>3, <1>4, <1>5, <1>6 DEF SimInv

LEMMA SimStages == SimInv /\ Stages => SimInv'
BY SimCreateDeviceState, SimUpdatePositions, SimCommitStaged, SimStageStructure,
   SimComputeAccelerations, SimUpdateVelocities, SimSwapAccelerations DEF Stages

(* What the invariant says of memory and of the leapfrog. *)
LEMMA SimOwned == SimInv => OwnedOnce
BY OwnedDisjoint DEF SimInv, OwnedOnce

LEMMA SimLeapfrog == SimInv => LeapfrogOrder
BY DEF SimInv, Stepping, LeapfrogOrder
----------------------------------------------------------------------------
(* The stage that ends a call is the swap; no other stage changes what main sees. *)
LEMMA LastIsSwap == ASSUME SimInv, todo # <<>>, Len(todo) = 1 PROVE Head(todo) = "swap"
<1>1. todo \in Seq(StageName) /\ Head(todo) = todo[1] /\ 1 \in 1 .. Len(todo)
  BY DEF SimInv
<1>2. Follows(InitializeStages) \/ Follows(StepStages)
  BY DEF SimInv, Initializing, Stepping
<1>3. Follows(InitializeStages) => todo[1] = InitializeStages[9]
  BY <1>1, InitializeList DEF Follows
<1>4. Follows(StepStages) => todo[1] = StepStages[10]
  BY <1>1, StepList DEF Follows
<1> QED
  BY <1>1, <1>2, <1>3, <1>4, InitializeList, StepList

LEMMA StagesSeen ==
  ASSUME SimInv, Stages
  PROVE  /\ todo # <<>> /\ state \in {"created", "ready"}
         /\ \/ todo' # <<>> /\ UNCHANGED <<state, stepNumber>>
            \/ todo' = <<>> /\ state = "created" /\ state' = "ready" /\ stepNumber' = stepNumber
            \/ todo' = <<>> /\ state = "ready" /\ state' = "ready" /\ stepNumber' = stepNumber + 1
<1>1. CASE SwapAccelerations
  <2>1. Stage("swap")
    BY <1>1 DEF SwapAccelerations
  <2>2. todo # <<>> /\ Head(todo) = "swap" /\ state \in {"created", "ready"} /\ (Len(todo) = 1 <=> todo' = <<>>)
    BY <2>1, InStage
  <2>3. Len(todo) = 1
    <3>1. CASE state = "created"
      <4>1. Follows(InitializeStages)
        BY <2>1, <3>1, InStage
      <4> QED
        BY <2>2, <4>1, InitializeNext DEF SimInv
    <3>2. CASE state = "ready"
      <4>1. Follows(StepStages)
        BY <2>1, <3>2, InStage
      <4> QED
        BY <2>2, <4>1, StepNext DEF SimInv
    <3> QED
      BY <2>2, <3>1, <3>2
  <2> QED
    BY <1>1, <2>2, <2>3 DEF SwapAccelerations
<1>2. ASSUME NEW name, name # "swap", Stage(name), UNCHANGED <<state, stepNumber>>
      PROVE  todo # <<>> /\ state \in {"created", "ready"} /\ todo' # <<>>
  BY <1>2, InStage, LastIsSwap
<1>3. CASE CreateDeviceState
  BY <1>2, <1>3 DEF CreateDeviceState
<1>4. CASE UpdatePositions
  BY <1>2, <1>4 DEF UpdatePositions
<1>5. CASE CommitStaged
  BY <1>2, <1>5 DEF CommitStaged
<1>6. ASSUME NEW slot \in Spatial, StageStructure(slot) PROVE todo # <<>> /\ state \in {"created", "ready"} /\ todo' # <<>> /\ UNCHANGED <<state, stepNumber>>
  BY <1>2, <1>6, SpatialList DEF StageStructure
<1>7. CASE ComputeAccelerations
  BY <1>2, <1>7 DEF ComputeAccelerations
<1>8. CASE UpdateVelocities
  BY <1>2, <1>8 DEF UpdateVelocities
<1> QED
  BY <1>1, <1>3, <1>4, <1>5, <1>6, <1>7, <1>8 DEF Stages

----------------------------------------------------------------------------
(* The capture of a frame *)

(* Division rounds down. *)
LEMMA Division ==
  ASSUME NEW a \in Int, NEW b \in Nat \ {0}
  PROVE  a \div b \in Int /\ (a \div b) * b <= a /\ a < (a \div b) * b + b
OBVIOUS

LEMMA Quotient ==
  ASSUME NEW a \in Int, NEW b \in Nat \ {0}, NEW k \in Int, k * b <= a, a < k * b + b
  PROVE  a \div b = k
<1> DEFINE q == a \div b
<1>1. q \in Int /\ q * b <= a /\ a < q * b + b
  BY Division
<1> HIDE DEF q
<1>2. ~(q < k)
  <2>1. ASSUME q + 1 <= k PROVE FALSE
    <3>1. (k - (q + 1)) * b >= 0
      BY <1>1, <2>1
    <3> QED
      BY <1>1, <3>1
  <2> QED
    BY <1>1, <2>1
<1>3. ~(k < q)
  <2>1. ASSUME k + 1 <= q PROVE FALSE
    <3>1. (q - (k + 1)) * b >= 0
      BY <1>1, <2>1
    <3> QED
      BY <1>1, <3>1
  <2> QED
    BY <1>1, <2>1
<1> QED
  BY <1>1, <1>2, <1>3 DEF q

LEMMA Separated ==
  ASSUME NEW a \in Int, NEW b \in Int, NEW n \in Nat \ {0}, NEW m \in Int, a < m * n, m * n <= b
  PROVE  a \div n < m /\ m <= b \div n
OBVIOUS

----------------------------------------------------------------------------
(* Every set of numbers that is not empty has a least one. *)
LEMMA Least ==
  ASSUME NEW T \in SUBSET Nat, T # {}
  PROVE  \E n \in T : \A m \in T : n <= m
<1> DEFINE R == OpToRel(<, Nat)
<1>1. IsWellFoundedOn(R, Nat)
  BY NatLessThanWellFounded
<1>2. \A x, y \in Nat : x < y => <<x, y>> \in R
  BY DEF OpToRel
<1> HIDE DEF R
<1>3. PICK n \in T : \A m \in T : ~(<<m, n>> \in R)
  BY <1>1, WFMin
<1>4. \A m \in T : ~(m < n)
  BY <1>2, <1>3, Zenon
<1> QED
  BY <1>4

(* Of the first of some numbers, one is smallest and one is largest. *)
LEMMA Extremes ==
  ASSUME NEW f, NEW size \in Nat \ {0}, \A i \in 0 .. size - 1 : f[i] \in Int
  PROVE  \E a, b \in 0 .. size - 1 : \A i \in 0 .. size - 1 : f[a] <= f[i] /\ f[i] <= f[b]
<1> DEFINE Bounded(n) ==
             \E a, b \in 0 .. n - 1 : \A i \in 0 .. n - 1 : f[a] <= f[i] /\ f[i] <= f[b]
           T == {n \in 1 .. size : ~Bounded(n)}
<1>1. SUFFICES ASSUME T # {} PROVE FALSE
  <2>1. size \in 1 .. size
    OBVIOUS
  <2> QED
    BY <2>1
<1>2. PICK n \in T : \A m \in T : n <= m
  <2>1. T \in SUBSET Nat
    OBVIOUS
  <2> HIDE DEF T
  <2> QED
    BY <1>1, <2>1, Least
<1>3. n # 1
  <2>1. Bounded(1)
    <3>1. \A i \in 0 .. 0 : i = 0 /\ f[i] \in Int
      OBVIOUS
    <3> QED
      BY <3>1
  <2> QED
    BY <1>2, <2>1
<1>4. n - 1 \in 1 .. size /\ n \in 1 .. size /\ ~(n <= n - 1)
  BY <1>2, <1>3
<1>5. Bounded(n - 1)
  <2> HIDE DEF Bounded
  <2> QED
    BY <1>2, <1>4
<1>6. PICK a, b \in 0 .. n - 2 : \A i \in 0 .. n - 2 : f[a] <= f[i] /\ f[i] <= f[b]
  <2>1. n - 1 - 1 = n - 2
    BY <1>4
  <2> QED
    BY <1>5, <2>1
<1> DEFINE low == IF f[n - 1] < f[a] THEN n - 1 ELSE a
           high == IF f[b] < f[n - 1] THEN n - 1 ELSE b
<1>7. /\ low \in 0 .. n - 1 /\ high \in 0 .. n - 1
      /\ f[a] \in Int /\ f[b] \in Int /\ f[n - 1] \in Int
  BY <1>4
<1>8. f[low] <= f[a] /\ f[low] <= f[n - 1] /\ f[b] <= f[high] /\ f[n - 1] <= f[high]
      /\ f[low] \in Int /\ f[high] \in Int
  BY <1>7
<1>9. ASSUME NEW i \in 0 .. n - 1 PROVE f[low] <= f[i] /\ f[i] <= f[high]
  <2> HIDE DEF low, high
  <2>1. CASE i = n - 1
    BY <1>8, <2>1
  <2>2. CASE i \in 0 .. n - 2
    <3>1. f[a] <= f[i] /\ f[i] <= f[b] /\ f[i] \in Int
      BY <1>4, <1>6, <2>2
    <3> QED
      BY <1>7, <1>8, <3>1
  <2> QED
    BY <1>4, <2>1, <2>2
<1>10. Bounded(n)
  <2> HIDE DEF low, high
  <2> QED
    BY <1>7, <1>9
<1> QED
  BY <1>2, <1>10
LEMMA MinOf ==
  ASSUME NEW S, NEW x \in S, \A y \in S : x =< y
  PROVE  Min(S) \in S /\ \A y \in S : Min(S) =< y
BY DEF Min

LEMMA MaxOf ==
  ASSUME NEW S, NEW x \in S, \A y \in S : x >= y
  PROVE  Max(S) \in S /\ \A y \in S : Max(S) >= y
BY DEF Max

(* A frame's bounds are samples, and hold them all. *)
LEMMA SampleBounds ==
  ASSUME NEW samples, NEW size \in Nat \ {0}, DOMAIN samples = 0 .. size - 1,
         \A i \in 0 .. size - 1 : samples[i] \in Int
  PROVE  /\ PositionBounds(samples).minimum \in Int /\ PositionBounds(samples).maximum \in Int
         /\ PositionBounds(samples).minimum <= PositionBounds(samples).maximum
         /\ \A i \in 0 .. size - 1 : /\ PositionBounds(samples).minimum <= samples[i]
                                     /\ samples[i] <= PositionBounds(samples).maximum
<1> DEFINE S == Range(samples)
<1>1. PICK a, b \in 0 .. size - 1 : \A i \in 0 .. size - 1 : samples[a] <= samples[i] /\ samples[i] <= samples[b]
  BY Extremes
<1>2. S \subseteq Int /\ samples[a] \in S /\ samples[b] \in S /\ \A i \in 0 .. size - 1 : samples[i] \in S
  BY DEF Range
<1>3. \A y \in S : samples[a] <= y /\ samples[b] >= y
  BY <1>1 DEF Range
<1> HIDE DEF S
<1>4. Min(S) \in S /\ \A y \in S : Min(S) <= y
  BY <1>2, <1>3, MinOf
<1>5. Max(S) \in S /\ \A y \in S : Max(S) >= y
  BY <1>2, <1>3, MaxOf
<1>6. PositionBounds(samples).minimum = Min(S) /\ PositionBounds(samples).maximum = Max(S)
  BY DEF PositionBounds, S
<1> QED
  BY <1>2, <1>4, <1>5, <1>6

----------------------------------------------------------------------------
(* The particle a sample shows, however the samples are cut into chunks. *)
LEMMA GatheredAt ==
  ASSUME NEW array, NEW count \in Nat \ {0}, NEW size \in Nat \ {0}, NEW i \in 0 .. size - 1
  PROVE  Gathered(array, count, size)[i] = array[(i * count) \div size]
<1> DEFINE k == i % kFrameChunkParticles
<1>1. k \in Int
  BY CaptureAssumption
<1> HIDE DEF k
<1>2. i - k + k = i
  BY <1>1
<1>3. Gathered(array, count, size)[i] = array[SourceIndex(i - k, k, count, size)]
  BY DEF Gathered, k
<1> QED
  BY <1>2, <1>3 DEF SourceIndex, SampleIndex

LEMMA MaximumOrAll ==
  ASSUME NEW count \in Nat \ {0}, NEW maximum \in Nat
  PROVE  SampleSize(count, maximum) \in Nat \ {0} /\ SampleSize(count, maximum) <= count
<1>1. CASE maximum = 0
  BY <1>1 DEF SampleSize
<1>2. CASE maximum # 0
  <2> DEFINE x == IF count <= maximum THEN count ELSE maximum
  <2>1. x \in {count, maximum} /\ \A y \in {count, maximum} : x <= y
    OBVIOUS
  <2> HIDE DEF x
  <2>2. Min({count, maximum}) \in {count, maximum} /\ \A y \in {count, maximum} : Min({count, maximum}) <= y
    BY <2>1, MinOf
  <2> QED
    BY <1>2, <2>2 DEF SampleSize
<1> QED
  BY <1>1, <1>2

(* The samples are spread evenly over the particles, the first among them. *)
LEMMA Evenly ==
  ASSUME NEW count \in Nat \ {0}, NEW size \in Nat \ {0}, size <= count
  PROVE  /\ EvenlySpaced([i \in 0 .. size - 1 |-> (i * count) \div size], count, size)
         /\ \A i \in 0 .. size - 1 : (i * count) \div size \in 0 .. count - 1
<1> DEFINE shown == [i \in 0 .. size - 1 |-> (i * count) \div size]
           Shown(i) == (i * count) \div size
<1>1. Shown(0) = 0
  BY Quotient
<1>2. ASSUME NEW i \in 0 .. size - 1 PROVE Shown(i) \in 0 .. count - 1
  <2>1. i * count \in Nat /\ i * count < size * count /\ size * count = count * size
    <3>1. (size - i) * count > 0
      OBVIOUS
    <3> QED
      BY <3>1
  <2>2. Shown(i) \in Int /\ Shown(i) * size <= i * count /\ i * count < Shown(i) * size + size
    BY <2>1, Division
  <2>3. Shown(i) < count
    <3>1. ASSUME Shown(i) >= count PROVE FALSE
      <4> DEFINE q == Shown(i)
      <4>1. q \in Int /\ q >= count /\ q * size <= i * count
        BY <2>2, <3>1
      <4> HIDE DEF q
      <4>2. (q - count) * size >= 0
        BY <4>1
      <4> QED
        BY <2>1, <4>1, <4>2
    <3> QED
      BY <2>2, <3>1
  <2>4. Shown(i) >= 0
    <3> DEFINE q == Shown(i)
    <3>1. q \in Int /\ i * count < q * size + size /\ i * count \in Nat
      BY <2>1, <2>2
    <3> HIDE DEF q
    <3>2. ASSUME q <= -1 PROVE FALSE
      <4>1. (-1 - q) * size >= 0
        BY <3>1, <3>2
      <4> QED
        BY <3>1, <4>1
    <3> QED
      BY <3>1, <3>2 DEF q
  <2> QED
    BY <2>2, <2>3, <2>4
<1>3. ASSUME NEW i \in 1 .. size - 1
      PROVE  Shown(i) - Shown(i - 1) \in {count \div size, count \div size + 1}
  <2> DEFINE a == (i - 1) * count
             p == a \div size
             q == count \div size
  <2>1. a \in Int /\ i * count = a + count
    OBVIOUS
  <2> HIDE DEF a
  <2>2. p \in Int /\ p * size <= a /\ a < p * size + size
    BY <2>1, Division
  <2>3. q \in Int /\ q * size <= count /\ count < q * size + size
    BY Division
  <2> HIDE DEF p, q
  <2>4. (p + q) * size = p * size + q * size /\ (p + q + 1) * size = p * size + q * size + size
        /\ p * size \in Int /\ q * size \in Int
    BY <2>2, <2>3
  <2>5. CASE a + count < (p + q + 1) * size
    <3>1. (a + count) \div size = p + q
      <4>1. (p + q) * size <= a + count /\ a + count < (p + q) * size + size
        BY <2>1, <2>2, <2>3, <2>4, <2>5
      <4> QED
        BY <2>1, <2>2, <2>3, <4>1, Quotient
    <3> QED
      BY <2>1, <2>2, <2>3, <3>1 DEF p, q, a
  <2>6. CASE ~(a + count < (p + q + 1) * size)
    <3>1. (a + count) \div size = p + q + 1
      <4>1. (p + q + 1) * size <= a + count /\ a + count < (p + q + 1) * size + size
        BY <2>1, <2>2, <2>3, <2>4, <2>6
      <4> QED
        BY <2>1, <2>2, <2>3, <4>1, Quotient
    <3> QED
      BY <2>1, <2>2, <2>3, <3>1 DEF p, q, a
  <2> QED
    BY <2>5, <2>6
<1>4. \A i \in 0 .. size - 1 : shown[i] = Shown(i)
  OBVIOUS
<1> HIDE DEF shown, Shown
<1>5. EvenlySpaced(shown, count, size)
  <2>1. 0 \in 0 .. size - 1 /\ size - 1 \in 0 .. size - 1 /\ \A i \in 1 .. size - 1 : i \in 0 .. size - 1 /\ i - 1 \in 0 .. size - 1
    OBVIOUS
  <2>2. shown[0] = 0 /\ shown[size - 1] < count
    BY <1>1, <1>2, <1>4, <2>1
  <2>3. \A i \in 1 .. size - 1 : shown[i] - shown[i - 1] \in {count \div size, count \div size + 1}
    BY <1>3, <1>4, <2>1
  <2> QED
    BY <2>2, <2>3 DEF EvenlySpaced
<1> QED
  BY <1>2, <1>5 DEF shown, Shown

(* A position is off by half a quantum at most. *)
LEMMA HalfQuantum ==
  ASSUME NEW low \in Int, NEW high \in Int, NEW p \in Int, low <= p, p <= high,
         NEW bounds, bounds.minimum = low, bounds.maximum = high
  PROVE  2 * Distance(low * kQuantizedPositionMaximum + (high - low) * quantizePosition(p, bounds),
                      p * kQuantizedPositionMaximum) <= high - low
<1> DEFINE K == kQuantizedPositionMaximum
           r == high - low
           x == (p - low) * K
           n == 2 * (p - low) * K + r
<1>1. K \in Nat \ {0} /\ r \in Nat /\ x \in Int /\ n = 2 * x + r /\ p * K = low * K + x
      /\ low * K \in Int /\ p * K \in Int
  BY CaptureAssumption
<1>2. CASE r = 0
  <2>1. p = low /\ quantizePosition(p, bounds) = 0
    BY <1>2 DEF quantizePosition
  <2> QED
    BY <1>1, <1>2, <2>1 DEF Distance
<1>3. CASE r # 0
  <2> DEFINE q == n \div (2 * r)
  <2>1. quantizePosition(p, bounds) = q
    BY <1>3 DEF quantizePosition
  <2>2. n \in Int /\ 2 * r \in Nat \ {0}
    BY <1>1, <1>3
  <2> HIDE DEF n, r, x, K
  <2>3. q \in Int /\ q * (2 * r) <= n /\ n < q * (2 * r) + 2 * r
    BY <2>2, Division
  <2> HIDE DEF q
  <2> DEFINE y == r * q
  <2>4. y \in Int /\ q * (2 * r) = 2 * y
    BY <1>1, <2>3
  <2> HIDE DEF y
  <2>5. 2 * y <= 2 * x + r /\ 2 * x + r < 2 * y + 2 * r
    BY <1>1, <2>3, <2>4
  <2>6. 2 * Distance(low * K + y, p * K) <= r
    BY <1>1, <2>4, <2>5 DEF Distance
  <2> QED
    BY <2>1, <2>6 DEF r, y, K
<1> QED
  BY <1>2, <1>3

(* A frame is what its reader demands, and shows the particles it was taken from. *)
THEOREM FaithfulFrame ==
  ASSUME NEW places, NEW types, NEW count \in Nat \ {0}, NEW maximum \in Nat,
         \A i \in 0 .. count - 1 : places[i] \in Int
  PROVE  LET size == SampleSize(count, maximum)
             frame == Quantized(places, Gathered(types, count, size), count, size)
         IN /\ Consistent(frame) /\ Shows(frame, places, types)
            /\ frame.sourceParticleCount = count /\ frame.particleCount = size
<1> DEFINE size == SampleSize(count, maximum)
           samples == Gathered(places, count, size)
           sampled == Gathered(types, count, size)
           bounds == PositionBounds(samples)
           frame == Quantized(places, sampled, count, size)
           shown == [i \in 0 .. size - 1 |-> (i * count) \div size]
<1>1. size \in Nat \ {0} /\ size <= count
  BY MaximumOrAll
<1> HIDE DEF size
<1>2. /\ EvenlySpaced(shown, count, size)
      /\ \A i \in 0 .. size - 1 : shown[i] \in 0 .. count - 1
  BY <1>1, Evenly
<1>3. ASSUME NEW i \in 0 .. size - 1
      PROVE  samples[i] = places[shown[i]] /\ sampled[i] = types[shown[i]] /\ samples[i] \in Int
  <2>1. shown[i] = (i * count) \div size
    OBVIOUS
  <2>2. samples[i] = places[(i * count) \div size] /\ sampled[i] = types[(i * count) \div size]
    BY <1>1, GatheredAt
  <2> QED
    BY <1>2, <2>1, <2>2
<1>4. DOMAIN samples = 0 .. size - 1 /\ DOMAIN sampled = 0 .. size - 1
  BY DEF Gathered
<1> HIDE DEF samples, sampled, shown
<1>5. /\ bounds.minimum \in Int /\ bounds.maximum \in Int /\ bounds.minimum <= bounds.maximum
      /\ \A i \in 0 .. size - 1 : bounds.minimum <= samples[i] /\ samples[i] <= bounds.maximum
  BY <1>1, <1>3, <1>4, SampleBounds
<1> HIDE DEF bounds
<1>6. /\ frame.sourceParticleCount = count /\ frame.particleCount = size /\ frame.bounds = bounds
      /\ frame.particleTypeBytes = size /\ frame.payloadBytes = PositionBytes(size) + size
      /\ frame.types = sampled
      /\ DOMAIN frame.positions = 0 .. size - 1
      /\ \A i \in 0 .. size - 1 : frame.positions[i] = quantizePosition(samples[i], bounds)
  BY DEF Quantized, samples, bounds
<1> HIDE DEF frame
<1>7. Consistent(frame)
  <2>1. Cardinality(0 .. size - 1) = size
    BY <1>1, FS_Interval
  <2> QED
    BY <1>1, <1>4, <1>5, <1>6, <2>1 DEF Consistent
<1>8. ASSUME NEW i \in 0 .. size - 1
      PROVE  /\ 2 * Distance(Decoded(frame, i), places[shown[i]] * kQuantizedPositionMaximum)
                  <= frame.bounds.maximum - frame.bounds.minimum
             /\ frame.types[i] = types[shown[i]]
  <2>1. Decoded(frame, i) = bounds.minimum * kQuantizedPositionMaximum
          + (bounds.maximum - bounds.minimum) * quantizePosition(samples[i], bounds)
    BY <1>6 DEF Decoded
  <2>2. 2 * Distance(Decoded(frame, i), samples[i] * kQuantizedPositionMaximum)
          <= bounds.maximum - bounds.minimum
    BY <1>3, <1>5, <2>1, HalfQuantum
  <2> QED
    BY <1>3, <1>6, <2>2
<1>9. Shows(frame, places, types)
  BY <1>2, <1>6, <1>8 DEF Shows, shown
<1> QED
  BY <1>6, <1>7, <1>9 DEF frame, size, sampled

----------------------------------------------------------------------------
(* The invariants of the program *)

(* Where main stands says what the simulation is ready for and how many steps it has done. *)
Start == {"open", "fork", "startup", "load", "writer", "initialize"}
Between == {"capture", "loop", "write", "publish"}
Writing == {"write", "publish"}

MainInv ==
  /\ options \in Options /\ file \in InputFiles /\ motion \in Motions
  /\ pc \in Start \cup {"simulate"} \cup Between \cup Over
  /\ pc \in Start => state = "created" /\ todo = <<>>
  /\ pc = "simulate" => (state = "created" /\ todo # <<>>) \/ state = "ready"
  /\ pc \in Between => state = "ready" /\ todo = <<>>
  /\ stepNumber <= options.steps
  /\ pc = "simulate" /\ state = "ready" /\ todo # <<>> => stepNumber < options.steps
  /\ pc \in Writing \cup {"writer", "capture"} => options.streaming
  /\ exitCode # Never => pc \in Over

(* A number is drawn for each frame, the first for the initial state; what is marked is done. *)
NumberInv ==
  /\ sequence \in Nat /\ marker \in BOOLEAN
  /\ sequence > 0 => options.streaming
  /\ state = "created" => sequence = 0
  /\ sequence = 0 => lastCapturedStep = Never
  /\ pc \in Writing => sequence > 0
  /\ pc = "loop" /\ options.streaming => sequence > 0
  /\ pc = "simulate" /\ todo # <<>> /\ state = "ready" /\ options.streaming => sequence > 0
  /\ pc \in Writing /\ sequence = 1 => stepNumber = 0
  /\ pc \in {"simulate", "capture"} /\ sequence = 0 /\ options.streaming => stepNumber = 0
  /\ lastCapturedStep \in Nat \cup {Never} /\ lastCapturedStep <= stepNumber
  /\ pc \in Writing \cup {"capture"} => lastCapturedStep < stepNumber
  /\ pc = "simulate" /\ todo = <<>> => lastCapturedStep < stepNumber
  /\ marker => /\ options.streaming /\ pc \in Over
               /\ stepNumber = options.steps /\ lastCapturedStep = options.steps
  /\ exitCode = 0 /\ options.streaming => marker

(* The frames published are those whose numbers were drawn, of ever later steps. *)
SpoolInv ==
  /\ spool \in Seq(Range(spool))
  /\ pc \notin Over \cup Writing => sequence = Len(spool)
  /\ pc \in Writing => sequence = Len(spool) + 1
  /\ pc \in Over => Len(spool) <= sequence
  /\ lastCapturedStep = IF spool = <<>> THEN Never ELSE spool[Len(spool)].simulationStep
  /\ Len(spool) <= lastCapturedStep + 1
  /\ spool # <<>> => spool[1].simulationStep = 0
  /\ \A i \in DOMAIN spool : spool[i].sequence = i - 1
  /\ \A i \in DOMAIN spool : i > 1 => spool[i - 1].simulationStep < spool[i].simulationStep
  /\ pc \notin {"publish", "killed"} => part = {}
  /\ pc = "publish" =>
       \E frame \in part :
         part = {frame} /\ frame.simulationStep = stepNumber /\ frame.sequence = sequence - 1

(* The sampler: the next frame is due at the start of an interval that is still to come. *)
ClockInv ==
  /\ clock \in Nat /\ nextSampleTime \in Nat
  /\ nextSampleTime = (nextSampleTime \div Interval) * Interval
  /\ sequence = 0 => nextSampleTime = 0
  /\ sequence > 0 => clock < nextSampleTime

(* A frame that is not forced falls into an interval no frame before it fell into. *)
IntervalInv ==
  /\ \A i \in DOMAIN spool : spool[i].time \in Nat /\ spool[i].time < nextSampleTime
  /\ pc \in Writing /\ ~forced =>
       \A i \in DOMAIN spool : spool[i].time \div Interval < clock \div Interval
  /\ pc = "publish" => \A frame \in part : frame.time = clock /\ frame.forced = forced
  /\ OncePerInterval

(* What is in the spool was taken from the particles at the steps it names. *)
Taken(step) == Quantized(motion[step], Gathered(Types, Count, FrameSize), Count, FrameSize)
ContentInv ==
  /\ pc \notin {"open", "fork", "startup", "load"} \cup Over => Count > 0
  /\ pc \notin {"open", "fork", "startup", "load", "writer"} \cup Over /\ options.streaming =>
       sampledTypes = Gathered(Types, Count, FrameSize)
  /\ spool # <<>> => Count > 0
  /\ pc = "publish" => \A frame \in part : frame.content = Taken(stepNumber)
  /\ \A i \in DOMAIN spool :
       spool[i].simulationStep \in 0 .. options.steps /\ spool[i].content = Taken(spool[i].simulationStep)

(* The server's process: whoever ends has waited for it. *)
ServerInv ==
  pc = "exited" => child \in {"none", "reaped"}

----------------------------------------------------------------------------
(* The simulation within the program. *)

LEMMA SimNext == SimInv /\ [Next]_vars => SimInv'
<1> SUFFICES ASSUME SimInv, [Next]_vars PROVE SimInv'
  OBVIOUS
<1>1. CASE UNCHANGED simVars
  BY <1>1, SimUnchanged
<1>2. CASE Initialize
  BY <1>2, SimInitialize
<1>3. CASE Step
  BY <1>3, SimStep
<1>4. CASE Stages
  BY <1>4, SimStages
<1>5. CASE Throw
  BY <1>5, SimThrow
<1>6. CASE Destroy
  BY <1>6, SimDestroy
<1>7. CASE Kill
  BY <1>7, SimKilled DEF Kill
<1>8. UNCHANGED vars => UNCHANGED simVars
  BY DEF vars
<1>9. Main => \/ UNCHANGED simVars \/ Initialize \/ Step \/ Stages \/ Throw \/ Destroy
  BY DEF Main, OpenSpool, ForkServer, StartupOver, StartupFailed, LoadParticles, CreateWriter,
     CallInitialize, CallStep, Simulate, Simulated, SimulationThrows, NotDue, Due, ForceLast,
     WriteFrame, PublishFrame, MarkComplete, Fail, Unwind, StopServer, PollServer, ReapServer
<1>10. ServerEnds => UNCHANGED simVars
  BY DEF ServerEnds
<1> QED
  BY <1>1, <1>2, <1>3, <1>4, <1>5, <1>6, <1>7, <1>8, <1>9, <1>10 DEF Next

LEMMA SimInvariant == Spec => []SimInv
<1>1. Init => SimInv
  BY SimInitially DEF Init
<1> QED
  BY <1>1, SimNext, PTL DEF Spec

(* No allocation is leaked, shared or freed twice, wherever a call throws. *)
THEOREM Memory == Spec => []OwnedOnce
BY SimInvariant, SimOwned, PTL

(* The half kicks are leapfrog's, each by accelerations of one set of positions. *)
THEOREM Leapfrog == Spec => []LeapfrogOrder
BY SimInvariant, SimLeapfrog, PTL

----------------------------------------------------------------------------
(* Where main stands. *)

LEMMA MainNext == SimInv /\ MainInv /\ [Next]_vars => MainInv'
<1> SUFFICES ASSUME SimInv, MainInv, [Next]_vars PROVE MainInv'
  OBVIOUS
<1> USE DEF Start, Between, Writing, Over, Ended, inputs
<1>t. /\ options.steps \in Nat \ {0} /\ stepNumber \in Nat /\ (options.cluster => options.streaming)
  BY ProgramAssumption DEF MainInv, SimInv
<1>1. CASE OpenSpool
  BY <1>1 DEF OpenSpool, MainInv, simVars, mainVars
<1>2. CASE ForkServer
  BY <1>2 DEF ForkServer, MainInv, simVars, mainVars
<1>3. CASE StartupOver
  BY <1>3 DEF StartupOver, MainInv, simVars, mainVars
<1>4. CASE StartupFailed
  BY <1>4 DEF StartupFailed, MainInv, simVars, mainVars
<1>5. CASE LoadParticles
  BY <1>5 DEF LoadParticles, MainInv, simVars, mainVars
<1>6. CASE CreateWriter
  BY <1>6 DEF CreateWriter, MainInv, simVars, mainVars
<1>7. CASE CallInitialize
  BY <1>7, InitializeSome DEF CallInitialize, Initialize, MainInv, mainVars
<1>8. CASE CallStep
  BY <1>8, <1>t, StepList DEF CallStep, Step, MainInv, mainVars
<1>9. CASE Simulate
  BY <1>9, <1>t, StagesSeen DEF Simulate, MainInv, mainVars
<1>10. CASE Simulated
  BY <1>10 DEF Simulated, MainInv, simVars, mainVars
<1>11. CASE SimulationThrows
  BY <1>11 DEF SimulationThrows, Throw, MainInv, mainVars
<1>12. CASE NotDue
  BY <1>12 DEF NotDue, MainInv, simVars, mainVars
<1>13. CASE Due
  BY <1>13 DEF Due, MainInv, simVars, mainVars
<1>14. CASE ForceLast
  BY <1>14 DEF ForceLast, MainInv, simVars, mainVars
<1>15. CASE WriteFrame
  BY <1>15 DEF WriteFrame, MainInv, simVars, mainVars
<1>16. CASE PublishFrame
  BY <1>16 DEF PublishFrame, MainInv, simVars, mainVars
<1>17. CASE MarkComplete
  BY <1>17 DEF MarkComplete, MainInv, simVars, mainVars
<1>18. CASE Fail
  BY <1>18 DEF Fail, MainInv, simVars, mainVars
<1>19. CASE Unwind
  BY <1>19 DEF Unwind, Destroy, MainInv, mainVars
<1>20. CASE StopServer
  BY <1>20 DEF StopServer, Reaped, MainInv, simVars, mainVars
<1>21. CASE PollServer
  BY <1>21 DEF PollServer, Reaped, MainInv, simVars, mainVars
<1>22. CASE ReapServer
  BY <1>22 DEF ReapServer, Reaped, MainInv, simVars, mainVars
<1>23. CASE ServerEnds
  BY <1>23 DEF ServerEnds, MainInv, simVars, mainVars
<1>24. CASE Kill
  BY <1>24 DEF Kill, MainInv, mainVars
<1>25. CASE UNCHANGED vars
  BY <1>25 DEF vars, MainInv, simVars, mainVars
<1> QED
  BY <1>1, <1>2, <1>3, <1>4, <1>5, <1>6, <1>7, <1>8, <1>9, <1>10, <1>11, <1>12, <1>13, <1>14, <1>15,
     <1>16, <1>17, <1>18, <1>19, <1>20, <1>21, <1>22, <1>23, <1>24, <1>25 DEF Next, Main
----------------------------------------------------------------------------
(* The frames in the spool. *)

LEMMA OfItsRange == ASSUME NEW S, NEW t \in Seq(S) PROVE t \in Seq(Range(t))
<1>1. t \in [1 .. Len(t) -> S] /\ Len(t) \in Nat
  BY LenProperties
<1>2. t \in [1 .. Len(t) -> Range(t)]
  BY <1>1 DEF Range
<1> QED
  BY <1>1, <1>2, SeqDef

LEMMA AppendRange ==
  ASSUME NEW s, s \in Seq(Range(s)), NEW x, NEW t, t = Append(s, x)
  PROVE  /\ t \in Seq(Range(t)) /\ Len(t) = Len(s) + 1 /\ DOMAIN t = 1 .. Len(s) + 1
         /\ Len(s) \in Nat /\ DOMAIN s = 1 .. Len(s) /\ t # <<>> /\ (s = <<>> <=> Len(s) = 0)
         /\ \A i \in 1 .. Len(s) : t[i] = s[i]
         /\ t[Len(s) + 1] = x
<1> DEFINE S == Range(s) \cup {x}
<1>1. s \in Seq(S)
  <2> HIDE DEF S
  <2>1. Range(s) \subseteq S
    BY DEF S
  <2> QED
    BY <2>1
<1> HIDE DEF S
<1>2. x \in S
  BY DEF S
<1>3. /\ t \in Seq(S) /\ Len(t) = Len(s) + 1 /\ DOMAIN t = 1 .. Len(s) + 1
      /\ Len(s) \in Nat /\ DOMAIN s = 1 .. Len(s)
      /\ \A i \in 1 .. Len(s) : t[i] = s[i]
      /\ t[Len(s) + 1] = x
  BY <1>1, <1>2
<1>4. s = <<>> <=> Len(s) = 0
  BY <1>1
<1>5. t # <<>>
  <2>1. t = <<>> => Len(t) = 0
    OBVIOUS
  <2> QED
    BY <1>3, <2>1
<1>6. t \in Seq(Range(t))
  BY <1>3, OfItsRange
<1> QED
  BY <1>3, <1>4, <1>5, <1>6

LEMMA NumberNext == SimInv /\ MainInv /\ ClockInv /\ NumberInv /\ [Next]_vars => NumberInv'
<1> SUFFICES ASSUME SimInv, MainInv, ClockInv, NumberInv, [Next]_vars PROVE NumberInv'
  OBVIOUS
<1> USE DEF Start, Between, Writing, Over, Ended, inputs, Never
<1>t. /\ options.steps \in Nat \ {0} /\ stepNumber \in Nat /\ (options.cluster => options.streaming)
      /\ options.streaming \in BOOLEAN
      /\ state = "created" => stepNumber = 0
  BY ProgramAssumption DEF MainInv, SimInv, Initializing
<1>1. CASE OpenSpool
  BY <1>1, <1>t DEF OpenSpool, simVars, mainVars, captureVars, MainInv, NumberInv
<1>2. CASE ForkServer
  BY <1>2, <1>t DEF ForkServer, simVars, mainVars, captureVars, MainInv, NumberInv
<1>3. CASE StartupOver
  BY <1>3, <1>t DEF StartupOver, simVars, mainVars, captureVars, MainInv, NumberInv
<1>4. CASE StartupFailed
  BY <1>4, <1>t DEF StartupFailed, simVars, captureVars, MainInv, NumberInv
<1>5. CASE LoadParticles
  BY <1>5, <1>t DEF LoadParticles, simVars, captureVars, MainInv, NumberInv
<1>6. CASE CreateWriter
  BY <1>6, <1>t DEF CreateWriter, simVars, captureVars, MainInv, NumberInv
<1>7. CASE CallInitialize
  BY <1>7, <1>t, InitializeSome DEF CallInitialize, Initialize, mainVars, captureVars, MainInv, NumberInv
<1>8. CASE CallStep
  BY <1>8, <1>t, StepSome DEF CallStep, Step, mainVars, captureVars, MainInv, NumberInv
<1>9. CASE Simulate
  BY <1>9, <1>t, StagesSeen DEF Simulate, mainVars, captureVars, MainInv, NumberInv
<1>10. CASE Simulated
  BY <1>10, <1>t DEF Simulated, simVars, mainVars, captureVars, MainInv, NumberInv
<1>11. CASE SimulationThrows
  BY <1>11, <1>t DEF SimulationThrows, Throw, captureVars, MainInv, NumberInv
<1>12. CASE NotDue
  BY <1>12, <1>t DEF NotDue, ClockInv, simVars, mainVars, MainInv, NumberInv
<1>13. CASE Due
  BY <1>13, <1>t DEF Due, simVars, mainVars, MainInv, NumberInv
<1>14. CASE ForceLast
  BY <1>14, <1>t DEF ForceLast, LastIsCaptured, simVars, mainVars, MainInv, NumberInv
<1>15. CASE WriteFrame
  BY <1>15, <1>t DEF WriteFrame, simVars, mainVars, MainInv, NumberInv
<1>16. CASE PublishFrame
  BY <1>16, <1>t DEF PublishFrame, simVars, mainVars, MainInv, NumberInv
<1>17. CASE MarkComplete
  BY <1>17, <1>t DEF MarkComplete, LastIsCaptured, simVars, MainInv, NumberInv
<1>18. CASE Fail
  BY <1>18, <1>t DEF Fail, simVars, RemovePart, MainInv, NumberInv
<1>19. CASE Unwind
  BY <1>19, <1>t DEF Unwind, Destroy, mainVars, captureVars, MainInv, NumberInv
<1>20. CASE StopServer
  BY <1>20, <1>t DEF StopServer, Reaped, simVars, mainVars, captureVars, MainInv, NumberInv
<1>21. CASE PollServer
  BY <1>21, <1>t DEF PollServer, Reaped, simVars, mainVars, captureVars, MainInv, NumberInv
<1>22. CASE ReapServer
  BY <1>22, <1>t DEF ReapServer, Reaped, simVars, mainVars, captureVars, MainInv, NumberInv
<1>23. CASE ServerEnds
  BY <1>23, <1>t DEF ServerEnds, simVars, mainVars, captureVars, MainInv, NumberInv
<1>24. CASE Kill
  BY <1>24, <1>t DEF Kill, mainVars, captureVars, MainInv, NumberInv
<1>25. CASE UNCHANGED vars
  BY <1>25, <1>t DEF vars, simVars, mainVars, captureVars, MainInv, NumberInv
<1> QED
  BY <1>1, <1>2, <1>3, <1>4, <1>5, <1>6, <1>7, <1>8, <1>9, <1>10, <1>11, <1>12, <1>13, <1>14,
     <1>15, <1>16, <1>17, <1>18, <1>19, <1>20, <1>21, <1>22, <1>23, <1>24, <1>25 DEF Next, Main

(* What publishing makes of the spool. *)
LEMMA Published ==
  ASSUME SpoolInv, PublishFrame
  PROVE  \E frame \in part :
           /\ part = {frame} /\ frame.simulationStep = stepNumber /\ frame.sequence = sequence - 1
           /\ spool' \in Seq(Range(spool')) /\ Len(spool') = Len(spool) + 1
           /\ DOMAIN spool' = 1 .. Len(spool) + 1 /\ spool' # <<>>
           /\ Len(spool) \in Nat /\ DOMAIN spool = 1 .. Len(spool)
           /\ \A i \in 1 .. Len(spool) : spool'[i] = spool[i]
           /\ spool'[Len(spool) + 1] = frame
<1>1. PICK frame \in part : part = {frame} /\ frame.simulationStep = stepNumber /\ frame.sequence = sequence - 1
  BY DEF PublishFrame, SpoolInv
<1>2. spool' = Append(spool, frame) /\ spool \in Seq(Range(spool))
  BY <1>1 DEF PublishFrame, SpoolInv
<1>3. spool' \in Seq(Range(spool')) /\ Len(spool') = Len(spool) + 1
  BY <1>2, AppendRange
<1>4. DOMAIN spool' = 1 .. Len(spool) + 1 /\ spool' # <<>>
  BY <1>2, AppendRange
<1>5. spool'[Len(spool) + 1] = frame
  BY <1>2, AppendRange
<1>6. \A i \in 1 .. Len(spool) : spool'[i] = spool[i]
  BY <1>2, AppendRange
<1>7. Len(spool) \in Nat /\ DOMAIN spool = 1 .. Len(spool)
  BY <1>2
<1> QED
  BY <1>1, <1>3, <1>4, <1>5, <1>6, <1>7

LEMMA SpoolNext == SimInv /\ MainInv /\ NumberInv /\ SpoolInv /\ [Next]_vars => SpoolInv'
<1> SUFFICES ASSUME SimInv, MainInv, NumberInv, SpoolInv, [Next]_vars PROVE SpoolInv'
  OBVIOUS
<1> USE DEF Start, Between, Writing, Over, Ended, inputs, Never
<1>t. /\ options.steps \in Nat \ {0} /\ stepNumber \in Nat
      /\ Len(spool) \in Nat /\ DOMAIN spool = 1 .. Len(spool) /\ (spool = <<>> <=> Len(spool) = 0)
  BY ProgramAssumption DEF MainInv, SimInv, SpoolInv
<1>s. Len(spool) <= sequence /\ sequence \in Nat
  <2> DEFINE n == Len(spool)
  <2>1. /\ n \in Nat /\ sequence \in Nat
        /\ sequence = n \/ sequence = n + 1 \/ n <= sequence
    BY <1>t DEF MainInv, NumberInv, SpoolInv
  <2> HIDE DEF n
  <2>2. n <= sequence
    BY <2>1
  <2> QED
    BY <2>1, <2>2 DEF n
<1>1. CASE OpenSpool
  BY <1>1, <1>t DEF OpenSpool, simVars, mainVars, captureVars, MainInv, NumberInv, SpoolInv
<1>2. CASE ForkServer
  BY <1>2, <1>t DEF ForkServer, simVars, mainVars, captureVars, MainInv, NumberInv, SpoolInv
<1>3. CASE StartupOver
  BY <1>3, <1>t DEF StartupOver, simVars, mainVars, captureVars, MainInv, NumberInv, SpoolInv
<1>4. CASE StartupFailed
  BY <1>4, <1>t DEF StartupFailed, simVars, captureVars, MainInv, NumberInv, SpoolInv
<1>5. CASE LoadParticles
  BY <1>5, <1>t DEF LoadParticles, simVars, captureVars, MainInv, NumberInv, SpoolInv
<1>6. CASE CreateWriter
  BY <1>6, <1>t DEF CreateWriter, simVars, captureVars, MainInv, NumberInv, SpoolInv
<1>7. CASE CallInitialize
  BY <1>7, <1>t, InitializeSome DEF CallInitialize, Initialize, mainVars, captureVars, MainInv, NumberInv, SpoolInv
<1>8. CASE CallStep
  BY <1>8, <1>t DEF CallStep, Step, mainVars, captureVars, MainInv, NumberInv, SpoolInv
<1>9. CASE Simulate
  BY <1>9, <1>t, StagesSeen DEF Simulate, mainVars, captureVars, MainInv, NumberInv, SpoolInv
<1>10. CASE Simulated
  BY <1>10, <1>t DEF Simulated, simVars, mainVars, captureVars, MainInv, NumberInv, SpoolInv
<1>11. CASE SimulationThrows
  BY <1>11, <1>t DEF SimulationThrows, Throw, captureVars, MainInv, NumberInv, SpoolInv
<1>12. CASE NotDue
  BY <1>12, <1>t DEF NotDue, simVars, mainVars, MainInv, NumberInv, SpoolInv
<1>13. CASE Due
  BY <1>13, <1>t DEF Due, simVars, mainVars, MainInv, NumberInv, SpoolInv
<1>14. CASE ForceLast
  BY <1>14, <1>t DEF ForceLast, simVars, mainVars, MainInv, NumberInv, SpoolInv
<1>15. CASE WriteFrame
  BY <1>15, <1>t DEF WriteFrame, simVars, mainVars, MainInv, NumberInv, SpoolInv
<1>16. CASE PublishFrame
  <2>1. PICK frame \in part :
          /\ part = {frame} /\ frame.simulationStep = stepNumber /\ frame.sequence = sequence - 1
          /\ spool' \in Seq(Range(spool')) /\ Len(spool') = Len(spool) + 1
          /\ DOMAIN spool' = 1 .. Len(spool) + 1 /\ spool' # <<>>
          /\ \A i \in 1 .. Len(spool) : spool'[i] = spool[i]
          /\ spool'[Len(spool) + 1] = frame
    BY <1>16, Published
  <2>2. /\ part' = {} /\ lastCapturedStep' = stepNumber
        /\ pc = "publish" /\ pc' = "loop" /\ sequence' = sequence
    BY <1>16, <2>1 DEF PublishFrame
  <2>3. sequence = Len(spool) + 1 /\ lastCapturedStep < stepNumber
    BY <2>2 DEF SpoolInv, NumberInv
  <2>4. lastCapturedStep' = spool'[Len(spool')].simulationStep
    BY <2>1, <2>2
  <2>5. Len(spool') <= lastCapturedStep' + 1
    BY <1>t, <2>1, <2>2, <2>3 DEF SpoolInv, NumberInv
  <2>6. spool'[1].simulationStep = 0
    <3>1. CASE Len(spool) = 0
      BY <1>t, <2>1, <2>2, <2>3, <3>1 DEF NumberInv
    <3>2. CASE Len(spool) # 0
      BY <1>t, <2>1, <3>2 DEF SpoolInv
    <3> QED
      BY <3>1, <3>2
  <2>7. ASSUME NEW i \in DOMAIN spool' PROVE spool'[i].sequence = i - 1
    <3>1. CASE i = Len(spool) + 1
      BY <1>s, <2>1, <2>3, <3>1
    <3>2. CASE i \in 1 .. Len(spool)
      BY <1>t, <2>1, <3>2 DEF SpoolInv
    <3> QED
      BY <1>t, <2>1, <2>7, <3>1, <3>2
  <2>8. ASSUME NEW i \in DOMAIN spool', i > 1 PROVE spool'[i - 1].simulationStep < spool'[i].simulationStep
    <3>1. CASE i = Len(spool) + 1
      <4>1. spool # <<>> /\ i - 1 = Len(spool) /\ i - 1 \in 1 .. Len(spool)
        BY <1>t, <2>8, <3>1
      <4> QED
        BY <2>1, <2>3, <3>1, <4>1 DEF SpoolInv
    <3>2. CASE i \in 1 .. Len(spool)
      <4>1. i - 1 \in 1 .. Len(spool)
        BY <1>t, <2>8, <3>2
      <4> QED
        BY <1>t, <2>1, <2>8, <3>2, <4>1 DEF SpoolInv
    <3> QED
      BY <1>t, <2>1, <2>8, <3>1, <3>2
  <2> QED
    BY <2>1, <2>2, <2>3, <2>4, <2>5, <2>6, <2>7, <2>8 DEF SpoolInv
<1>17. CASE MarkComplete
  BY <1>17, <1>t DEF MarkComplete, simVars, MainInv, NumberInv, SpoolInv
<1>18. CASE Fail
  BY <1>18, <1>t, <1>s DEF Fail, simVars, RemovePart, MainInv, NumberInv, SpoolInv
<1>19. CASE Unwind
  BY <1>19, <1>t DEF Unwind, Destroy, mainVars, captureVars, MainInv, NumberInv, SpoolInv
<1>20. CASE StopServer
  BY <1>20, <1>t DEF StopServer, Reaped, simVars, mainVars, captureVars, MainInv, NumberInv, SpoolInv
<1>21. CASE PollServer
  BY <1>21, <1>t DEF PollServer, Reaped, simVars, mainVars, captureVars, MainInv, NumberInv, SpoolInv
<1>22. CASE ReapServer
  BY <1>22, <1>t DEF ReapServer, Reaped, simVars, mainVars, captureVars, MainInv, NumberInv, SpoolInv
<1>23. CASE ServerEnds
  BY <1>23, <1>t DEF ServerEnds, simVars, mainVars, captureVars, MainInv, NumberInv, SpoolInv
<1>24. CASE Kill
  BY <1>24, <1>t, <1>s DEF Kill, mainVars, captureVars, MainInv, NumberInv, SpoolInv
<1>25. CASE UNCHANGED vars
  BY <1>25, <1>t DEF vars, simVars, mainVars, captureVars, MainInv, NumberInv, SpoolInv
<1> QED
  BY <1>1, <1>2, <1>3, <1>4, <1>5, <1>6, <1>7, <1>8, <1>9, <1>10, <1>11, <1>12, <1>13, <1>14,
     <1>15, <1>16, <1>17, <1>18, <1>19, <1>20, <1>21, <1>22, <1>23, <1>24, <1>25 DEF Next, Main
----------------------------------------------------------------------------
(* Which steps concern the capture. *)
LEMMA CaptureSteps ==
  ASSUME [Next]_vars
  PROVE  \/ NotDue \/ Due \/ ForceLast \/ WriteFrame \/ PublishFrame
         \/ UNCHANGED <<nextSampleTime, sequence, clock, spool>> /\ pc' \notin Writing
         \/ UNCHANGED <<pc, captureVars>>
<1> USE DEF Writing
<1>1. OpenSpool \/ ForkServer \/ StartupOver \/ StartupFailed \/ LoadParticles \/ CreateWriter =>
        UNCHANGED captureVars /\ pc' \notin Writing
  BY DEF OpenSpool, ForkServer, StartupOver, StartupFailed, LoadParticles, CreateWriter
<1>2. CallInitialize \/ CallStep \/ Simulate \/ Simulated \/ SimulationThrows =>
        UNCHANGED captureVars /\ pc' \notin Writing
  BY DEF CallInitialize, CallStep, Simulate, Simulated, SimulationThrows
<1>3. MarkComplete \/ Fail => UNCHANGED <<nextSampleTime, sequence, clock, spool>> /\ pc' \notin Writing
  BY DEF MarkComplete, Fail
<1>4. Unwind \/ StopServer \/ PollServer \/ ReapServer => UNCHANGED captureVars /\ pc' \notin Writing
  BY DEF Unwind, StopServer, PollServer, ReapServer, Reaped
<1>5. Kill => UNCHANGED captureVars /\ pc' \notin Writing
  BY DEF Kill
<1>6. ServerEnds \/ UNCHANGED vars => UNCHANGED <<pc, captureVars>>
  BY DEF ServerEnds, vars
<1>7. UNCHANGED captureVars => UNCHANGED <<nextSampleTime, sequence, clock, spool>>
  BY DEF captureVars
<1> QED
  BY <1>1, <1>2, <1>3, <1>4, <1>5, <1>6, <1>7 DEF Next, Main

(* A frame is due: the next will be in a later interval, and not before now. *)
LEMMA ClockDue == ASSUME NumberInv, ClockInv, Due PROVE ClockInv'
<1>t. Interval \in Nat \ {0} /\ MaxTime \in Nat /\ sequence \in Nat
  BY ProgramAssumption DEF NumberInv
<1> DEFINE now == clock'
           q == (now - nextSampleTime) \div Interval
           m == nextSampleTime \div Interval
<1>1. /\ now \in Nat /\ now >= nextSampleTime /\ sequence' = sequence + 1 /\ nextSampleTime \in Nat
      /\ nextSampleTime' = nextSampleTime + (q + 1) * Interval
  BY <1>t DEF Due, Rescheduled, ClockInv
<1> HIDE DEF now
<1>2. q \in Int /\ now - nextSampleTime < q * Interval + Interval /\ q * Interval <= now - nextSampleTime
  BY <1>t, <1>1, Division
<1>3. m \in Int /\ nextSampleTime = m * Interval
  BY <1>t, <1>1, Division DEF ClockInv
<1> HIDE DEF q, m
<1>4. now < nextSampleTime' /\ nextSampleTime' \in Nat
  BY <1>t, <1>1, <1>2
<1>5. nextSampleTime' = (m + q + 1) * Interval /\ m + q + 1 \in Int
  BY <1>t, <1>1, <1>2, <1>3
<1>6. nextSampleTime' \div Interval = m + q + 1
  BY <1>t, <1>4, <1>5, Quotient
<1> QED
  BY <1>t, <1>1, <1>4, <1>5, <1>6 DEF ClockInv, now

LEMMA ClockNext == MainInv /\ NumberInv /\ ClockInv /\ [Next]_vars => ClockInv'
<1> SUFFICES ASSUME MainInv, NumberInv, ClockInv, [Next]_vars PROVE ClockInv'
  OBVIOUS
<1>t. Interval \in Nat \ {0} /\ MaxTime \in Nat /\ sequence \in Nat
  BY ProgramAssumption DEF NumberInv
<1>1. CASE UNCHANGED <<nextSampleTime, sequence, clock>>
  BY <1>1 DEF ClockInv
<1>2. CASE NotDue
  BY <1>2, <1>t DEF NotDue, ClockInv
<1>3. CASE Due
  BY <1>3, ClockDue
<1>4. CASE ForceLast
  BY <1>4, <1>t DEF ForceLast, ClockInv, NumberInv
<1>5. CASE WriteFrame \/ PublishFrame
  BY <1>5 DEF WriteFrame, PublishFrame, ClockInv
<1> QED
  BY <1>1, <1>2, <1>3, <1>4, <1>5, CaptureSteps DEF captureVars

LEMMA IntervalNext == NumberInv /\ SpoolInv /\ ClockInv /\ IntervalInv /\ [Next]_vars => IntervalInv'
<1> SUFFICES ASSUME NumberInv, SpoolInv, ClockInv, IntervalInv, [Next]_vars PROVE IntervalInv'
  OBVIOUS
<1>t. Interval \in Nat \ {0} /\ clock \in Nat /\ nextSampleTime \in Nat /\ DOMAIN spool = 1 .. Len(spool)
  BY ProgramAssumption DEF ClockInv, SpoolInv
<1>1. CASE UNCHANGED <<nextSampleTime, spool>> /\ pc' \notin Writing
  BY <1>1 DEF IntervalInv, OncePerInterval, Writing
<1>2. CASE UNCHANGED <<pc, captureVars>>
  BY <1>2 DEF captureVars, IntervalInv, OncePerInterval
<1>3. CASE NotDue
  BY <1>3 DEF NotDue, IntervalInv, OncePerInterval, Writing
<1>4. CASE Due
  <2>1. /\ clock' \in Nat /\ nextSampleTime <= clock' /\ spool' = spool /\ pc' = "write"
        /\ nextSampleTime = (nextSampleTime \div Interval) * Interval /\ nextSampleTime \div Interval \in Int
    BY <1>4, <1>t, ProgramAssumption, Division DEF Due, ClockInv
  <2>2. nextSampleTime <= nextSampleTime' /\ nextSampleTime' \in Nat
    <3>1. clock' < nextSampleTime' /\ nextSampleTime' \in Nat
      <4>1. sequence' > 0
        BY <1>4 DEF Due, NumberInv
      <4>2. ClockInv' => clock' < nextSampleTime' /\ nextSampleTime' \in Nat
        BY <4>1 DEF ClockInv
      <4> QED
        BY <4>2, ClockDue, <1>4
    <3> QED
      BY <1>t, <2>1, <3>1
  <2>3. ASSUME NEW i \in DOMAIN spool PROVE spool[i].time \div Interval < clock' \div Interval
    <3> DEFINE m == nextSampleTime \div Interval
               a == spool[i].time
    <3>1. a \in Int /\ a < m * Interval /\ m * Interval <= clock' /\ m \in Int /\ clock' \in Int
      BY <2>1, <2>3 DEF IntervalInv
    <3> HIDE DEF m, a
    <3>2. a \div Interval < m /\ m <= clock' \div Interval
      BY <1>t, <3>1, Separated
    <3>3. a \div Interval \in Int /\ clock' \div Interval \in Int
      BY <1>t, <3>1, Division
    <3>4. a \div Interval < clock' \div Interval
      BY <3>1, <3>2, <3>3
    <3> QED
      BY <3>4 DEF a
  <2> QED
    BY <1>t, <2>1, <2>2, <2>3 DEF IntervalInv, OncePerInterval
<1>5. CASE ForceLast
  BY <1>5 DEF ForceLast, IntervalInv, OncePerInterval
<1>6. CASE WriteFrame
  BY <1>6 DEF WriteFrame, IntervalInv, OncePerInterval, Writing
<1>7. CASE PublishFrame
  <2>1. PICK frame \in part :
          /\ DOMAIN spool' = 1 .. Len(spool) + 1 /\ Len(spool) \in Nat
          /\ \A i \in 1 .. Len(spool) : spool'[i] = spool[i]
          /\ spool'[Len(spool) + 1] = frame
    BY <1>7, Published
  <2>2. /\ pc = "publish" /\ pc' = "loop" /\ nextSampleTime' = nextSampleTime
        /\ frame.time = clock /\ frame.forced = forced
    BY <1>7 DEF PublishFrame, IntervalInv
  <2>3. clock < nextSampleTime
    BY <2>2 DEF NumberInv, ClockInv, Writing
  <2>4. ASSUME NEW i \in DOMAIN spool' PROVE spool'[i].time \in Nat /\ spool'[i].time < nextSampleTime'
    BY <1>t, <2>1, <2>2, <2>3 DEF IntervalInv
  <2>5. ASSUME NEW i \in DOMAIN spool', NEW j \in DOMAIN spool', i < j, ~spool'[j].forced
        PROVE  spool'[i].time \div Interval < spool'[j].time \div Interval
    <3>1. i \in 1 .. Len(spool)
      BY <2>1, <2>5
    <3>2. CASE j \in 1 .. Len(spool)
      BY <1>t, <2>1, <2>5, <3>1, <3>2 DEF IntervalInv, OncePerInterval
    <3>3. CASE j = Len(spool) + 1
      BY <1>t, <2>1, <2>2, <2>5, <3>1, <3>3 DEF IntervalInv, Writing
    <3> QED
      BY <2>1, <3>2, <3>3
  <2> QED
    BY <2>2, <2>4, <2>5 DEF IntervalInv, OncePerInterval, Writing
<1> QED
  BY <1>1, <1>2, <1>3, <1>4, <1>5, <1>6, <1>7, CaptureSteps

(* Whoever ends by itself has waited for the server it started. *)
LEMMA ServerNext == ServerInv /\ [Next]_vars => ServerInv'
<1> SUFFICES ASSUME ServerInv, [Next]_vars, pc' = "exited" PROVE child' \in {"none", "reaped"}
  BY DEF ServerInv
<1>1. OpenSpool \/ ForkServer \/ StartupOver \/ StartupFailed \/ LoadParticles \/ CreateWriter => FALSE
  BY DEF OpenSpool, ForkServer, StartupOver, StartupFailed, LoadParticles, CreateWriter
<1>2. CallInitialize \/ CallStep \/ Simulate \/ Simulated \/ SimulationThrows => FALSE
  BY DEF CallInitialize, CallStep, Simulate, Simulated, SimulationThrows
<1>3. NotDue \/ Due \/ ForceLast \/ WriteFrame \/ PublishFrame \/ MarkComplete \/ Fail \/ Kill => FALSE
  BY DEF NotDue, Due, ForceLast, WriteFrame, PublishFrame, MarkComplete, Fail, Kill
<1>4. Unwind \/ StopServer \/ PollServer \/ ReapServer => child' \in {"none", "reaped"}
  BY DEF Unwind, StopServer, PollServer, ReapServer, Reaped, childVars
<1>5. ServerEnds \/ UNCHANGED vars => child' \in {"none", "reaped"}
  BY DEF ServerEnds, vars, childVars, ServerInv
<1> QED
  BY <1>1, <1>2, <1>3, <1>4, <1>5 DEF Next, Main
----------------------------------------------------------------------------
(* What the frames hold. *)

(* A file whose layout is recognized has particles. *)
LEMMA SomeParticles == file.count \in Nat /\ detect_particle_file_header(file) # Unsupported => file.count > 0
<1> SUFFICES ASSUME file.count \in Nat, file.count = 0 PROVE detect_particle_file_header(file) = Unsupported
  OBVIOUS
<1>1. \A layout : ~matches_layout(file, layout)
  BY DEF matches_layout, CountRead
<1>2. SelectInSeq(Candidates, LAMBDA layout : matches_layout(file, layout)) = 0
  BY <1>1 DEF SelectInSeq
<1> QED
  BY <1>2 DEF detect_particle_file_header

Unread == {"open", "fork", "startup", "load"}

LEMMA ContentStill ==
  ASSUME ContentInv, UNCHANGED <<inputs, loaded, sampledTypes, spool>>,
         pc' # "publish" \/ UNCHANGED <<pc, part, stepNumber>>,
         pc \in Unread \cup Over => pc' \in Unread \cup Over,
         pc = "writer" => pc' \in {"writer"} \cup Over
  PROVE  ContentInv'
BY DEF ContentInv, Taken, Types, Count, FrameSize, Unread, inputs

LEMMA NothingYet == MainInv /\ NumberInv /\ SpoolInv /\ pc \in Start => spool = <<>>
<1> SUFFICES ASSUME MainInv, NumberInv, SpoolInv, pc \in Start PROVE spool = <<>>
  OBVIOUS
<1>1. spool \in Seq(Range(spool))
  BY DEF SpoolInv
<1>2. Len(spool) = 0 => spool = <<>>
  BY <1>1
<1>3. sequence = 0 /\ sequence = Len(spool)
  BY DEF MainInv, NumberInv, SpoolInv, Start, Over, Ended, Writing
<1> QED
  BY <1>2, <1>3

LEMMA ContentNext == SimInv /\ MainInv /\ NumberInv /\ SpoolInv /\ ContentInv /\ [Next]_vars => ContentInv'
<1> SUFFICES ASSUME SimInv, MainInv, NumberInv, SpoolInv, ContentInv, [Next]_vars PROVE ContentInv'
  OBVIOUS
<1> USE DEF Start, Over, Ended, Unread
<1>1. CASE OpenSpool \/ ForkServer \/ StartupOver \/ StartupFailed
  BY <1>1, ContentStill DEF OpenSpool, ForkServer, StartupOver, StartupFailed, captureVars, mainVars
<1>2. CASE CallInitialize \/ CallStep \/ Simulate \/ Simulated \/ SimulationThrows
  BY <1>2, ContentStill DEF CallInitialize, CallStep, Simulate, Simulated, SimulationThrows, captureVars, mainVars
<1>3. CASE NotDue \/ Due \/ ForceLast \/ MarkComplete \/ Fail
  BY <1>3, ContentStill DEF NotDue, Due, ForceLast, MarkComplete, Fail, mainVars
<1>4. CASE Unwind \/ StopServer \/ PollServer \/ ReapServer
  BY <1>4, ContentStill DEF Unwind, StopServer, PollServer, ReapServer, Reaped, captureVars, mainVars
<1>5. CASE ServerEnds \/ Kill \/ UNCHANGED vars
  BY <1>5, ContentStill DEF ServerEnds, Kill, vars, captureVars, mainVars, simVars
<1>6. CASE LoadParticles
  <2>1. Count \in Nat /\ Count > 0
    BY <1>6, SomeParticles, ProgramAssumption DEF LoadParticles, MainInv, Count
  <2>2. spool = <<>>
    BY <1>6, NothingYet DEF LoadParticles
  <2>3. DOMAIN spool = {}
    BY <2>2
  <2> QED
    BY <1>6, <2>1, <2>2, <2>3 DEF LoadParticles, captureVars, ContentInv, Count, inputs
<1>7. CASE CreateWriter
  <2>1. sampledTypes' = Gathered(Types, Count, FrameSize)'
    BY <1>7 DEF CreateWriter, Types, Count, FrameSize, inputs
  <2>2. spool = <<>>
    BY <1>7, NothingYet DEF CreateWriter
  <2>3. DOMAIN spool = {}
    BY <2>2
  <2> QED
    BY <1>7, <2>1, <2>2, <2>3 DEF CreateWriter, captureVars, ContentInv, Count, inputs
<1>8. CASE WriteFrame
  <2>1. positions = stepNumber /\ options.streaming
    BY <1>8 DEF WriteFrame, SimInv, Stepping, MainInv, Between, Writing
  <2>2. \A frame \in part' : frame.content = Taken(stepNumber)
    BY <1>8, <2>1 DEF WriteFrame, ContentInv, Taken
  <2> QED
    BY <1>8, <2>2 DEF WriteFrame, ContentInv, Taken, Types, Count, FrameSize, inputs, mainVars, simVars
<1>9. CASE PublishFrame
  <2>1. PICK frame \in part :
          /\ frame.simulationStep = stepNumber
          /\ DOMAIN spool' = 1 .. Len(spool) + 1 /\ Len(spool) \in Nat /\ DOMAIN spool = 1 .. Len(spool)
          /\ \A i \in 1 .. Len(spool) : spool'[i] = spool[i]
          /\ spool'[Len(spool) + 1] = frame
    BY <1>9, Published
  <2>2. frame.content = Taken(stepNumber) /\ stepNumber \in 0 .. options.steps
    BY <1>9, ProgramAssumption DEF PublishFrame, ContentInv, MainInv, SimInv
  <2>3. ASSUME NEW i \in DOMAIN spool'
        PROVE  spool'[i].simulationStep \in 0 .. options.steps /\ spool'[i].content = Taken(spool'[i].simulationStep)
    <3>1. CASE i \in 1 .. Len(spool)
      BY <2>1, <3>1 DEF ContentInv
    <3>2. CASE i = Len(spool) + 1
      BY <2>1, <2>2, <3>2
    <3> QED
      BY <2>1, <2>3, <3>1, <3>2
  <2>4. Count > 0
    BY <1>9 DEF PublishFrame, ContentInv
  <2> QED
    BY <1>9, <2>3, <2>4 DEF PublishFrame, ContentInv, Taken, Types, Count, FrameSize, inputs, mainVars, simVars
<1> QED
  BY <1>1, <1>2, <1>3, <1>4, <1>5, <1>6, <1>7, <1>8, <1>9 DEF Next, Main
----------------------------------------------------------------------------
(* All of it together, and what follows. *)
ProgramInv ==
  SimInv /\ MainInv /\ NumberInv /\ SpoolInv /\ ClockInv /\ IntervalInv /\ ContentInv /\ ServerInv

LEMMA ProgramInitially == Init => ProgramInv
<1> SUFFICES ASSUME Init PROVE ProgramInv
  OBVIOUS
<1> USE DEF Start, Between, Writing, Over, Ended, Never
<1>1. SimInv
  BY SimInitially DEF Init
<1>2. MainInv
  BY ProgramAssumption DEF Init, SimInit, MainInv
<1>3. NumberInv
  <2>1. /\ pc = "open" /\ sequence = 0 /\ marker = FALSE /\ state = "created" /\ stepNumber = 0
        /\ lastCapturedStep = -1 /\ exitCode = -1
    BY DEF Init, SimInit
  <2>2. -1 <= 0 /\ -1 # 0 /\ sequence \in Nat /\ ~(sequence > 0)
    BY <2>1
  <2> QED
    BY <2>1, <2>2 DEF NumberInv
<1>4. SpoolInv
  <2>1. <<>> \in Seq(Range(<<>>)) /\ Len(<<>>) = 0 /\ DOMAIN <<>> = {}
    OBVIOUS
  <2>2. spool = <<>> /\ part = {} /\ pc = "open" /\ sequence = 0 /\ lastCapturedStep = -1
    BY DEF Init
  <2> QED
    BY <2>1, <2>2 DEF SpoolInv
<1>5. ClockInv
  <2>1. 0 = (0 \div Interval) * Interval
    BY ProgramAssumption, Quotient
  <2> QED
    BY <2>1 DEF Init, ClockInv
<1>6. spool = <<>> /\ DOMAIN spool = {}
  BY DEF Init
<1>7. IntervalInv
  BY <1>6 DEF Init, IntervalInv, OncePerInterval
<1>8. ContentInv
  BY <1>6 DEF Init, ContentInv
<1>9. ServerInv
  BY DEF Init, ServerInv
<1> QED
  BY <1>1, <1>2, <1>3, <1>4, <1>5, <1>7, <1>8, <1>9 DEF ProgramInv

(* Whatever main was doing when something threw, or when it was killed, its variables agree with *)
(* the simulation, with the frames in the spool and with the server's process. *)
THEOREM ProgramInvariant == Spec => []ProgramInv
<1>1. ProgramInv /\ [Next]_vars => ProgramInv'
  BY SimNext, MainNext, NumberNext, SpoolNext, ClockNext, IntervalNext, ContentNext, ServerNext DEF ProgramInv
<1> QED
  BY <1>1, ProgramInitially, PTL DEF Spec

LEMMA InvComplete == ProgramInv => CompleteRun
<1> SUFFICES ASSUME ProgramInv PROVE CompleteRun
  OBVIOUS
<1>1. ASSUME marker PROVE /\ stepNumber = options.steps
                          /\ spool[1].simulationStep = 0
                          /\ spool[Len(spool)].simulationStep = options.steps
  <2>1. stepNumber = options.steps /\ lastCapturedStep = options.steps /\ options.steps \in Nat \ {0}
    BY <1>1, ProgramAssumption DEF ProgramInv, NumberInv, MainInv
  <2>2. spool # <<>>
    BY <2>1 DEF ProgramInv, SpoolInv, Never
  <2> QED
    BY <2>1, <2>2 DEF ProgramInv, SpoolInv
<1>2. exitCode = 0 /\ options.streaming => marker
  BY DEF ProgramInv, NumberInv
<1> QED
  BY <1>1, <1>2 DEF CompleteRun

LEMMA InvFaithful == ProgramInv => FramesFaithful
<1> SUFFICES ASSUME ProgramInv, NEW i \in DOMAIN spool
             PROVE  /\ Consistent(spool[i].content)
                    /\ Shows(spool[i].content, motion[spool[i].simulationStep], Types)
                    /\ spool[i].sequence = i - 1
                    /\ i > 1 => spool[i - 1].simulationStep < spool[i].simulationStep
  BY DEF FramesFaithful
<1>1. spool[i].sequence = i - 1 /\ (i > 1 => spool[i - 1].simulationStep < spool[i].simulationStep)
  BY DEF ProgramInv, SpoolInv
<1> DEFINE step == spool[i].simulationStep
<1>2. step \in 0 .. options.steps /\ spool[i].content = Taken(step)
  BY DEF ProgramInv, ContentInv
<1>3. Count \in Nat \ {0}
  <2>1. spool # <<>>
    OBVIOUS
  <2> QED
    BY <2>1, ProgramAssumption DEF ProgramInv, ContentInv, MainInv, Count
<1> HIDE DEF step
<1>4. options.maximum \in Nat /\ \A k \in 0 .. Count - 1 : motion[step][k] \in Int
  BY <1>2, ProgramAssumption DEF ProgramInv, MainInv, Count
<1>5. Consistent(Taken(step)) /\ Shows(Taken(step), motion[step], Types)
  BY <1>3, <1>4, FaithfulFrame DEF Taken, FrameSize
<1> QED
  BY <1>1, <1>2, <1>5 DEF step

(* A run that is marked is complete, and one that says it succeeded is marked. *)
THEOREM Complete == Spec => []CompleteRun
BY ProgramInvariant, InvComplete, PTL

(* Every frame shows the state of the step it names. *)
THEOREM Faithful == Spec => []FramesFaithful
BY ProgramInvariant, InvFaithful, PTL

(* However long a step takes, an interval of the sampling rate gets one frame at most. *)
THEOREM Sampled == Spec => []OncePerInterval
<1>1. ProgramInv => OncePerInterval
  BY DEF ProgramInv, IntervalInv
<1> QED
  BY <1>1, ProgramInvariant, PTL

(* A program that ends by itself leaves neither a process nor a temporary file. *)
THEOREM Cleaned == Spec => []NothingLeft
<1>1. ProgramInv => NothingLeft
  BY DEF ProgramInv, ServerInv, SpoolInv, NothingLeft
<1> QED
  BY <1>1, ProgramInvariant, PTL
----------------------------------------------------------------------------
(* The layout of a file. *)
FileLayouts == {Layout(8, TRUE), Layout(8, FALSE), Layout(4, TRUE), Layout(4, FALSE)}

(* A file of 32-bit counts with types, four particles and a round first mass is as long as one *)
(* of 64-bit counts without types: the one case in which the size does not decide. *)
WholeFile(f) ==
  \E layout \in FileLayouts, count \in Nat \ {0}, mantissa \in Nat :
    /\ f = File(layout, count, mantissa, 0)
    /\ ~(layout = Layout(4, TRUE) /\ count = 4 /\ mantissa = 0)

(* A file that was cut short, and is now as long as no layout would make it. *)
OfNoLayout(f) == \A layout \in FileLayouts : f.size # Bytes(layout, f.count)

LEMMA FirstMatch ==
  ASSUME NEW f, NEW k \in 1 .. 4, matches_layout(f, Candidates[k]),
         \A j \in 1 .. 4 : j < k => ~matches_layout(f, Candidates[j])
  PROVE  detect_particle_file_header(f) = Candidates[k]
<1> DEFINE I == {i \in 1 .. Len(Candidates) : matches_layout(f, Candidates[i])}
<1>1. Len(Candidates) = 4
  BY DEF Candidates
<1>2. k \in I /\ \A i \in I : k <= i /\ i \in Int
  BY <1>1
<1>3. SelectInSeq(Candidates, LAMBDA layout : matches_layout(f, layout)) = IF I # {} THEN Min(I) ELSE 0
  BY DEF SelectInSeq
<1> HIDE DEF I
<1>4. Min(I) = k
  <2> DEFINE m == Min(I)
  <2>1. m \in I /\ \A y \in I : m <= y
    BY <1>2, MinOf
  <2> HIDE DEF m
  <2>2. m <= k /\ k <= m /\ m \in Int
    BY <1>2, <2>1
  <2> QED
    BY <2>2 DEF m
<1> QED
  BY <1>2, <1>3, <1>4 DEF detect_particle_file_header

LEMMA LayoutBytes ==
  ASSUME NEW count \in Nat
  PROVE  /\ Bytes(Layout(8, TRUE), count) = 8 + 57 * count
         /\ Bytes(Layout(8, FALSE), count) = 8 + 56 * count
         /\ Bytes(Layout(4, TRUE), count) = 4 + 57 * count
         /\ Bytes(Layout(4, FALSE), count) = 4 + 56 * count
<1>1. bytes_per_particle = 56 /\ count * 56 \in Nat
  BY DEF bytes_per_particle
<1>2. /\ 8 + count * 56 + count = 8 + 57 * count /\ 8 + count * 56 + 0 = 8 + 56 * count
      /\ 4 + count * 56 + count = 4 + 57 * count /\ 4 + count * 56 + 0 = 4 + 56 * count
  OBVIOUS
<1>3. \A header : Bytes(Layout(header, TRUE), count) = header + count * 56 + count
  BY <1>1 DEF Bytes, Layout
<1>4. \A header : Bytes(Layout(header, FALSE), count) = header + count * 56 + 0
  BY <1>1 DEF Bytes, Layout
<1> QED
  BY <1>2, <1>3, <1>4

(* Files of one count differ in size from layout to layout, but for one count. *)
LEMMA Sizes ==
  ASSUME NEW count \in Nat \ {0}
  PROVE  /\ 8 + 57 * count # 8 + 56 * count /\ 4 + 57 * count # 8 + 57 * count
         /\ 4 + 56 * count # 8 + 57 * count /\ 4 + 56 * count # 8 + 56 * count
         /\ 4 + 56 * count # 4 + 57 * count
         /\ 4 + 57 * count = 8 + 56 * count => count = 4
OBVIOUS

(* The candidates are tried one after the other. *)
LEMMA Tried ==
  ASSUME NEW f
  PROVE  LET first == detect_particle_file_header(f)
             M(header, typed) == matches_layout(f, Layout(header, typed))
         IN /\ M(8, TRUE) => first = Layout(8, TRUE)
            /\ ~M(8, TRUE) /\ M(8, FALSE) => first = Layout(8, FALSE)
            /\ ~M(8, TRUE) /\ ~M(8, FALSE) /\ M(4, TRUE) => first = Layout(4, TRUE)
            /\ ~M(8, TRUE) /\ ~M(8, FALSE) /\ ~M(4, TRUE) /\ M(4, FALSE) => first = Layout(4, FALSE)
<1>1. /\ Candidates[1] = Layout(8, TRUE) /\ Candidates[2] = Layout(8, FALSE)
      /\ Candidates[3] = Layout(4, TRUE) /\ Candidates[4] = Layout(4, FALSE)
  BY DEF Candidates
<1> DEFINE M(k) == matches_layout(f, Candidates[k])
<1>2. \A k \in 1 .. 4 : M(k) /\ (\A j \in 1 .. 4 : j < k => ~M(j)) => detect_particle_file_header(f) = Candidates[k]
  BY FirstMatch
<1> HIDE DEF M
<1>3. 1 \in 1 .. 4 /\ 2 \in 1 .. 4 /\ 3 \in 1 .. 4 /\ 4 \in 1 .. 4
      /\ \A j \in 1 .. 4 : /\ ~(j < 1) /\ (j < 2 => j = 1) /\ (j < 3 => j = 1 \/ j = 2)
                           /\ (j < 4 => j = 1 \/ j = 2 \/ j = 3)
  OBVIOUS
<1>4. M(1) => detect_particle_file_header(f) = Candidates[1]
  BY <1>2, <1>3
<1>5. ~M(1) /\ M(2) => detect_particle_file_header(f) = Candidates[2]
  BY <1>2, <1>3
<1>6. ~M(1) /\ ~M(2) /\ M(3) => detect_particle_file_header(f) = Candidates[3]
  BY <1>2, <1>3
<1>7. ~M(1) /\ ~M(2) /\ ~M(3) /\ M(4) => detect_particle_file_header(f) = Candidates[4]
  BY <1>2, <1>3
<1> QED
  BY <1>1, <1>4, <1>5, <1>6, <1>7 DEF M

LEMMA Detected ==
  ASSUME NEW f, WholeFile(f) PROVE detect_particle_file_header(f) = f.layout
<1>1. PICK layout \in FileLayouts, count \in Nat \ {0}, mantissa \in Nat :
        /\ f = File(layout, count, mantissa, 0)
        /\ ~(layout = Layout(4, TRUE) /\ count = 4 /\ mantissa = 0)
  BY DEF WholeFile
<1>2. /\ f.layout = layout /\ f.mantissa = mantissa /\ f.count = count
      /\ f.size = Bytes(layout, count) - 0
  BY <1>1 DEF File
<1>3. \A header, typed :
        matches_layout(f, Layout(header, typed)) <=>
          (header <= layout.header \/ mantissa = 0) /\ f.size = Bytes(Layout(header, typed), count)
  <2> TAKE header, typed
  <2>1. CountRead(f, header) = {c \in {count} : header <= layout.header \/ mantissa = 0}
    BY <1>2 DEF CountRead
  <2> QED
    BY <2>1 DEF matches_layout, Layout
<1>4. /\ Layout(8, TRUE).header = 8 /\ Layout(8, FALSE).header = 8
      /\ Layout(4, TRUE).header = 4 /\ Layout(4, FALSE).header = 4
  BY DEF Layout
<1> DEFINE A == 8 + 57 * count
           B == 8 + 56 * count
           C == 4 + 57 * count
           D == 4 + 56 * count
<1>5. A # B /\ C # A /\ D # A /\ D # B /\ D # C /\ (C = B => count = 4)
  BY Sizes
<1>6. A - 0 = A /\ B - 0 = B /\ C - 0 = C /\ D - 0 = D
  OBVIOUS
<1>7. /\ Bytes(Layout(8, TRUE), count) = A /\ Bytes(Layout(8, FALSE), count) = B
      /\ Bytes(Layout(4, TRUE), count) = C /\ Bytes(Layout(4, FALSE), count) = D
  BY LayoutBytes
<1> HIDE DEF A, B, C, D
<1> DEFINE Wide(size) == (8 <= layout.header \/ mantissa = 0) /\ f.size = size
           Narrow(size) == (4 <= layout.header \/ mantissa = 0) /\ f.size = size
<1>8. /\ matches_layout(f, Layout(8, TRUE)) <=> Wide(A)
      /\ matches_layout(f, Layout(8, FALSE)) <=> Wide(B)
      /\ matches_layout(f, Layout(4, TRUE)) <=> Narrow(C)
      /\ matches_layout(f, Layout(4, FALSE)) <=> Narrow(D)
  BY <1>3, <1>7
<1>9. 8 <= 8 /\ 4 <= 8 /\ 4 <= 4 /\ ~(8 <= 4)
  OBVIOUS
<1>10. CASE layout = Layout(8, TRUE)
  <2>1. f.size = A /\ layout.header = 8
    BY <1>2, <1>4, <1>6, <1>7, <1>10
  <2>2. Wide(A)
    BY <2>1, <1>9
  <2> QED
    BY <1>2, <1>8, <1>10, <2>2, Tried
<1>11. CASE layout = Layout(8, FALSE)
  <2>1. f.size = B /\ layout.header = 8
    BY <1>2, <1>4, <1>6, <1>7, <1>11
  <2>2. Wide(B) /\ ~Wide(A)
    BY <2>1, <1>5, <1>9
  <2> QED
    BY <1>2, <1>8, <1>11, <2>2, Tried
<1>12. CASE layout = Layout(4, TRUE)
  <2>1. f.size = C /\ layout.header = 4
    BY <1>2, <1>4, <1>6, <1>7, <1>12
  <2>2. Narrow(C) /\ ~Wide(A)
    BY <2>1, <1>5, <1>9
  <2>3. ~Wide(B)
    BY <2>1, <1>1, <1>5, <1>9, <1>12
  <2> QED
    BY <1>2, <1>8, <1>12, <2>2, <2>3, Tried
<1>13. CASE layout = Layout(4, FALSE)
  <2>1. f.size = D /\ layout.header = 4
    BY <1>2, <1>4, <1>6, <1>7, <1>13
  <2>2. Narrow(D) /\ ~Wide(A) /\ ~Wide(B) /\ ~Narrow(C)
    BY <2>1, <1>5, <1>9
  <2> QED
    BY <1>2, <1>8, <1>13, <2>2, Tried
<1> QED
  BY <1>10, <1>11, <1>12, <1>13 DEF FileLayouts

LEMMA Refused == ASSUME NEW f, OfNoLayout(f) PROVE detect_particle_file_header(f) = Unsupported
<1>1. \A layout \in FileLayouts : ~matches_layout(f, layout)
  BY DEF OfNoLayout, matches_layout, CountRead
<1>2. Len(Candidates) = 4 /\ \A i \in 1 .. 4 : Candidates[i] \in FileLayouts
  BY DEF Candidates, FileLayouts
<1>3. SelectInSeq(Candidates, LAMBDA layout : matches_layout(f, layout)) = 0
  BY <1>1, <1>2 DEF SelectInSeq
<1> QED
  BY <1>3 DEF detect_particle_file_header

(* A file that is intact, and whose size decides, is read by the layout it was written in, one of *)
(* no layout's size is refused: detect_particle_file_header never takes either for another. *)
THEOREM Loads ==
  ASSUME \A f \in InputFiles : WholeFile(f) \/ OfNoLayout(f) PROVE Spec => []LoadsAsWritten
<1> DEFINE Inv == file \in InputFiles /\ LoadsAsWritten
<1>1. Init => Inv
  BY DEF Init, LoadsAsWritten
<1>2. Inv /\ [Next]_vars => Inv'
  <2> SUFFICES ASSUME Inv, [Next]_vars PROVE Inv'
    OBVIOUS
  <2>1. CASE LoadParticles
    BY <2>1, Detected, Refused DEF LoadParticles, LoadsAsWritten, inputs
  <2>2. LoadParticles \/ UNCHANGED <<file, loaded>>
    BY DEF Next, Main, vars, inputs, mainVars, OpenSpool, ForkServer, StartupOver, StartupFailed, CreateWriter,
       CallInitialize, CallStep, Simulate, Simulated, SimulationThrows, NotDue, Due, ForceLast, WriteFrame,
       PublishFrame, MarkComplete, Fail, Unwind, StopServer, PollServer, ReapServer, ServerEnds, Kill
  <2> QED
    BY <2>1, <2>2 DEF LoadsAsWritten
<1>3. Inv => LoadsAsWritten
  OBVIOUS
<1> QED
  BY <1>1, <1>2, <1>3, PTL DEF Spec
----------------------------------------------------------------------------
(* A run of the catalog's directory. *)
LEMMA Largest == ASSUME NEW S, IsFiniteSet(S), S \subseteq Int, NEW e \in S
                 PROVE  Max(S) \in S /\ \A y \in S : Max(S) >= y
<1>1. PICK s \in Seq(S) : \A x \in S : \E n \in 1 .. Len(s) : s[n] = x
  BY DEF IsFiniteSet
<1> DEFINE size == Len(s)
           f == [i \in 0 .. size - 1 |-> s[i + 1]]
<1>2. size \in Nat /\ \A n \in 1 .. size : s[n] \in S
  BY <1>1
<1>3. \A x \in S : \E n \in 1 .. size : s[n] = x
  BY <1>1
<1> HIDE DEF size
<1>4. size \in Nat \ {0}
  BY <1>2, <1>3
<1>5. \A i \in 0 .. size - 1 : f[i] = s[i + 1] /\ f[i] \in S /\ f[i] \in Int
  <2>1. \A i \in 0 .. size - 1 : i + 1 \in 1 .. size
    BY <1>4
  <2> QED
    BY <1>2, <2>1
<1>6. \A x \in S : \E i \in 0 .. size - 1 : f[i] = x
  <2> TAKE x \in S
  <2>1. PICK n \in 1 .. size : s[n] = x
    BY <1>3
  <2>2. n - 1 \in 0 .. size - 1 /\ n - 1 + 1 = n
    BY <1>2
  <2> QED
    BY <1>5, <2>1, <2>2
<1> HIDE DEF f
<1>7. PICK a, b \in 0 .. size - 1 : \A i \in 0 .. size - 1 : f[a] <= f[i] /\ f[i] <= f[b]
  BY <1>4, <1>5, Extremes
<1>8. f[b] \in S /\ \A y \in S : f[b] >= y
  BY <1>5, <1>6, <1>7
<1> QED
  BY <1>8, MaxOf

(* No run publishes more frames than the longest has states. *)
LEMMA WithinMost == ProgramInv => MostFrames \in Nat /\ options.steps + 1 <= MostFrames
<1> SUFFICES ASSUME ProgramInv PROVE MostFrames \in Nat /\ options.steps + 1 <= MostFrames
  OBVIOUS
<1> DEFINE S == {o.steps : o \in Options}
           m == Max(S)
<1>1. options.steps \in S /\ S \subseteq Nat
  BY ProgramAssumption DEF ProgramInv, MainInv
<1>2. IsFiniteSet(S)
  <2> DEFINE f == [o \in Options |-> o.steps]
  <2>1. f \in Surjection(Options, S)
    BY DEF Surjection
  <2> HIDE DEF f, S
  <2> QED
    BY <2>1, ProgramAssumption, FS_Surjection
<1>3. m \in S /\ m >= options.steps
  <2> HIDE DEF S
  <2>1. S \subseteq Int
    BY <1>1
  <2> QED
    BY <1>1, <1>2, <2>1, Largest
<1>4. m \in Nat /\ options.steps \in Nat /\ MostFrames = 1 + m
  BY <1>1, <1>3 DEF MostFrames
<1> HIDE DEF m
<1> QED
  BY <1>3, <1>4

LEMMA Replaced == ASSUME NEW x, NEW y PROVE [<<x>> EXCEPT ![1] = y] = <<y>>
OBVIOUS

(* The steps of the directory, in terms of what it is made of. *)
LEMMA DirectorySteps ==
  \/ RunStatus = "new" /\ RunStatus' = "running" /\ Len(spool)' = Len(spool)
  \/ RunStatus = "running" /\ RunStatus' = "running" /\ Len(spool) < MostFrames /\ Len(spool)' = Len(spool) + 1
  \/ RunStatus = "running" /\ RunStatus' = "complete" /\ Len(spool) > 0 /\ Len(spool)' = Len(spool)
  \/ RunStatus = "running" /\ RunStatus' = "failed" /\ Len(spool)' = Len(spool)
  => Directory!DirStep
<1> DEFINE times == [f \in {1} \X (0 .. MostFrames - 1) |-> 0]
<1>1. \A f : [times EXCEPT ![f] = 0] = times
  OBVIOUS
<1>2. 1 \in Directory!Runs /\ \A q \in 1 .. 1 - 1 : <<RunStatus>>[q] # "new"
  BY DEF Directory!Runs
<1>3. times' = times
  BY DEF MostFrames
<1>4. <<RunStatus>>[1] = RunStatus /\ <<Len(spool)>>[1] = Len(spool) /\ <<MostFrames>>[1] = MostFrames
  OBVIOUS
<1>5. /\ [<<RunStatus>> EXCEPT ![1] = "running"] = <<"running">>
      /\ [<<RunStatus>> EXCEPT ![1] = "complete"] = <<"complete">>
      /\ [<<RunStatus>> EXCEPT ![1] = "failed"] = <<"failed">>
      /\ [<<Len(spool)>> EXCEPT ![1] = Len(spool) + 1] = <<Len(spool) + 1>>
  BY Replaced
<1>6. ASSUME RunStatus = "new", RunStatus' = "running", Len(spool)' = Len(spool)
      PROVE  Directory!StartRun(1)
  BY <1>2, <1>3, <1>4, <1>5, <1>6 DEF Directory!StartRun, Directory!catalogVars
<1>7. ASSUME RunStatus = "running", RunStatus' = "running", Len(spool) < MostFrames, Len(spool)' = Len(spool) + 1
      PROVE  Directory!PublishFrame(1)
  BY <1>1, <1>3, <1>4, <1>5, <1>7 DEF Directory!PublishFrame, Directory!Changed, Directory!catalogVars
<1>8. ASSUME RunStatus = "running", RunStatus' = "complete", Len(spool) > 0, Len(spool)' = Len(spool)
      PROVE  Directory!MarkComplete(1)
  BY <1>3, <1>4, <1>5, <1>8 DEF Directory!MarkComplete, Directory!Changed, Directory!catalogVars
<1>9. ASSUME RunStatus = "running", RunStatus' = "failed", Len(spool)' = Len(spool)
      PROVE  Directory!FailRun(1)
  BY <1>3, <1>4, <1>5, <1>9 DEF Directory!FailRun, Directory!catalogVars
<1> QED
  BY <1>2, <1>6, <1>7, <1>8, <1>9 DEF Directory!DirStep

(* What becomes of the status. *)
LEMMA StatusIs ==
  /\ sequence = 0 /\ ~marker => RunStatus = "new"
  /\ sequence # 0 /\ marker => RunStatus = "complete"
  /\ sequence # 0 /\ ~marker /\ pc \in Over => RunStatus = "failed"
  /\ sequence # 0 /\ ~marker /\ pc \notin Over => RunStatus = "running"
BY DEF RunStatus

LEMMA StatusWas ==
  /\ sequence' = 0 /\ ~marker' => RunStatus' = "new"
  /\ sequence' # 0 /\ marker' => RunStatus' = "complete"
  /\ sequence' # 0 /\ ~marker' /\ pc' \in Over => RunStatus' = "failed"
  /\ sequence' # 0 /\ ~marker' /\ pc' \notin Over => RunStatus' = "running"
BY DEF RunStatus

(* A step that publishes nothing and marks nothing ends the run, or changes nothing of it. *)
LEMMA StatusStays ==
  ASSUME UNCHANGED <<sequence, marker, spool>>, pc \in Over => pc' \in Over
  PROVE  \/ UNCHANGED <<RunStatus, Len(spool)>>
         \/ RunStatus = "running" /\ RunStatus' = "failed" /\ Len(spool)' = Len(spool)
<1>1. Len(spool)' = Len(spool)
  OBVIOUS
<1>2. CASE sequence = 0 \/ marker \/ (pc \in Over <=> pc' \in Over)
  <2>1. CASE ~(sequence = 0 /\ marker)
    BY <1>1, <1>2, <2>1, StatusIs, StatusWas
  <2>2. CASE sequence = 0 /\ marker
    BY <1>1, <2>2 DEF RunStatus
  <2> QED
    BY <2>1, <2>2
<1>3. CASE sequence # 0 /\ ~marker /\ pc \notin Over /\ pc' \in Over
  BY <1>1, <1>3, StatusIs, StatusWas
<1> QED
  BY <1>2, <1>3

LEMMA RunStep ==
  ProgramInv /\ [Next]_vars => Directory!DirStep \/ UNCHANGED <<RunStatus, Len(spool)>>
<1> SUFFICES ASSUME ProgramInv, [Next]_vars PROVE Directory!DirStep \/ UNCHANGED <<RunStatus, Len(spool)>>
  OBVIOUS
<1>t. sequence \in Nat /\ marker \in BOOLEAN /\ sequence + 1 # 0 /\ (marker => pc \in Over)
  BY DEF ProgramInv, NumberInv
<1>1. CASE Due \/ ForceLast
  <2>1. pc \notin Over /\ pc' \notin Over /\ sequence' = sequence + 1 /\ UNCHANGED <<marker, spool>>
    BY <1>1 DEF Due, ForceLast, Over, Ended
  <2>2. ~marker /\ RunStatus' = "running" /\ Len(spool)' = Len(spool)
    BY <1>t, <2>1, StatusWas
  <2>3. RunStatus = "new" \/ RunStatus = "running"
    BY <2>1, <2>2, StatusIs
  <2> QED
    BY <2>2, <2>3, DirectorySteps
<1>2. CASE PublishFrame
  <2>1. pc = "publish" /\ pc' = "loop" /\ UNCHANGED <<sequence, marker>>
    BY <1>2 DEF PublishFrame
  <2>2. ~marker /\ sequence # 0 /\ pc \notin Over /\ pc' \notin Over
    BY <1>t, <2>1 DEF ProgramInv, NumberInv, Over, Ended, Writing
  <2>3. RunStatus = "running" /\ RunStatus' = "running"
    BY <2>1, <2>2, StatusIs, StatusWas
  <2>4. Len(spool)' = Len(spool) + 1 /\ Len(spool) \in Nat
    BY <1>2, Published DEF ProgramInv
  <2>5. Len(spool) < MostFrames
    <3>1. Len(spool) <= lastCapturedStep + 1 /\ lastCapturedStep < stepNumber /\ stepNumber <= options.steps
      BY <2>1 DEF ProgramInv, SpoolInv, NumberInv, MainInv, Writing
    <3>2. MostFrames \in Nat /\ options.steps + 1 <= MostFrames
      BY WithinMost
    <3>3. lastCapturedStep \in Int /\ stepNumber \in Nat /\ options.steps \in Nat
      BY ProgramAssumption DEF ProgramInv, NumberInv, MainInv, SimInv, Never
    <3> QED
      BY <2>4, <3>1, <3>2, <3>3
  <2> QED
    BY <2>3, <2>4, <2>5, DirectorySteps
<1>3. CASE MarkComplete
  <2>1. /\ pc = "loop" /\ pc' = "unwind" /\ UNCHANGED <<sequence, spool>> /\ marker' = options.streaming
        /\ Len(spool)' = Len(spool) /\ options.streaming \in BOOLEAN
    BY <1>3, ProgramAssumption DEF MarkComplete, ProgramInv, MainInv
  <2>2. pc \notin Over /\ pc' \in Over /\ ~marker
    BY <1>t, <2>1 DEF Over, Ended
  <2>3. CASE ~options.streaming
    <3>1. sequence = 0 /\ ~marker'
      BY <1>t, <2>1, <2>3 DEF ProgramInv, NumberInv
    <3> QED
      BY <2>1, <2>2, <2>3, StatusIs, StatusWas DEF ProgramInv, NumberInv
  <2>4. CASE options.streaming
    <3>1. sequence > 0 /\ sequence = Len(spool)
      BY <2>1, <2>2, <2>4 DEF ProgramInv, NumberInv, SpoolInv, Writing
    <3>2. RunStatus = "running" /\ RunStatus' = "complete"
      BY <1>t, <2>1, <2>2, <2>4, <3>1, StatusIs, StatusWas
    <3> QED
      BY <2>1, <3>1, <3>2, DirectorySteps
  <2> QED
    BY <2>1, <2>3, <2>4
<1>4. CASE UNCHANGED <<sequence, marker, spool>> /\ (pc \in Over => pc' \in Over)
  BY <1>4, StatusStays, DirectorySteps
<1>5. OpenSpool \/ ForkServer \/ StartupOver \/ StartupFailed \/ LoadParticles \/ CreateWriter =>
        UNCHANGED <<sequence, marker, spool>> /\ pc \notin Over
  BY DEF OpenSpool, ForkServer, StartupOver, StartupFailed, LoadParticles, CreateWriter, captureVars, Over, Ended
<1>6. CallInitialize \/ CallStep \/ Simulate \/ Simulated \/ SimulationThrows =>
        UNCHANGED <<sequence, marker, spool>> /\ pc \notin Over
  BY DEF CallInitialize, CallStep, Simulate, Simulated, SimulationThrows, captureVars, Over, Ended
<1>7. NotDue \/ WriteFrame \/ Fail => UNCHANGED <<sequence, marker, spool>> /\ pc \notin Over
  BY DEF NotDue, WriteFrame, Fail, Over, Ended
<1>8. Unwind \/ StopServer \/ PollServer \/ ReapServer => UNCHANGED <<sequence, marker, spool>> /\ pc' \in Over
  BY DEF Unwind, StopServer, PollServer, ReapServer, Reaped, captureVars, Over, Ended
<1>9. Kill \/ ServerEnds \/ UNCHANGED vars => UNCHANGED <<sequence, marker, spool>> /\ (pc' \in Over \/ pc' = pc)
  BY DEF Kill, ServerEnds, vars, captureVars, Over, Ended
<1> QED
  BY <1>1, <1>2, <1>3, <1>4, <1>5, <1>6, <1>7, <1>8, <1>9 DEF Next, Main

(* The program's run is one of FrameCatalog's directory: the viewer's server may assume of the *)
(* spool what FrameCatalog does, that frames appear one by one, nothing after the marker. *)
THEOREM RunsInDirectory == Spec => DirectorySpec
<1>1. Init => RunStatus = "new" /\ spool = <<>>
  BY DEF Init, RunStatus
<1>2. ProgramInv /\ [Next]_vars => [Directory!DirStep]_<<RunStatus, Len(spool)>>
  BY RunStep
<1> QED
  BY <1>1, <1>2, ProgramInvariant, PTL DEF Spec, DirectorySpec

===========================================================================

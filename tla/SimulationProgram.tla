--------------------------- MODULE SimulationProgram ---------------------------
(***************************************************************************)
(* The program nbody (apps/simulation/main.cpp) around SimulationSteps: it *)
(* starts a stream server if asked to, loads a particle file, captures     *)
(* frames when they are due, always the first and the last state, marks    *)
(* the run complete, and stops its server when it ends                     *)
(* (server_process.cpp). Anything that may throw may throw; the program    *)
(* may be killed, and its server may end, at any time.                     *)
(***************************************************************************)
EXTENDS SimulationSteps, ParticleFile, FrameCapture

CONSTANTS
  Options,      \* command lines: [streaming, cluster, steps, maximum]
  InputFiles,   \* the particle files
  Motions,      \* where the particles are after each drift: drifts -> particle -> Int
  TypeOf(_),    \* a particle's type in a file that has types
  Unknown,      \* and in one that has none
  Interval,     \* 1 / sample-rate in ticks of the wall clock
  MaxTime,      \* bound: the clock stops
  MaxAttempts   \* how often the end of the server is polled before SIGKILL (20)

\* Steps and maximum are of 64 bits: the command lines that differ are finitely many.
ASSUME ProgramAssumption ==
  /\ \A o \in Options :
       /\ o.streaming \in BOOLEAN /\ (o.cluster => o.streaming)
       /\ o.steps \in Nat \ {0} /\ o.maximum \in Nat
  /\ IsFiniteSet(Options)
  /\ \A f \in InputFiles : f.count \in Nat
  /\ \A m \in Motions, f \in InputFiles, o \in Options :
       \A drifts \in 0 .. o.steps, i \in 0 .. f.count - 1 : m[drifts][i] \in Int
  /\ Interval \in Nat \ {0} /\ MaxTime \in Nat /\ MaxAttempts \in Nat

VARIABLES
  options, file, motion,  \* this run's
  pc,                     \* where main, or its unwinding, stands
  loaded,                 \* the layout the particles were read by
  sampledTypes,           \* the DeviceFrameWriter's
  nextSampleTime, sequence, clock, forced,  \* the FrameSampler's, the time, the capture's kind
  part, spool, marker,    \* the .part file (none or one), the frames published, the marker
  lastCapturedStep,
  exitCode,
  child, attempts,        \* the server's process; how often its end was polled
  signalled               \* whether SIGKILL was sent

mainVars == <<loaded, sampledTypes, exitCode>>
captureVars == <<nextSampleTime, sequence, clock, forced, part, spool, marker, lastCapturedStep>>
childVars == <<child, attempts, signalled>>
inputs == <<options, file, motion>>
vars == <<simVars, inputs, pc, mainVars, captureVars, childVars>>

Never == -1
Ended == {"exited", "killed"}

Init ==
  /\ SimInit
  /\ options \in Options /\ file \in InputFiles /\ motion \in Motions
  /\ pc = "open" /\ loaded = Unsupported /\ sampledTypes = <<>> /\ exitCode = Never
  /\ nextSampleTime = 0 /\ sequence = 0 /\ clock = 0 /\ forced = FALSE
  /\ part = {} /\ spool = <<>> /\ marker = FALSE /\ lastCapturedStep = Never
  /\ child = "none" /\ attempts = 0 /\ signalled = FALSE

Count == file.count
FrameSize == SampleSize(Count, options.maximum)
Types == [i \in 0 .. Count - 1 |-> IF loaded.typed THEN TypeOf(i) ELSE Unknown]

----------------------------------------------------------------------------
(* Start: the spool, the server, the particles. *)

OpenSpool ==
  /\ pc = "open"
  /\ pc' = IF options.cluster THEN "fork" ELSE "load"
  /\ UNCHANGED <<simVars, inputs, mainVars, captureVars, childVars>>

ForkServer ==
  /\ pc = "fork" /\ pc' = "startup" /\ child' = "running"
  /\ UNCHANGED <<simVars, inputs, mainVars, captureVars, attempts, signalled>>

\* After 100 ms: a server that has already ended is reaped and reported.
StartupOver ==
  /\ pc = "startup" /\ child = "running" /\ pc' = "load"
  /\ UNCHANGED <<simVars, inputs, mainVars, captureVars, childVars>>

StartupFailed ==
  /\ pc = "startup" /\ child = "zombie"
  /\ child' = "reaped" /\ pc' = "unwind" /\ exitCode' = 1
  /\ UNCHANGED <<simVars, inputs, loaded, sampledTypes, captureVars, attempts, signalled>>

LoadParticles ==
  LET layout == detect_particle_file_header(file)
  IN /\ pc = "load" /\ layout # Unsupported
     /\ loaded' = layout
     /\ pc' = IF options.streaming THEN "writer" ELSE "initialize"
     /\ UNCHANGED <<simVars, inputs, sampledTypes, exitCode, captureVars, childVars>>

\* The types never change: they are sampled once.
CreateWriter ==
  /\ pc = "writer" /\ pc' = "initialize"
  /\ sampledTypes' = Gathered(Types, Count, FrameSize)
  /\ UNCHANGED <<simVars, inputs, loaded, exitCode, captureVars, childVars>>

----------------------------------------------------------------------------
(* The simulation: initialize once, then step by step. *)

CallInitialize ==
  /\ pc = "initialize" /\ pc' = "simulate" /\ Initialize
  /\ UNCHANGED <<inputs, mainVars, captureVars, childVars>>

CallStep ==
  /\ pc = "loop" /\ stepNumber < options.steps /\ pc' = "simulate" /\ Step
  /\ UNCHANGED <<inputs, mainVars, captureVars, childVars>>

Simulate ==
  /\ pc = "simulate" /\ Stages
  /\ UNCHANGED <<inputs, pc, mainVars, captureVars, childVars>>

Simulated ==
  /\ pc = "simulate" /\ todo = <<>>
  /\ pc' = IF options.streaming THEN "capture" ELSE "loop"
  /\ UNCHANGED <<simVars, inputs, mainVars, captureVars, childVars>>

SimulationThrows ==
  /\ pc = "simulate" /\ Throw
  /\ pc' = "unwind" /\ exitCode' = 1
  /\ UNCHANGED <<inputs, loaded, sampledTypes, captureVars, childVars>>

----------------------------------------------------------------------------
(* captureFrame. *)

\* When the next frame will be due, after one that is due at `now`. Mutant: intervals that
\* have passed are made up for.
OneIntervalOn(now) == nextSampleTime + Interval
Rescheduled(now) == nextSampleTime + ((now - nextSampleTime) \div Interval + 1) * Interval

NotDue ==
  /\ pc = "capture" /\ pc' = "loop"
  /\ clock' \in {now \in clock .. MaxTime : now < nextSampleTime}
  /\ UNCHANGED <<simVars, inputs, mainVars, nextSampleTime, sequence, forced, part, spool,
                 marker, lastCapturedStep, childVars>>

\* isDue; takeSequence comes before the frame is written.
Due ==
  /\ pc = "capture" /\ pc' = "write"
  /\ clock' \in {now \in clock .. MaxTime : now >= nextSampleTime}
  /\ nextSampleTime' = Rescheduled(clock')
  /\ sequence' = sequence + 1 /\ forced' = FALSE
  /\ UNCHANGED <<simVars, inputs, mainVars, part, spool, marker, lastCapturedStep, childVars>>

\* Mutant: a frame of any step will do for the last.
AnyFrame == lastCapturedStep # Never
LastIsCaptured == lastCapturedStep = stepNumber

ForceLast ==
  /\ pc = "loop" /\ stepNumber = options.steps /\ options.streaming /\ ~LastIsCaptured
  /\ pc' = "write" /\ sequence' = sequence + 1 /\ forced' = TRUE
  /\ UNCHANGED <<simVars, inputs, mainVars, nextSampleTime, clock, part, spool, marker,
                 lastCapturedStep, childVars>>

\* The frame is written under its temporary name...
WriteFrame ==
  LET content == Quantized(motion[positions], sampledTypes, Count, FrameSize)
  IN /\ pc = "write" /\ pc' = "publish"
     /\ \A i \in DOMAIN spool : spool[i].sequence # sequence - 1
     /\ part' = {[sequence |-> sequence - 1, simulationStep |-> stepNumber, time |-> clock,
                  forced |-> forced, content |-> content]}
     /\ UNCHANGED <<simVars, inputs, mainVars, nextSampleTime, sequence, clock, forced, spool,
                    marker, lastCapturedStep, childVars>>

\* ...and renamed.
PublishFrame ==
  /\ pc = "publish" /\ pc' = "loop"
  /\ \E frame \in part : spool' = Append(spool, frame)
  /\ part' = {} /\ lastCapturedStep' = stepNumber
  /\ UNCHANGED <<simVars, inputs, mainVars, nextSampleTime, sequence, clock, forced, marker, childVars>>

\* Mutant: the run is marked first, and its last frame published after that.
MarkFirst ==
  /\ pc = "loop" /\ stepNumber = options.steps
  /\ marker' = options.streaming
  /\ IF options.streaming => LastIsCaptured THEN pc' = "unwind" /\ exitCode' = 0
     ELSE UNCHANGED <<pc, exitCode>>
  /\ UNCHANGED <<simVars, inputs, loaded, sampledTypes, nextSampleTime, sequence, clock, forced,
                 part, spool, lastCapturedStep, childVars>>

MarkComplete ==
  /\ pc = "loop" /\ stepNumber = options.steps /\ (options.streaming => LastIsCaptured)
  /\ pc' = "unwind" /\ exitCode' = 0
  /\ marker' = options.streaming
  /\ UNCHANGED <<simVars, inputs, loaded, sampledTypes, nextSampleTime, sequence, clock, forced,
                 part, spool, lastCapturedStep, childVars>>

----------------------------------------------------------------------------
(* Failure and the end. *)

\* What is left of a frame that failed. Mutant: all that was written.
KeepPart(temporary) == temporary
RemovePart(temporary) == {}

\* Outside the simulation: no directory, no process, no file, no memory, no disk space.
Fail ==
  /\ \/ pc \in {"open", "fork", "load", "writer", "write", "publish"}
     \/ pc = "loop" /\ stepNumber = options.steps /\ options.streaming /\ LastIsCaptured
  /\ pc' = "unwind" /\ exitCode' = 1 /\ part' = RemovePart(part)
  /\ UNCHANGED <<simVars, inputs, loaded, sampledTypes, nextSampleTime, sequence, clock, forced,
                 spool, marker, lastCapturedStep, childVars>>

\* The simulation is destroyed, then the server; it has no destructor to run if it was never
\* started or its startup failed.
Unwind ==
  /\ pc = "unwind" /\ Destroy
  /\ pc' = IF child \in {"none", "reaped"} THEN "exited" ELSE "stop"
  /\ UNCHANGED <<inputs, mainVars, captureVars, childVars>>

Reaped == child' = "reaped" /\ pc' = "exited" /\ UNCHANGED <<attempts, signalled>>

\* Mutant: SIGKILL is not sent.
OnlyTerminate(killed) == killed
Killing(killed) == TRUE

\* Nothing to stop, or SIGTERM.
StopServer ==
  /\ pc = "stop"
  /\ \/ child = "zombie" /\ Reaped
     \/ child = "running" /\ pc' = "wait" /\ UNCHANGED childVars
  /\ UNCHANGED <<simVars, inputs, mainVars, captureVars>>

PollServer ==
  /\ pc = "wait"
  /\ \/ attempts < MaxAttempts /\ child = "zombie" /\ Reaped
     \/ /\ attempts < MaxAttempts /\ child = "running"
        /\ attempts' = attempts + 1 /\ UNCHANGED <<pc, child, signalled>>
     \/ /\ attempts = MaxAttempts
        /\ signalled' = Killing(signalled) /\ pc' = "reap" /\ UNCHANGED <<child, attempts>>
  /\ UNCHANGED <<simVars, inputs, mainVars, captureVars>>

ReapServer ==
  /\ pc = "reap" /\ child = "zombie" /\ Reaped
  /\ UNCHANGED <<simVars, inputs, mainVars, captureVars>>

\* The server ends: it cannot start, it fails, it heeds SIGTERM, or it is killed.
ServerEnds ==
  /\ child = "running" /\ child' = "zombie"
  /\ UNCHANGED <<simVars, inputs, pc, mainVars, captureVars, attempts, signalled>>

\* A signal ends the program: nothing is unwound, the system frees its memory.
Kill ==
  /\ pc \notin Ended /\ pc' = "killed"
  /\ live' = {} /\ member' = Nothing /\ staged' = Nothing
  /\ state' = "destroyed" /\ todo' = <<>>
  /\ UNCHANGED <<stepNumber, positions, kicks, acceleration, nextAcceleration, misfreed, inputs,
                 mainVars, captureVars, childVars>>

----------------------------------------------------------------------------
Main ==
  \/ OpenSpool \/ ForkServer \/ StartupOver \/ StartupFailed \/ LoadParticles \/ CreateWriter
  \/ CallInitialize \/ CallStep \/ Simulate \/ Simulated \/ SimulationThrows
  \/ NotDue \/ Due \/ ForceLast \/ WriteFrame \/ PublishFrame \/ MarkComplete
  \/ Fail \/ Unwind \/ StopServer \/ PollServer \/ ReapServer

Next == Main \/ ServerEnds \/ Kill

Spec == Init /\ [][Next]_vars

\* The program runs on, and a killed process ends.
FairSpec == Spec /\ WF_vars(Main) /\ WF_vars(signalled /\ ServerEnds)

----------------------------------------------------------------------------
(* Properties. *)

\* The particles are read by the layout they were written in, whichever of the four it is
\* (detect_particle_file_header guesses it from the file's start and its size).
LoadsAsWritten == loaded \in {Unsupported, file.layout}

\* Every published frame names the step whose state it shows: positions of the sampled
\* particles within half a quantum, each with its own type; frames are numbered without a
\* gap in the order of their steps, at most one per step.
FramesFaithful ==
  \A i \in DOMAIN spool :
    LET frame == spool[i]
    IN /\ Consistent(frame.content)
       /\ Shows(frame.content, motion[frame.simulationStep], Types)
       /\ frame.sequence = i - 1
       /\ i > 1 => spool[i - 1].simulationStep < frame.simulationStep

\* A run marked complete has published its initial and its final state, and only a run that
\* did all its steps is marked; a program that says it succeeded has marked its run.
CompleteRun ==
  /\ marker => /\ stepNumber = options.steps
               /\ spool[1].simulationStep = 0
               /\ spool[Len(spool)].simulationStep = options.steps
  /\ exitCode = 0 /\ options.streaming => marker

\* What FrameCatalog assumes of a run it watches, and FrameStream of one it serves: frames
\* appear one by one, a marker only after the first and nothing after the marker, nothing
\* after the run has ended. The program is a run of FrameCatalog's directory.
Over == {"unwind", "stop", "wait", "reap"} \cup Ended
RunStatus ==
  CASE sequence = 0 -> "new"
    [] marker -> "complete"
    [] OTHER -> IF pc \in Over THEN "failed" ELSE "running"
MostFrames == 1 + Max({o.steps : o \in Options})
Directory == INSTANCE FrameCatalog WITH
  NumRuns <- 1, MaxFrames <- <<MostFrames>>, DistinctTimes <- FALSE, MaxTicks <- 0, MaxScanFaults <- 0,
  clock <- 0, dirTime <- 0, frameTime <- [f \in {1} \X (0 .. MostFrames - 1) |-> 0],
  sim <- <<RunStatus>>, produced <- <<Len(spool)>>,
  snapshot <- 0, modified <- 0, initialized <- FALSE, due <- FALSE, phase <- "idle",
  scanned <- {}, scanFaults <- 0
DirectorySpec ==
  /\ RunStatus = "new" /\ spool = <<>>
  /\ [][Directory!DirStep]_<<RunStatus, Len(spool)>>

\* Frames that are not forced fall into different intervals of the sampling rate, however
\* long a step takes (isDue skips the intervals that have passed).
OncePerInterval ==
  \A i, j \in DOMAIN spool :
    i < j /\ ~spool[j].forced => spool[i].time \div Interval < spool[j].time \div Interval

\* A program that ends by itself leaves nothing behind: its server has ended and been waited
\* for, and no temporary file is left.
NothingLeft == pc = "exited" => child \in {"none", "reaped"} /\ part = {}

\* The program ends, whatever fails and whether or not its server heeds SIGTERM.
Terminates == <>(pc \in Ended)
=============================================================================

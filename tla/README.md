# A verification project for AMSC-Nbody

AMSC-Nbody is a CUDA Barnes-Hut simulator of gravitating bodies that can run headless on a
cluster, write sampled frames into a spool directory, stream them over TCP to a workstation,
and show them in a browser or a native viewer. This directory holds TLA+ models of its
concurrent and its algorithmic parts, the TLC configurations that check them, and proofs
checked by TLAPS.

## The system and its parts

| part | code | state it keeps | operations |
|---|---|---|---|
| simulation program | `apps/simulation/main.cpp`, `src/simulation.cpp` | uninitialised / ready / failed, two generations of spatial resources, two acceleration buffers | `initialize`, `step`, `run`, capture of a frame when one is due, completion marker |
| octree construction | `gpu/cuda_kernels/globalbounding.cu`, `morton.cu`, `morton_leaf_groups.cu`, `tree_builder.cu`, `radix_to_octree.cu`, `octree_builder.cu`, `octree_geometry.cu` | Morton keys, leaf groups, radix tree, plan, octree arrays | bound, key, sort, group, build the radix tree, plan and materialise the octree, place its cells |
| octree physics | `gpu/cuda_kernels/octree_physics.cu` | masses, centres of mass, atomic arrival counters | clear, count, initialise leaves, propagate |
| force traversal | `gpu/cuda_kernels/barnes_hut.cu` | current node of each thread | accept, descend, skip |
| integrator | `gpu/cuda_kernels/integrator.cu`, `simulation.cu` | two acceleration buffers | half kick and drift, half kick, swap |
| device capture | `src/streaming/device_capture.cu` | sample buffers | choose the sample, reduce its bounds, quantise |
| frame spool | `src/streaming/frame.cpp` | `.part`, `.nbsnap` and `.complete` files of a directory | write and publish a frame, mark a run complete, read and validate a frame |
| server process | `src/streaming/server_process.cpp` | a child's pid | fork, startup check, SIGTERM, SIGKILL |
| stream server | `src/streaming/network.cpp`, `apps/stream_server` | a listener, one client's connection, a listing of the spool and the place in it | accept, list, send, await acknowledgement, remove, rescan, end |
| stream client | `src/streaming/network.cpp`, `apps/stream_client` | a connection, an output directory | connect, receive into `.part`, rename, validate, acknowledge, reconnect |
| browser viewer | `apps/browser_viewer/main.cpp`, `web/app.js`, `web/frame_parser.mjs` | server: a catalog cached by directory time; page: catalog, index, cache, generation | refresh; poll, fetch, show, loop |
| Metal viewer | `apps/viewer/main.mm` | a watched directory | poll, pick the newest session |
| particle files | `src/particle.hpp` | none | detect the layout, load |
| tools | `data/`, `scripts/`, `vpn_remote_auth.py`, CI | none shared with the above | - |

How they interact: the simulator publishes frames by renaming `.part` files in the spool
directory; stream servers poll that directory, send what they list to one client at a time and
remove a frame when its acknowledgement arrives; clients rename what they receive into an
output directory; the browser viewer scans a retained spool directory and notices the
completion marker. The spool directory is the only shared state between the processes. Inside
the simulator, GPU threads share the octree's arrays and synchronise by atomic counters.

What is hard here: a crash, a lost connection or a timeout between any two steps of sending,
storing, acknowledging and removing; several servers on one spool; listings and catalogs that
are stale when used; a poll that has no timeout; threads that build a tree and meet at its nodes
without a barrier; bit arithmetic at the ends of keys and ranges; a walk that remembers only
where it is; resources that are replaced while a failure may strike.

## The modules

    FrameDelivery  <--implements--  FrameStream  <--instance--  MCFrameStream
                                         ^--- FrameStreamProofs
    FrameCatalog  <--extends, implements--  BrowserViewer  <--instance--  MCBrowserViewer
                                                 ^--- BrowserViewerProofs
    MassPropagation  <--instance--  MCMassPropagation
           ^--- MassPropagationProofs

    Words  <--  RadixTree  <-----------------------  OctreeBuilder
      ^---  MortonKeys  <--  SparseOctree  <-----------'   |
                                  ^---  ForceTraversal     |
                                            ^--------------+--  ForcePipeline
    ForcePipeline  <--extends--  RadixTreeProofs  <--extends--  MortonKeysProofs
                          ForceTraversalProofs  --extends-->  OctreeBuilderProofs  ---^
    StackTraversal  <--implements--  ForcePipeline  <--instance--  MCForcePipeline

    SimulationSteps, ParticleFile, FrameCapture  <--extends--  SimulationProgram
    FrameCatalog's directory  <--implements--  SimulationProgram  <--instance--  MCSimulation
                                                   ^--- SimulationProgramProofs

`tlc -config X.cfg M` in this directory runs configuration `X.cfg` of module `M`;
`tlapm XProofs.tla` checks a proof module. `PROJECT.json` says for every definition which
lines of the source it stands for.

### FrameDelivery: what the streaming path promises

Three variables: what each run has published, which frames are queued, which are delivered.
A queued frame may be delivered, any number of times; it may leave the queue only when it has
been delivered. This is at-least-once delivery. No order is promised: in what order a run's frames
arrive is `FrameStream!InOrder`.

### FrameStream: servers, clients and the spool

| state | in the code |
|---|---|
| `sim`, `produced`, `spool` | the simulator's `FrameSpool` and the `.nbsnap` files in its directory |
| `pending[s]` | the connections queued at a server's listening socket |
| `server[s]` | where `runServer` / `serveClient` / `sendFrame` stand, the peer, the listing left (`todo`), the frame in hand, how much of it is sent, an acknowledgement not read yet, the server's end of the connection |
| `client[c]` | where `downloadFrames` / `receiveFrame` stand, the client's end, the bytes sent and not read (`wire`), the `.part` file |
| `out[c]` | the files under their final names in a client's output directory |
| `late[s]` | the frames renamed into the spool since server `s` opened the directory for the listing it is making |

Two history variables serve the properties only: `abreast`, the pairs of frames that were published
during one listing, and `skipped`, the queued frames that a server failed to look at.

`StartServer`, `Accept`, `EndListing`, `ChooseFrame`, `OfferFrame`, `SendData`, `ReadAck`, `RemoveFrame`,
`EndBacklog` and `Rescan` follow the server; after an exception in `serveClient`, `AbandonClient`
closes the connection. `Connect`, `BeginReceive`, `ReceiveData`, `StoreFrame`,
`ValidateFrame`, `SendAck`, `ReadEnd`, `FailDownload` follow the client. `CrashServer`,
`CrashClient`, `ServingInterrupted`, `ReceiveInterrupted` (a timeout, a signal, a failing system
call), `StatFails` and `LoseConnection` are the faults. A lost connection leaves each end open, closed or
dead: a closed end is reported once what arrived before has been read, a dead one never.

A listing is not atomic. `Accept` and `Rescan` open the directory and `EndListing` ends the
iteration over it, with publications, removals, crashes and other servers in between. What is there
when the directory is opened is found; of what is renamed in meanwhile, any subset, since it is
unspecified whether a directory iterator returns an entry added after it was opened. So of two
frames published during one listing the newer may be found and the older missed. An `is_regular_file` or
`exists` that fails on a frame that is there passes it over (`StatFails`), in the listing or when
its turn comes. A directory that cannot be opened or read on ends the connection
(`ServingInterrupted`).

A frame's content is `Chunks` I/O buffers, so a crash or a timeout may fall inside a frame.
No two clients share an output directory, and what is renamed stays: process crashes only, the
file system loses nothing.

### FrameCatalog and BrowserViewer: watching a directory

`FrameCatalog` is the directory of retained frames with its modification times, and the
server's cached catalog of it. `refreshIfNeeded` is not atomic in the model: `BeginScan` reads
the directory's time, `Scan` finds the files, `FinishRefresh` looks for the marker, and runs
publish in between. A scan may fail as a whole (`ScanFails`: the old snapshot stays), ignore a frame
whose kind, header or time it cannot read (`FrameIgnored`), or take a marker it cannot look at for
none (`MarkerFails`). That the directory's own time cannot be read changes no state but that of the
interval and is left out. The clock behind modification times may stand still between two changes
(`DistinctTimes = FALSE`). `BrowserViewer` adds the single-threaded HTTP server, which works on
one request at a time, and the page: `PollTimer` / `PollAnswered` are `pollCatalog`,
`SelectFrame` is `selectFrame` with its generation number (a download is `current` or not),
`FinishLoad` is what happens when a download ends, `Advance` the animation loop. The cache and
the prefetch of the next frame are modelled; the parsing and the drawing of a frame are not.
Every viewer step is a step of `FrameCatalog` or leaves its variables alone, which is proved.

### MassPropagation: threads that climb a tree

One thread per leaf of the octree. A step of a thread is what it does up to the next point
where another thread can tell: making its store visible (`Flush`, at some time before the fence
ends), the fence, the atomic addition on the parent's counter (`Arrive`), the load of one child
(`Load`), the store of the parent's sum (`Store`). A mass is the set of leaves it sums, which tells apart what
rounding does not. `Incoherent` adds a cache per multiprocessor that only a fence of the same
multiprocessor empties. The host's launches (`Clear`, `CountChildren`, `InitializeLeaves`) are
steps of their own, since every kernel sees the results of the one before. Error reports for malformed octrees are left
out except the one for too many signals (error 7): the trees are those a builder may produce.

### Octree construction: Words, MortonKeys, RadixTree, SparseOctree, OctreeBuilder

`Words` are 32-bit integers as sets of bit positions, with shifts, exclusive or and leading
zeros. `MortonKeys` is the bounding cube, the quantisation of a coordinate and the interleaving
of bits with the code's own masks; coordinates are integers and quotients stay fractions, so the
one rounding left is the truncation in `quantise_kernel`. `RadixTree` holds the helpers of
`tree_builder.cu` (`longestCommonPrefix`, `determineDirection`, `determineRange`, `findSplit`).
`OctreeBuilder` runs the stages of `Simulation::rebuildSpatialStructure`. A kernel whose threads
write only what is theirs is one action. `BuildNode(i)` is one thread of `buildTreeKernel`, and
`LinkNode(r)` one round of the loop by which thread `r` of `materializeSparseOctreeKernel` makes
the nodes of its edge, all threads interleaved; the store of a child's slot is the atomic
compare-and-swap that reports error 4. Every error code these kernels can report for data they
compute is in the model, and ends the build as the host's exception does. `SparseOctree` says,
from the positions and the cube alone, what the octree of the particles is: one node for each
occupied cell, exactly where the cell is, in one slot of its parent, leaves with the particles of
their cells.

### ForceTraversal, StackTraversal and ForcePipeline: walking the octree

One thread per target, and threads share nothing they write, so the model follows one target,
chosen freely. Its state is the node it stands on. `firstTraversalChild` and `nextTraversalNode`
descend and climb as the code does. An acceleration is the number of times each body was added.
Whether a cell that does not contain the target is accepted depends on `theta` and on real
numbers; the model allows both, so what is shown holds for every `theta`. `nodeContainsTarget` is
computed exactly, boundaries included. `StackTraversal` is the traversal with an explicit stack
that a comment of `barnes_hut.cu` says the walk replaced; `ForcePipeline` composes build and walk
and states that the walk implements it, with the stack a function of the node and the octree
(`StackAt`). What a node's mass is comes from `MassPropagation`, which assumes no more of its
tree than that it is one; `OctreeBuilt` says that the builder's are.

### SimulationSteps: one call, many stages

The class `Simulation`: `Initialize` and `Step` queue their stages, `Stages` does the next one,
`Throw` fails it. Device memory is the set `live` of allocations; `member` and `staged` say who
owns which. `Free` notes when something is freed that is not live. Positions are the number of
their drifts, an acceleration is the triple of positions its octree, its order of particles and
its bodies were taken at, and `kicks` is what the velocities consist of.

### SimulationProgram, FrameCapture, ParticleFile: the program around it

`main` from the options to the exit code: the spool, `ServerProcess` and its startup check, the
file, `DeviceFrameWriter`, the loop with `captureFrame`, the forced last frame, the completion
marker, and the destructors (`Unwind`, `StopServer`, `PollServer`, `ReapServer`). `Fail`,
`SimulationThrows` and `StartupFailed` are the exceptions, `Kill` a signal, `ServerEnds` the end
of the child for any reason. `FrameCapture` holds the choice of the sample, its gathering in
chunks, bounds, quantisation and the reader's checks, for one component of the positions.
`ParticleFile` holds the detection of a file's layout. A file is what its author wrote, by
layout and count, and how many bytes it is short; of its content the model knows the one thing
the detection looks at, whether the four bytes after a 32-bit count are zero.

`DirectorySpec` ties this to the other models: the program changes its directory by
`FrameCatalog`'s `StartRun`, `PublishFrame`, `MarkComplete` and `FailRun` only, which is what
`BrowserViewer` and (without the marker) `FrameStream` assume of a run. A frame in the spool is
its header's number, step and time, and the content `Quantized` makes of the sample.

`ProgramAssumption` says of the constants what the code's types say: numbers of steps and
maxima are numbers, with at least one step (`main` refuses zero), a server is started only by a
program that streams, counts are not negative, coordinates are numbers (integers here), and of
the command lines only finitely many differ, their numbers being of 64 bits.

## The runs

| run | question | instance | result |
|---|---|---|---|
| `stream_safety` | Are frames lost? Does the framing slip? Can a newer frame overtake an older one but by a listing or a failing stat? Is it at-least-once delivery? | two servers on one spool, a following and a `--once` client, one run of two frames of two buffers, the second unreadable to the clients, one fault, reported or silent | `TypeOK`, `NoFrameLost`, `InOrder`, `FramingInSync`, `DeliverySpec` hold |
| `stream_order` | Is a `--once` session's listing a snapshot of an ordered queue? | one server, one `--once` client, two frames, no fault | `BacklogInOrder` is violated |
| `stream_liveness` | Is a late acknowledgement taken for another frame's? Does `--once` drain the backlog? Does every frame arrive once faults stop? Is the server's only slot freed? | a following and a `--once` client of one server, two frames, two faults that both ends are told of | `AckMatchesFrame`, `OnceDrainsBacklog`, `EventuallyDelivered`, `SlotFreed` hold |
| `stream_silent_loss` | Does follow mode reconnect after an interruption that nobody reports? | one server, client and frame, one fault | `FollowReconnects` is violated |
| `viewer_page` | Can a late download be shown, or the player wait for a download that is not under way? | runs of two frames and of one, equal modification times, one failure (a scan, a frame or the marker it looks at, or a request), one move of the timeline, a cache of two | `ShowsSelected`, `LoadingIsBacked` hold |
| `viewer_loop` | Is the catalog right, the newest frame followed, a complete run looped? | one run of two frames, a cache of one, nothing fails | `CacheCoherent`, `LoopsOverAllFrames`, `FollowsNewest` hold |
| `viewer_coarse_clock` | Is completion noticed when two changes share a modification time? | one run of two frames, one tick of the clock | `CompletionNoticed` is violated |
| `mass_propagation` | Is every node summed once, by one thread, from final values? | every tree of six nodes | `SubtreeSummed`, `NoOverrun`, `SoleWriter`, `RootSummed` hold |
| `mass_incoherent` | Does that need coherent loads? | a lopsided tree of seven nodes, two multiprocessors | `SubtreeSummed` is violated |
| `octree_pipeline` | Is the octree that of the particles, whatever the order of the threads? Does every walk add every other body once? | 498 layouts of one to five particles at eight places, every choice of accepted cells, massless bodies, with and without softening | `RadixTreeBuilt`, `OctreeBuilt`, `EachBodyOnce`, `OnlySingular`, `StackSpec` hold |
| `simulation` | Is memory owned once, leapfrog in order, every frame what it says, the marker true? Does the program end, and its server with it? | two steps, every failure and a kill anywhere, four layouts of one, three and four particles, files cut short, samples of all or two | `OwnedOnce`, `LeapfrogOrder`, `LoadsAsWritten`, `FramesFaithful`, `CompleteRun`, `OncePerInterval`, `NothingLeft`, `DirectorySpec`, `Terminates` hold |
| `particle_layout` | Is a file always read by the layout it was written in? | the same, with the one file the run above leaves out | `LoadsAsWritten` is violated |

Deadlock is not checked: runs may stop publishing, a `--once` client ends, kernels, walks and the
program come to an end, and each of these leaves the system at rest.

Why the bounds are enough. Streaming: order and durability of a frame depend on the frames
older than it, so two frames of a run meet every case of "older" and "newer", published before,
during or after a listing; a third only makes listings longer. Two
servers are needed for a removal that races a listing; two faults allow one in an attempt and one
in its retry. Two buffers put a fault inside a frame. Where a run has one fault only or reported
losses only, the theorems `Framing`, `AckMatches` and `OnceDrains` allow any number of each. Viewer: a
run of two frames is the smallest that loops, a second run the smallest that changes the
page's run while downloads of the first are under way; a cache of one evicts and downloads
again. The constraint `OneFault` of `viewer_page` allows one failure in all: a scan's or a
request's, not both (the theorems `Shown` and `Backed` allow any number of each). Masses: trees
of six nodes have nodes with one to five children and depths of one to five, so a counter is reached by chains and by stars; the theorems cover every tree. Octree: the
eight places share none to all of the ten levels of cells, lie on faces and corners of cells,
and may be taken twice, so there are equal keys, edges of no, one and many nodes, chains of
single children, and targets on the boundary of a cell they are not in. Program: two steps show
an initialisation, a first and a following step; a sampling interval of two ticks and a clock
of five let a step be shorter or longer than an interval; a chunk of two leaves a rest with
three particles; two polls stand for twenty. Four particles are the only count two layouts fit,
files of three cut short by two bytes fit none.

### Findings

Each violation run checks one sentence of the repository's documentation or comments against
the code:

- *Overtaking.* The comment "Backlog mode is a snapshot of the queue at connection time", and the
  README's "ordered backlog", suppose that a listing shows the spool as it was at one time. The
  directory is read entry by entry, so a session may deliver and remove a frame and end with an older one
  of the same run, published during the same listing, still queued. No frame is lost; a later
  session delivers it after the newer one.
- *Silent loss.* The client waits for the next frame header without a limit and sends nothing,
  so a path lost without FIN or RST is never noticed; the README's "Follow mode reconnects after
  a network interruption" holds for reported interruptions only.
- *Coarse clock.* The catalog can take a change for scanned when two changes have the same
  modification time. The page then never learns of the completion marker.
- *Incoherent loads.* The comment that the last child sees valid masses of all children rests
  on loads that are not served from a stale L1 line; no fence follows the atomic addition.
- *Particle layout.* A typed file of four particles with a 32-bit count whose first mass is a
  round number has the size and the start of an untyped one with a 64-bit count, and is read as
  that: shifted by four bytes, without types and without an error.

Three further disagreements have no run of their own, since they show when a constant of a run
is changed. With `MaxScanFaults = 1` and distinct times `CompletionNoticed` is violated: a scan
that throws, or that cannot look at the marker, has already recorded the directory's new time. With `MaxFetchFaults = 1`,
`FollowsNewest` is violated in the instance of `viewer_loop`: the page counts a frame whose
download failed as selected and does not ask for it again while it is the newest. And "Follow
mode rescans after every acknowledgement" (`network.cpp:421`) is not what `serveClient` does: it
rescans when its listing is exhausted; what is published meanwhile waits, and is delivered, in order
but for what *Overtaking* says.

Three observations are outside the runs. Nothing in the repository writes the markers
`.nbody-latest` and `.nbody-stream-state` that the Metal viewer polls for. A simulator that is
ended by a signal leaves the server it started running, since only a destructor stops it. A
damaged file can be taken for another layout: a 64-bit untyped file of three particles, less one
byte, has the size of a 32-bit typed one.

## Fairness

`FrameStream!FairSpec`: weak fairness of each server's and each client's steps and of their
restart after a crash. They are processes the operating system schedules, their loops never
wait for each other with both sides waiting for ever (that is checked, not assumed), and the
programs are meant to be run again. No fairness on runs, which may stop, nor on faults.

`BrowserViewer!FairSpec`: weak fairness of the server, of the page's timers and callbacks and
of time. Accepting is strongly fair for each kind of request: the listening socket queues
connections first come, first served, which the model does not spell out. The user need not
act.

`MassPropagation!FairSpec`: weak fairness of each launch and of each thread. No thread waits
for another, so this needs no assumption on how a GPU schedules warps.

`SimulationProgram!FairSpec`: the program's own steps go on, and a process that was sent SIGKILL
ends. Its server need not heed SIGTERM, nor end at all, before that.

`ForcePipeline` states no fairness: that a walk ends follows from `StackSpec`, since a
depth-first traversal of a finite tree ends, and is not checked as a property of its own.

## What is proved

Every theorem below holds for all values of the constants that satisfy the modules' `ASSUME`s.

**Streaming** (`FrameStreamProofs`): `TypeCorrect`, `NoLoss`, `Ordered`, `Refinement`, all from the inductive invariant
`IInv`. `NoFrameLost` and `InOrder` are not inductive: a client may hold a copy
of a frame that is about to become its file. `IInv` therefore follows a copy all the way. A
frame is *Clear* when it is published and no older frame of its run is in the spool, but for those
it may overtake (`MayOvertake`: the two were published during one listing, or a server failed to look at the
older one); since a run publishes in order and these histories only grow (`HistoryGrows`), a Clear
frame stays Clear (`ClearStable`). While a server reads the directory, all that is in the spool was there when it
began or has come since (`LateInv`). So a listing holds, for each of its frames, every older
one that is still in the spool and may not be overtaken (`ListingInv`), and the first one
of a listing that can be opened is Clear (`ChosenIsClear`); the frame being sent (`ServingInv`) and
everything on a wire, in a `.part` file or stored (`CopiesInv`) comes from it. Backwards, a
validated file is Delivered, so is what an acknowledgement names, so is what is removed
(`EvidenceInv`). With `IInv`, each step that changes the spool or an output directory is a
`Publish`, `Deliver` or `Remove` of `FrameDelivery`, and the others stutter. `NoLoss` and
`Refinement` need nothing of the listings: a frame is removed only after an acknowledgement of it.

**Sessions** (the same module, resting on `IInv`): `Framing`, `AckMatches` and
`OnceDrains`, from `SessionInvariant`. That a header is where a client looks for one is not
inductive by itself. `InStep` therefore says of a client attached to a server that what it has
read, what is on its wire and what it lacks add up to what the server has sent of its frame,
and that between frames, and during a listing, both are idle; `PendingInv` that a queued connection has carried nothing and is its
client's only one; `ClientLocal` what a client's wire can hold after its server has
gone. An acknowledgement then can only name the frame in the server's hand. `BacklogInv` says that
what is left in the spool of a `--once` client's backlog is in its server's listing or hand,
so that nothing is left when the end message is sent; a frame that the server fails to look at is struck from
the backlog when that happens, and is what a regular session may leave behind.

**Catalog** (`BrowserViewerProofs`): `ViewerRefinesCatalog` says that the viewer only ever drives the catalog by
`FrameCatalog`'s own steps, and `Coherent` that a remembered time equal to the directory's means a
snapshot a scan would return now. Its assumptions, `DistinctTimes` and
`MaxScanFaults = 0`, are necessary (a scan error is a directory, a frame or a marker that cannot
be read): without either, `CompletionNoticed`, the corresponding liveness property, is violated. The invariant `CatalogInv` adds that times
never exceed the clock and that a refresh under way has found all files unless the directory
has changed since its time was read.

**Player** (the same module): `Shown` and `Backed`, from `PageInvariant`, for every number of
runs, frames and faults, and whatever the modification times are. At most one download is
current, it is of the frame selected last, and one is as long as the page says it is loading
(`Downloads`); a selection and a change of the run outdate the others before either takes effect.
`pollCatalog` awaits at most one. That its selection always starts a download, so that
it returns, needs that the position it wants exists: a complete run in the catalog has frames
(`Usable`). That in turn needs that a scan which finds files finds a newest run, which is where
the times of frames come in (`NewestOf`).

**Masses** (`MassPropagationProofs`): with `~Incoherent`, `MassInvariant`, `SubtreesSummed`,
`NeverOverrun` and `NoRacingStores`. The invariant says that a parent's counter is the number
of its announced children, that a thread owns the node it climbs from (no two threads stand on
one node, and none stands on an announced node they did not announce), and that a sum under
way consists of final sums. The leaves below a node are defined without recursion, by the
least set that is closed upwards, so the argument needs no induction over the tree and not
even that the parent function has no cycles.

**Simulation** (`SimulationProgramProofs`): `SimInv`, and with it `Memory` and `Leapfrog`. What is
owned, and how far positions, velocities and accelerations are, is a function of the number of
stages the call under way has left (`Initializing`, `Stepping`): `StagedAt` says which structures
are staged, `MadeFrom` which positions the members were made from, and the number of half kicks
is known. A stage that throws leaves an owned prefix, which is released; so nothing depends on
which stage it was. Both theorems are stated of the program, where the calls are interleaved with everything else `main` does.

**Program** (the same module): `Complete`, `Faithful`, `Sampled`, `Cleaned` and
`RunsInDirectory`, from `ProgramInvariant`. `MainInv` ties the place of `main` to the state of the
simulation. `NumberInv` says when a sequence number has been drawn, and that the last
captured step lies before the step under way exactly while a capture is pending: that is why the
forced last frame is neither forgotten nor written twice. `SpoolInv` counts: frames
are numbered by their place, their steps increase, and there is one more number than there are frames
while one is being written. `ClockInv` says that the next frame is due at the start of an
interval still to come, `IntervalInv` that a frame that is due falls into one of its own.
`ContentInv` says what is in a frame by the step it names. `RunsInDirectory` maps each step to one
of `FrameCatalog`'s directory or to none; that a run publishes no more frames than the bound
instantiated there uses that the spool is no longer than the number of states.

**Frames** (`FaithfulFrame`, there too): for every number of particles, sample size,
length of a chunk and scale of the quantisation: the sampled indices stay within the particles,
whatever chunk they fall into, the bounds hold all samples, and quantising and decoding move a
coordinate by half a quantum at most (`HalfQuantum`).

**Files** (`Loads`, there too): a file that is intact is read by the layout it
was written in, and one whose size is of no layout is refused. The hypothesis leaves out what
the findings show to be misread: the file of four particles that two layouts fit, and files
that are cut short to the size of another layout. Sizes of files of the same count differ for
every other count (`Sizes`), so the order of the four attempts matters nowhere else.

**Radix tree** (`RadixTreeProofs`): `RadixTreeIsBuilt`, from `TreeInvariant`, for every layout of
any number of particles and every order of the threads of `buildTreeKernel`. Two words are ordered
by the highest bit they differ in, so of three words in order the outer two differ first where
one of the inner pairs does (`Between`): sorted distinct keys are `Nested`, their longest common
prefixes those of a tree. From there on no bit is looked at. Where a node's direction points, its range
ends before the first gap that is no smaller than the one behind it (`FurtherRight`, `FurtherLeft`);
the lengths that reach less far are those up to one number, which doubling and halving find
(`SearchFinds`), as halving with rounding up finds the split (`SplitFinds`). So every
internal node gets the `Parts` it should (`PartsFound`). No two nodes have a child in common
(`ParentOnce`), which is why threads that write the parents of their children never overwrite
each other (`BuildNodeWires`) and every node but the root has one parent. The keys are sorted and
distinct because the sort is by a total order (`SortSorts`, from `Ranked`) and the groups start where
neighbours differ (`GroupsMade`); the exclusive sum of their sizes is where they start
(`CountsAdd`, from `SumGrows`).

**Keys** (`MortonKeysProofs`), for every layout of any number of particles. The cube holds all
particles with a margin, so that the quantisation never clamps (`Boxed`), and the cell of a level
is inside the one of the level above (`CellsNest`). The bits of a key are those of the three
places, interleaved (`MortonBits`); so two particles are in one cell of a level exactly when their keys
have one prefix there (`CellKeys`), the octants in the keys are the cells' (`CellOctant`), and the centre and
the size that the kernels compute from a prefix are those of the cell, exactly (`CentreIs`, `CellOfNode`).

**Octree** (`OctreeBuilderProofs`): `OctreeIsBuilt`, from `OctreeInvariant`, for every layout and
every order in which the threads of the kernels run. A node of the radix tree stands for the
levels below its parent's down to its own, its *edge*; every cell the octree has to have, but
the root's, is on exactly one edge (`CellHasNode`, `CellOnce`). The plan's sums give each edge
a range of numbers of its own (`Offsets`), so no two threads write one node (`NodeIdOnce`),
and none one slot of a parent, since two nodes in one slot would be for one cell (`SlotIdOnce`).
That is why the check for a slot already taken never fires, no kernel reports an error
(`NoPlanError`, `NoEdgeError`, `LinkNodeAdds`) and it does not matter which thread comes first
(`NodeAddedKeeps`). An edge starts at the end of the nearest edge above it that is not empty, which
the climb of `materializeSparseOctreeKernel` finds (`EdgeStarts`). The invariant says what is written
while the threads are on their way: of each edge its first `linked[r]` nodes and nothing else
(`EdgesWritten`). When all are written, the nodes are at the cells of `OccupiedCells`, one at each,
linked as these lie and the leaves with their cells' particles (`OctreeMade`).

**Walk** (`ForceTraversalProofs`): `EachOnce` and `Singular`, from `WalkInvariant`, for every
layout of any number of particles, whatever the thread accepts and whatever bodies have no mass.
All they need of the octree is `IsSparseOctree`, which `OctreeIsBuilt` gives. Below a node are the particles of its
cell, at most (`BelowInside`), below the root all (`BelowRoot`), and below siblings never the same
(`SiblingsApart`). `After(n)` is what is below the siblings still to come of `n` and its
ancestors: leaving `n` leads to a node below and after which is just that, or to the end when it is
empty (`NextNode`), and opening `n` loses nothing (`FirstChild`). The invariant is that what has been
counted is what is neither below nor after the current node, without the target. A node that has the target
below it contains it (`Contained`): the target's rounded place lies in the cell, and its exact one then
lies between the faces `nodeContainsTarget` compares it with. That is why no accepted node ever
includes the target. The climb of `nextTraversalNode` is a recursive function: it exists for every
bound (`ClimbIs`), and there are more nodes than levels (`Depth`), so it ends.

`WalksAsStack`: the same walk implements `StackTraversal`, step by step. What waits on the stack at
a node are the later siblings of the nodes on its path (`WaitingIs`). A level is worth more than a
slot, so no two nodes that wait have one height (`HeightIs`, `WaitingLower`), and a set of nodes
can be listed from low to high in one way only (`ListsOnce`). `StackInv` says that the stack of the
refinement mapping is such a list: leaving a node takes the highest off it (`ListsRest`), and pushing
the children 0 to 7 of an opened one puts them on it in order (`ChildrenPushed`), so that the next on
top is the child that `firstTraversalChild` finds and the sibling that `nextTraversalNode` climbs to.

The library's induction theorems take an operator as a parameter, which the provers cannot
instantiate. `NatLeast` derives from its well-foundedness theorems that a set of numbers has a least
element, and `NatInductionUpTo` induction over a set; inductions over levels (`NodeInduction`),
over the places of a climb and over the sizes of finite sets (`FiniteMax`) are instances.

What is only model-checked. All liveness (`EventuallyDelivered`, `SlotFreed`,
`LoopsOverAllFrames`, `FollowsNewest`, `RootSummed`, `Terminates`): it is beyond this prover.
Every other property that a passing run checks is a theorem.

## The plan

The order puts first what several processes share and can lose.

1. Streaming: `FrameDelivery`, `FrameStream`, its proofs. *Done.*
2. Watching: `FrameCatalog`, `BrowserViewer`, its proofs. *Done.*
3. Octree physics: `MassPropagation`, its proofs. *Done.*
4. Octree construction: `Words`, `MortonKeys`, `RadixTree`, `OctreeBuilder` against
   `SparseOctree`. *Done.*
5. Force traversal: `ForceTraversal` against `StackTraversal` and `EachBodyOnce`, composed with
   the builder in `ForcePipeline`. *Done.*
6. Simulation life cycle: `SimulationSteps`, `SimulationProgram` with the server's process and
   the tie to `FrameCatalog`. *Done.*
7. Frames and files: `FrameCapture`, `ParticleFile`. *Done.*
8. Proofs: streaming sessions, the player, the simulation's stages, the program and its frames,
   files, and the program as a run of the catalog's directory. *Done.*
9. Proofs: that a walk over a correct octree adds every body once. *Done.*
10. Proofs: that the radix tree is that of the keys (`RadixTreeBuilt`). *Done.*
11. Proofs: that the octree is that of the particles (`OctreeBuilt`), so that step 9 needs no
    hypothesis. *Done.*
12. Proofs: that a walk without a stack is one with a stack (`StackSpec`). *Done.*

## Local abstractions

Where a definition says less than the code it stands for, and why no property depends on it:

- `OctreeBuilder!ComputeGeometry`: two error codes of the kernel are one, and its check for a half
  size that is not positive is left out (`Boxed` proves the cube's size positive).
- `ParticleFile!CountRead`: the limit of a 64-bit count to 32 bits appears only as what it does to a file
  with a 32-bit count (the number read includes the first mass), and files shorter than a header are
  left out: the counts are small and the cuts of two bytes. `File` is what the author of a file
  wrote, mapped to a test's writer because no code of the program writes such files.
- `SimulationProgram!Due`: `isDue`'s tolerance of a few rounding errors is less than a tick of the model's clock.
- `SimulationProgram!StartupFailed`: that `waitpid` itself fails is left out, since the program neither
  ignores SIGCHLD nor waits for the child elsewhere; invalid options and failures end with one exit code.
- `NothingLeft` speaks of the frame's `.part` file; the marker's own temporary file, which `markComplete`
  removes when its writing or renaming fails, is not in the model.
- `SimulationSteps`: a stage that fails does so before what it allocates is owned. In the code some
  have allocated by then, in a local owner that the exception unwinds, so afterwards the same is owned.

## Not modelled

The Metal viewer: its one callback polls for marker files nothing in the repository writes, or
lists a directory as `FrameCatalog` does; the rest is drawing. Drawing and user interfaces
elsewhere, HTTP and command-line parsing, and the parsing of frames in the page. Floating-point
arithmetic: the integrator's and the forces' values, the acceptance test, the rounding of the
normalisation. The writers of unquantised frames and the centre-of-mass kernels in
`tree_builder.cu`, which the simulator does not call. The offline generators, launch scripts and
the VPN login, which share no state with the running system. The file system is taken to keep
what it was told (no model of missing `fsync`; a listing finds what was there when it began and has not been
removed, as POSIX says), and clients to have an output directory each.

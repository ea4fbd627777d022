---------------------------- MODULE FrameCatalog ----------------------------
(***************************************************************************)
(* The frame directory of a run whose frames are retained, and the         *)
(* catalog the browser viewer's server keeps of it (FrameCatalog in        *)
(* apps/browser_viewer/main.cpp).  The catalog is refreshed on a request   *)
(* once an interval has passed, and only when the modification time of the *)
(* directory differs from the one read before the last scan.  A refresh is *)
(* not atomic: runs publish frames and markers while the directory is      *)
(* being scanned, and the marker is looked up after the scan.              *)
(*                                                                         *)
(* A frame is <<run, sequence number>>; runs are numbered in the order of  *)
(* their session ids, 0 is no run.                                         *)
(***************************************************************************)
EXTENDS Integers, FiniteSets

CONSTANTS
  NumRuns,       \* bound: runs that write into the directory
  MaxFrames,     \* bound: run -> frames it publishes
  DistinctTimes, \* whether every change of the directory gets a modification time of its own
  MaxTicks,      \* bound: how often the clock behind the modification times advances by itself
  MaxScanFaults  \* bound: errors of the file system that a scan meets

Runs == 1 .. NumRuns

ASSUME CatalogAssumption ==
  /\ NumRuns \in Nat /\ MaxFrames \in [Runs -> Nat]
  /\ MaxTicks \in Nat /\ MaxScanFaults \in Nat
  /\ DistinctTimes \in BOOLEAN

Frames == UNION {{r} \X (0 .. MaxFrames[r] - 1) : r \in Runs}

VARIABLES
  clock,       \* the file system's clock
  sim,         \* run -> "new", "running", "complete" (marker published), "failed"
  produced,    \* run -> number of frames it has published
  frameTime,   \* frame -> its file's modification time
  dirTime,     \* the directory's modification time
  snapshot,    \* snapshot_: run, its frames' sequence numbers, completeness
  modified,    \* directoryModified_
  initialized, \* initialized_
  due,         \* whether refreshInterval_ has passed since lastRefresh_
  phase,       \* of refreshIfNeeded: "idle", "scan", "mark"
  scanned,     \* the frames the scan has found
  scanFaults   \* errors that scans have met

dirVars == <<clock, sim, produced, frameTime, dirTime>>
catalogVars == <<snapshot, modified, initialized, due, phase, scanned, scanFaults>>
catalogSpecVars == <<dirVars, catalogVars>>

Files == {f \in Frames : f[2] < produced[f[1]]}
Marked == {r \in Runs : sim[r] = "complete"}

Snapshot(run, frames, complete) == [run |-> run, frames |-> frames, complete |-> complete]
NothingFound == Snapshot(0, {}, FALSE)

CatalogInit ==
  /\ clock = 0
  /\ sim = [r \in Runs |-> "new"]
  /\ produced = [r \in Runs |-> 0]
  /\ frameTime = [f \in Frames |-> 0]
  /\ dirTime = 0
  /\ snapshot = NothingFound
  /\ modified = 0
  /\ initialized = FALSE
  /\ due = TRUE
  /\ phase = "idle"
  /\ scanned = {}
  /\ scanFaults = 0

----------------------------------------------------------------------------
(* The directory *)

\* The directory changes: its modification time becomes the clock's time.
Changed ==
  /\ clock' = IF DistinctTimes THEN clock + 1 ELSE clock
  /\ dirTime' = clock'

Tick ==
  /\ ~DistinctTimes
  /\ clock < MaxTicks
  /\ clock' = clock + 1
  /\ UNCHANGED <<sim, produced, frameTime, dirTime, catalogVars>>

StartRun(r) ==
  /\ sim[r] = "new"
  /\ \A q \in 1 .. r - 1 : sim[q] # "new"
  /\ sim' = [sim EXCEPT ![r] = "running"]
  /\ UNCHANGED <<clock, produced, frameTime, dirTime, catalogVars>>

\* The frame is written under a .part name and renamed.
PublishFrame(r) ==
  /\ sim[r] = "running"
  /\ produced[r] < MaxFrames[r]
  /\ Changed
  /\ produced' = [produced EXCEPT ![r] = @ + 1]
  /\ frameTime' = [frameTime EXCEPT ![<<r, produced[r]>>] = clock']
  /\ UNCHANGED <<sim, catalogVars>>

\* A successful run publishes at least its initial state, and its marker last.
MarkComplete(r) ==
  /\ sim[r] = "running"
  /\ produced[r] > 0
  /\ Changed
  /\ sim' = [sim EXCEPT ![r] = "complete"]
  /\ UNCHANGED <<produced, frameTime, catalogVars>>

FailRun(r) ==
  /\ sim[r] = "running"
  /\ sim' = [sim EXCEPT ![r] = "failed"]
  /\ UNCHANGED <<clock, produced, frameTime, dirTime, catalogVars>>

DirStep == Tick \/ \E r \in Runs : StartRun(r) \/ PublishFrame(r) \/ MarkComplete(r) \/ FailRun(r)

----------------------------------------------------------------------------
(* refreshIfNeeded *)

IntervalElapses ==
  /\ ~due
  /\ due' = TRUE
  /\ UNCHANGED <<dirVars, snapshot, modified, initialized, phase, scanned, scanFaults>>

\* Before the first refresh has succeeded there is no interval to wait for.
Due == due \/ ~initialized

\* The interval has not passed: the request is answered from the snapshot.
NotDue ==
  /\ phase = "idle" /\ ~Due
  /\ UNCHANGED <<dirVars, catalogVars>>

\* The directory has the modification time it had before.
DirectoryUnchanged ==
  /\ phase = "idle" /\ Due
  /\ initialized /\ modified = dirTime
  /\ due' = FALSE
  /\ UNCHANGED <<dirVars, snapshot, modified, initialized, phase, scanned, scanFaults>>

\* The new modification time is recorded before the scan begins.
BeginScan ==
  /\ phase = "idle" /\ Due
  /\ ~(initialized /\ modified = dirTime)
  /\ due' = FALSE
  /\ modified' = dirTime
  /\ phase' = "scan"
  /\ scanned' = Files
  /\ UNCHANGED <<dirVars, snapshot, initialized, scanFaults>>

\* Frames published while the directory is read are found or not.
Scan ==
  /\ phase = "scan"
  /\ \E found \in SUBSET (Files \ scanned) : scanned' = scanned \cup found
  /\ phase' = "mark"
  /\ UNCHANGED <<dirVars, snapshot, modified, initialized, due, scanFaults>>

ScanFault == scanFaults < MaxScanFaults /\ scanFaults' = scanFaults + 1

\* The directory cannot be read: the exception leaves the old snapshot.
ScanFails ==
  /\ phase = "scan"
  /\ ScanFault
  /\ phase' = "idle"
  /\ scanned' = {}
  /\ UNCHANGED <<dirVars, snapshot, modified, initialized, due>>

\* A frame that the scan has come across is ignored: its kind, header or time cannot be read.
FrameIgnored ==
  /\ phase = "mark"
  /\ ScanFault
  /\ \E f \in scanned : scanned' = scanned \ {f}
  /\ UNCHANGED <<dirVars, snapshot, modified, initialized, due, phase>>

LaterFrame(f, g) == frameTime[f] > frameTime[g]

\* The run with the newest file; of several, the first session id.
NewestRun(files) ==
  CHOOSE r \in Runs : \E f \in files :
    /\ f[1] = r
    /\ \A g \in files : ~LaterFrame(g, f) /\ (g[1] < r => LaterFrame(f, g))

Cataloged(files) ==
  IF files = {} THEN NothingFound
  ELSE LET r == NewestRun(files) IN
       Snapshot(r, {f[2] : f \in {g \in files : g[1] = r}}, r \in Marked)

\* Mutant: the modification time is read again when the scan is over.
ModifiedAfterScan == dirTime
\* The time the catalog remembers is the one read before the scan.
RememberedTime == modified

\* What a scan found becomes the snapshot.
Publish(catalog) ==
  /\ phase = "mark"
  /\ snapshot' = catalog
  /\ modified' = RememberedTime
  /\ initialized' = TRUE
  /\ phase' = "idle"
  /\ scanned' = {}
  /\ UNCHANGED <<dirVars, due>>

\* The newest run is picked, its marker looked up and the snapshot replaced.
FinishRefresh == Publish(Cataloged(scanned)) /\ UNCHANGED scanFaults

\* The marker of the run that is picked cannot be looked at, which counts as no marker.
MarkerFails ==
  /\ scanned # {}
  /\ Publish([Cataloged(scanned) EXCEPT !.complete = FALSE])
  /\ ScanFault

\* A request reaches refreshIfNeeded, and what it does next.
BeginRefresh == NotDue \/ DirectoryUnchanged \/ BeginScan
\* The scan goes on to its end, whatever it can read.
ScanOn == Scan \/ FrameIgnored \/ FinishRefresh \/ MarkerFails
RefreshStep == ScanOn \/ ScanFails

CatalogNext == DirStep \/ IntervalElapses \/ BeginRefresh \/ RefreshStep

CatalogSpec == CatalogInit /\ [][CatalogNext]_catalogSpecVars

----------------------------------------------------------------------------
(* Properties *)

DirTypeOK ==
  /\ clock \in Nat /\ dirTime \in Nat
  /\ sim \in [Runs -> {"new", "running", "complete", "failed"}]
  /\ produced \in [Runs -> Nat]
  /\ frameTime \in [Frames -> Nat]

CatalogTypeOK ==
  /\ DirTypeOK
  /\ snapshot \in [run : Runs \cup {0}, frames : SUBSET {f[2] : f \in Frames}, complete : BOOLEAN]
  /\ modified \in Nat
  /\ initialized \in BOOLEAN /\ due \in BOOLEAN
  /\ phase \in {"idle", "scan", "mark"}
  /\ scanned \in SUBSET Frames
  /\ scanFaults \in 0 .. MaxScanFaults

\* refreshIfNeeded skips the scan when the directory's time is the remembered one: then
\* the snapshot is what a scan would find now, its marker included.
CacheCoherent ==
  phase = "idle" /\ initialized /\ modified = dirTime => snapshot = Cataloged(Files)

\* The inductive invariant behind CacheCoherent: times never run ahead of the clock, and
\* a refresh under way has found everything unless the directory has changed since.
CatalogInv ==
  /\ DirTypeOK
  /\ dirTime <= clock
  /\ modified \in 0 .. dirTime
  /\ scanned \subseteq Files
  /\ phase # "idle" /\ modified = dirTime => scanned = Files
  /\ CacheCoherent
=============================================================================

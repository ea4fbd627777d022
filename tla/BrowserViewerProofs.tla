------------------------ MODULE BrowserViewerProofs ------------------------
(***************************************************************************)
(* The browser viewer for every number of runs and frames.  When every     *)
(* change of the directory gets a modification time of its own and no scan *)
(* fails, the server's catalog is coherent with the frame directory.  The  *)
(* player shows what it has selected, and never waits for a download that  *)
(* is not under way, whatever the catalog holds.                           *)
(***************************************************************************)
EXTENDS BrowserViewer, FiniteSetTheorems, WellFoundedInduction, TLAPS

(* The empty directory and the empty catalog satisfy the invariant. *)
LEMMA CatalogInitInv == CatalogInit => CatalogInv
BY DEF CatalogInit, CatalogInv, DirTypeOK, CacheCoherent, Files

(* The parts of a frame's name. *)
LEMMA FrameParts == \A f \in Frames : f[1] \in Runs /\ f[2] \in Int
<1> SUFFICES ASSUME NEW r \in Runs, NEW f \in {r} \X (0 .. MaxFrames[r] - 1)
             PROVE  f[1] \in Runs /\ f[2] \in Int
  BY DEF Frames
<1>1. MaxFrames[r] \in Nat
  BY CatalogAssumption
<1> QED
  BY <1>1

(* A change of the directory gets a time later than any the catalog remembers: a scan *)
(* under way or a snapshot of before is no longer taken for current. *)
LEMMA CatalogDirStep ==
  ASSUME DistinctTimes, CatalogInv, DirStep
  PROVE  CatalogInv'
<1>a. DirTypeOK /\ dirTime \in Nat /\ clock \in Nat /\ dirTime <= clock /\ modified \in 0 .. dirTime
  BY DEF CatalogInv, DirTypeOK
<1>b. UNCHANGED catalogVars
  BY DEF DirStep, Tick, StartRun, PublishFrame, MarkComplete, FailRun
<1>1. ASSUME Changed, Files \subseteq Files', DirTypeOK' PROVE CatalogInv'
  <2>1. clock' = clock + 1 /\ dirTime' = clock + 1
    BY <1>1 DEF Changed
  <2>2. modified' # dirTime' /\ modified' \in 0 .. dirTime' /\ dirTime' <= clock'
    BY <1>a, <1>b, <2>1 DEF catalogVars
  <2> QED
    BY <1>1, <1>b, <2>2 DEF CatalogInv, CacheCoherent, catalogVars
<1>2. ASSUME NEW r \in Runs, PublishFrame(r) PROVE CatalogInv'
  <2>1. Files \subseteq Files'
    <3>1. \A q \in Runs : produced[q] \in Int /\ produced'[q] \in {produced[q], produced[q] + 1}
      BY <1>2, <1>a DEF PublishFrame, DirTypeOK
    <3>2. \A f \in Frames : f[2] < produced[f[1]] => f[2] < produced'[f[1]]
      BY <3>1, FrameParts
    <3> QED
      BY <3>2 DEF Files
  <2>2. clock' \in Nat /\ dirTime' \in Nat
    BY <1>2, <1>a DEF PublishFrame, Changed
  <2>3. frameTime' \in [Frames -> Nat]
    <3>1. frameTime \in [Frames -> Nat]
      BY <1>a DEF DirTypeOK
    <3>2. frameTime' = [frameTime EXCEPT ![<<r, produced[r]>>] = clock']
      BY <1>2 DEF PublishFrame
    <3> QED
      BY <2>2, <3>1, <3>2
  <2>4. produced' \in [Runs -> Nat] /\ sim' = sim
    BY <1>2, <1>a DEF PublishFrame, DirTypeOK
  <2> QED
    BY <1>1, <1>2, <1>a, <2>1, <2>2, <2>3, <2>4 DEF PublishFrame, DirTypeOK
<1>3. ASSUME NEW r \in Runs, MarkComplete(r) PROVE CatalogInv'
  <2>1. Files \subseteq Files'
    BY <1>3 DEF MarkComplete, Files
  <2>2. clock' \in Nat /\ dirTime' \in Nat
    BY <1>3, <1>a DEF MarkComplete, Changed
  <2>3. DirTypeOK'
    BY <1>3, <1>a, <2>2 DEF MarkComplete, DirTypeOK
  <2> QED
    BY <1>1, <1>3, <2>1, <2>3 DEF MarkComplete
<1>4. ASSUME NEW r \in Runs, StartRun(r) \/ FailRun(r) PROVE CatalogInv'
  <2>1. UNCHANGED <<clock, produced, frameTime, dirTime>>
    BY <1>4 DEF StartRun, FailRun
  <2>2. sim' \in [Runs -> {"new", "running", "complete", "failed"}] /\ Marked' = Marked
    BY <1>4, <1>a DEF StartRun, FailRun, DirTypeOK, Marked
  <2>3. Files' = Files
    BY <2>1 DEF Files
  <2>4. \A f, g : LaterFrame(f, g)' <=> LaterFrame(f, g)
    BY <2>1 DEF LaterFrame
  <2>5. Cataloged(Files)' = Cataloged(Files)
    BY <2>1, <2>2, <2>3 DEF Cataloged, NewestRun, LaterFrame, Snapshot, NothingFound
  <2> QED
    BY <1>a, <1>b, <2>1, <2>2, <2>3, <2>5 DEF CatalogInv, DirTypeOK, CacheCoherent, catalogVars
<1> QED
  BY <1>2, <1>3, <1>4 DEF DirStep, Tick

(* refreshIfNeeded preserves the invariant: what it publishes is coherent unless the *)
(* directory has changed since the time it remembers. *)
LEMMA CatalogRefreshStep ==
  ASSUME CatalogInv, UNCHANGED dirVars, MaxScanFaults = 0, scanFaults \in Nat,
         IntervalElapses \/ BeginRefresh \/ RefreshStep
  PROVE  CatalogInv'
<1>a. Files' = Files /\ DirTypeOK'
  BY DEF dirVars, Files, CatalogInv, DirTypeOK
<1>b. \A S : Cataloged(S)' = Cataloged(S)
  BY DEF dirVars, Cataloged, NewestRun, LaterFrame, Snapshot, NothingFound, Marked
<1>c. CacheCoherent' <=> (phase' = "idle" /\ initialized' /\ modified' = dirTime' => snapshot' = Cataloged(Files))
  BY <1>a, <1>b DEF CacheCoherent
<1>d. /\ dirTime' = dirTime /\ clock' = clock /\ dirTime \in Nat
      /\ dirTime <= clock /\ modified \in 0 .. dirTime /\ scanned \subseteq Files
      /\ phase # "idle" /\ modified = dirTime => scanned = Files
      /\ CacheCoherent
  BY DEF dirVars, CatalogInv, DirTypeOK
<1>1. CASE IntervalElapses \/ NotDue \/ DirectoryUnchanged
  BY <1>1, <1>a, <1>c, <1>d DEF IntervalElapses, NotDue, DirectoryUnchanged, catalogVars, CatalogInv, CacheCoherent
<1>2. CASE BeginScan
  BY <1>2, <1>a, <1>c, <1>d DEF BeginScan, CatalogInv
<1>3. CASE Scan
  BY <1>3, <1>a, <1>c, <1>d DEF Scan, CatalogInv
<1>4. CASE FinishRefresh
  BY <1>4, <1>a, <1>c, <1>d, <1>b DEF FinishRefresh, Publish, CatalogInv, RememberedTime
<1>5. ~ScanFails /\ ~FrameIgnored /\ ~MarkerFails
  BY DEF ScanFails, FrameIgnored, MarkerFails, ScanFault
<1> QED
  BY <1>1, <1>2, <1>3, <1>4, <1>5 DEF BeginRefresh, RefreshStep, ScanOn

(* Every step of the viewer is, for the directory and the catalog, a step of theirs or *)
(* none at all. *)
LEMMA ViewerStep ==
  ASSUME Next \/ UNCHANGED vars
  PROVE  DirStep \/ IntervalElapses \/ BeginRefresh \/ RefreshStep \/ UNCHANGED catalogSpecVars
BY DEF Next, ServerStep, AcceptCatalogRequest, AcceptFrameRequest, ContinueRefresh, RefreshStep, AbortRequest,
  ReplyCatalog, ReplyFrame, PageStep, PollTimer, PollAnswered, FinishLoad, Advance, UserStep, TogglePlaying,
  MoveTimeline, LoseRequest, vars

(* The number of errors that scans have met stays a number. *)
LEMMA ScanFaultsType ==
  ASSUME scanFaults \in Nat, Next \/ UNCHANGED vars
  PROVE  scanFaults' \in Nat
<1>1. CASE ScanFails \/ FrameIgnored \/ MarkerFails
  BY <1>1 DEF ScanFails, FrameIgnored, MarkerFails, ScanFault
<1>2. CASE DirStep \/ UNCHANGED catalogSpecVars
  BY <1>2 DEF DirStep, Tick, StartRun, PublishFrame, MarkComplete, FailRun, catalogSpecVars, catalogVars
<1>3. CASE IntervalElapses \/ BeginRefresh \/ Scan \/ FinishRefresh
  BY <1>3 DEF IntervalElapses, BeginRefresh, NotDue, DirectoryUnchanged, BeginScan, Scan, FinishRefresh, catalogVars
<1> QED
  BY <1>1, <1>2, <1>3, ViewerStep DEF RefreshStep, ScanOn

(* The viewer implements the catalog's own specification. *)
THEOREM ViewerRefinesCatalog == Spec => CatalogSpec
<1>1. Init => CatalogInit
  BY DEF Init
<1>2. [Next]_vars => [CatalogNext]_catalogSpecVars
  BY ViewerStep DEF CatalogNext
<1> QED
  BY <1>1, <1>2, PTL DEF Spec, CatalogSpec

(* refreshIfNeeded may skip the scan: a remembered modification time equal to the *)
(* directory's means that the snapshot is what a scan would find, marker included. *)
THEOREM Coherent ==
  ASSUME DistinctTimes, MaxScanFaults = 0
  PROVE  Spec => []CacheCoherent
<1> DEFINE Inv == CatalogInv /\ scanFaults \in Nat
<1>1. Init => Inv
  BY CatalogInitInv DEF Init, CatalogInit
<1>2. Inv /\ [Next]_vars => Inv'
  <2> SUFFICES ASSUME Inv, Next \/ UNCHANGED vars PROVE Inv'
    OBVIOUS
  <2>1. scanFaults' \in Nat
    BY ScanFaultsType
  <2>2. CASE DirStep
    BY <2>1, <2>2, CatalogDirStep
  <2>3. CASE IntervalElapses \/ BeginRefresh \/ RefreshStep
    <3>1. UNCHANGED dirVars
      BY <2>3 DEF IntervalElapses, BeginRefresh, NotDue, DirectoryUnchanged, BeginScan, RefreshStep, ScanOn, Scan,
        ScanFails, FrameIgnored, FinishRefresh, MarkerFails, Publish
    <3> QED
      BY <2>1, <2>3, <3>1, CatalogRefreshStep
  <2>4. CASE UNCHANGED catalogSpecVars
    BY <2>1, <2>4 DEF catalogSpecVars, dirVars, catalogVars, CatalogInv, DirTypeOK, CacheCoherent, Files,
      Cataloged, NewestRun, LaterFrame, Snapshot, NothingFound, Marked
  <2> QED
    BY <2>2, <2>3, <2>4, ViewerStep
<1>3. Inv => CacheCoherent
  BY DEF CatalogInv
<1> QED
  BY <1>1, <1>2, <1>3, PTL DEF Spec
----------------------------------------------------------------------------
(* The player.  The times of frames are not ahead of the clock, and a scan finds frames. *)
DirInv ==
  /\ clock \in Nat /\ frameTime \in [Frames -> Nat]
  /\ \A f \in Frames : frameTime[f] <= clock
  /\ scanned \subseteq Frames

(* What the page can make use of: a complete run has frames. *)
Usable(catalog) ==
  /\ catalog.complete \in BOOLEAN
  /\ IsFiniteSet(catalog.frames)
  /\ catalog.complete => catalog.frames # {}

(* What is selected is of the run the page is in, and is shown unless it is loading or failed. *)
PageFields ==
  {"catalog", "index", "runId", "loading", "playing", "completionSeen", "shown", "selected", "failed"}
Player(p) ==
  /\ DOMAIN p = PageFields /\ Usable(p.catalog)
  /\ p.index \in Int /\ p.loading \in BOOLEAN
  /\ p.runId = p.catalog.run
  /\ p.index >= 0 => p.selected[1] = p.runId
  /\ p.index >= 0 /\ ~p.loading /\ ~p.failed => p.shown = p.selected

(* Of the downloads one at most is current, for the frame selected, and one is while the page is *)
(* loading; one at most is awaited by pollCatalog. *)
LoadFields == {"frame", "status", "current", "awaited"}
Downloads(set, p) ==
  /\ \A load \in set : /\ DOMAIN load = LoadFields
                       /\ load.current \in BOOLEAN /\ load.awaited \in BOOLEAN
  /\ \A one, other \in set : one.current /\ other.current => one = other
  /\ \A one, other \in set : one.awaited /\ other.awaited => one = other
  /\ \A load \in set : load.current => load.frame = p.selected
  /\ p.loading <=> \E load \in set : load.current
Awaited(set) == \E load \in set : load.awaited

(* A request for the catalog is one that pollCatalog has sent. *)
PlayerInv ==
  /\ Player(page) /\ Downloads(loads, page)
  /\ poll = "select" <=> Awaited(loads)
PageInv ==
  /\ DirInv /\ Usable(snapshot) /\ Usable(answer) /\ PlayerInv
  /\ serving.kind = "catalog" => poll = "sent"

(* Every set of numbers that is not empty has a least one. *)
LEMMA Least ==
  ASSUME NEW T \in SUBSET Nat, T # {}
  PROVE  \E n \in T : \A m \in T : n <= m
<1> DEFINE R == OpToRel(<, Nat)
<1>1. IsWellFoundedOn(R, Nat)
  BY NatLessThanWellFounded
<1>2. \A x, y \in Nat : x < y => <<x, y>> \in R
  BY DEF OpToRel
<1> HIDE DEF R
<1>3. PICK n \in T : \A m \in T : ~(<<m, n>> \in R)
  BY <1>1, WFMin
<1>4. \A m \in T : ~(m < n)
  BY <1>2, <1>3, Zenon
<1> QED
  BY <1>4

(* There is a run with the newest frame, as soon as there is a frame. *)
LEMMA NewestOf ==
  ASSUME DirInv, NEW files \in SUBSET Frames, files # {}
  PROVE  \E f \in files : NewestRun(files) = f[1]
<1> DEFINE age(f) == clock - frameTime[f]
           Ages == {age(f) : f \in files}
<1>1. \A f \in files : frameTime[f] \in Nat /\ age(f) \in Nat /\ f[1] \in Runs
  BY FrameParts DEF DirInv
<1>2. PICK a \in Ages : \A b \in Ages : a <= b
  <2>1. Ages \in SUBSET Nat /\ Ages # {}
    BY <1>1
  <2> HIDE DEF Ages
  <2> QED
    BY <2>1, Least
<1>3. PICK late \in files : \A g \in files : frameTime[g] <= frameTime[late]
  <2>1. PICK late \in files : a = age(late)
    BY <1>2
  <2>2. \A g \in files : age(late) <= age(g)
    BY <1>2, <2>1
  <2>3. clock \in Nat
    BY DEF DirInv
  <2> QED
    BY <1>1, <2>2, <2>3
<1> DEFINE Latest == {f \in files : frameTime[f] = frameTime[late]}
           First == {f[1] : f \in Latest}
<1>4. PICK r \in First : \A q \in First : r <= q
  <2>1. First \in SUBSET Nat /\ First # {}
    BY <1>1 DEF Runs
  <2> HIDE DEF First
  <2> QED
    BY <2>1, Least
<1>5. PICK f \in Latest : f[1] = r
  BY <1>4
<1>6. ASSUME NEW g \in files PROVE ~LaterFrame(g, f) /\ (g[1] < r => LaterFrame(f, g))
  <2>1. frameTime[g] <= frameTime[f] /\ frameTime[g] \in Nat /\ frameTime[f] \in Nat
    BY <1>1, <1>3, <1>5
  <2>2. frameTime[g] = frameTime[f] => r <= g[1]
    BY <1>4, <1>5
  <2>3. r \in Int /\ g[1] \in Int
    BY <1>1, <1>5 DEF Runs
  <2> QED
    BY <2>1, <2>2, <2>3 DEF LaterFrame
<1> DEFINE Newest1(q) == \E h \in files : /\ h[1] = q
                                         /\ \A g \in files : ~LaterFrame(g, h) /\ (g[1] < q => LaterFrame(h, g))
<1>7. r \in Runs /\ Newest1(r)
  BY <1>1, <1>5, <1>6
<1>8. NewestRun(files) = CHOOSE q \in Runs : Newest1(q)
  BY DEF NewestRun
<1>9. Newest1(NewestRun(files))
  <2> HIDE DEF Newest1
  <2> QED
    BY <1>7, <1>8
<1> QED
  BY <1>9

LEMMA CatalogedUsable ==
  ASSUME DirInv, NEW files \in SUBSET Frames
  PROVE  Usable(Cataloged(files))
<1>1. CASE files = {}
  BY <1>1, FS_EmptySet DEF Cataloged, Usable, NothingFound, Snapshot
<1>2. CASE files # {}
  <2> DEFINE r == NewestRun(files)
             S == {f[2] : f \in {g \in files : g[1] = r}}
  <2>1. Cataloged(files) = Snapshot(r, S, r \in Marked)
    BY <1>2 DEF Cataloged
  <2>2. PICK f \in files : r = f[1]
    BY <1>2, NewestOf
  <2>3. r \in Runs /\ f[2] \in S
    BY <2>2, FrameParts
  <2>4. IsFiniteSet(S)
    <3>1. S \subseteq 0 .. MaxFrames[r] - 1
      BY DEF Frames
    <3>2. IsFiniteSet(0 .. MaxFrames[r] - 1)
      BY <2>3, CatalogAssumption, FS_Interval
    <3> QED
      BY <3>1, <3>2, FS_Subset
  <2> HIDE DEF r, S
  <2> QED
    BY <2>1, <2>3, <2>4 DEF Usable, Snapshot
<1> QED
  BY <1>1, <1>2

----------------------------------------------------------------------------
(* The catalog under the player. *)

LEMMA TimesDirStep == ASSUME DirInv, DirStep PROVE DirInv'
<1>1. \A f \in Frames : frameTime[f] \in Nat /\ frameTime[f] <= clock
  BY DEF DirInv
<1>2. /\ clock' \in {clock, clock + 1} /\ clock' \in Nat /\ clock <= clock' /\ UNCHANGED scanned
      /\ frameTime' = frameTime \/ \E f : frameTime' = [frameTime EXCEPT ![f] = clock']
  <2>1. clock \in Nat /\ clock + 1 \in Nat /\ clock <= clock /\ clock <= clock + 1
    BY DEF DirInv
  <2>2. UNCHANGED scanned /\ clock' \in {clock, clock + 1}
    BY DEF DirStep, Tick, StartRun, PublishFrame, MarkComplete, FailRun, Changed, catalogVars
  <2>3. frameTime' = frameTime \/ \E f : frameTime' = [frameTime EXCEPT ![f] = clock']
    BY DEF DirStep, Tick, StartRun, PublishFrame, MarkComplete, FailRun
  <2> QED
    BY <2>1, <2>2, <2>3
<1>3. \A f \in Frames : frameTime'[f] \in {frameTime[f], clock'}
  BY <1>2 DEF DirInv
<1>4. frameTime' \in [Frames -> Nat]
  BY <1>2 DEF DirInv
<1>5. \A f \in Frames : frameTime'[f] <= clock'
  <2> TAKE f \in Frames
  <2>1. clock \in Nat
    BY DEF DirInv
  <2> QED
    BY <1>1, <1>2, <1>3, <2>1
<1> QED
  BY <1>2, <1>4, <1>5 DEF DirInv

LEMMA TimesNext == DirInv /\ [Next]_vars => DirInv'
<1> SUFFICES ASSUME DirInv, Next \/ UNCHANGED vars PROVE DirInv'
  OBVIOUS
<1>1. CASE DirStep
  BY <1>1, TimesDirStep
<1>2. CASE IntervalElapses \/ BeginRefresh \/ RefreshStep
  BY <1>2 DEF IntervalElapses, BeginRefresh, NotDue, DirectoryUnchanged, BeginScan, RefreshStep, ScanOn, Scan,
    ScanFails, FrameIgnored, FinishRefresh, MarkerFails, Publish, DirInv, dirVars, catalogVars, Files
<1>3. CASE UNCHANGED catalogSpecVars
  BY <1>3 DEF catalogSpecVars, dirVars, catalogVars, DirInv
<1> QED
  BY <1>1, <1>2, <1>3, ViewerStep

LEMMA SnapshotNext == DirInv /\ Usable(snapshot) /\ [Next]_vars => Usable(snapshot)'
<1> SUFFICES ASSUME DirInv, Usable(snapshot), Next \/ UNCHANGED vars PROVE Usable(snapshot)'
  OBVIOUS
<1>1. UNCHANGED snapshot => Usable(snapshot)'
  BY DEF Usable
<1>2. DirStep \/ IntervalElapses \/ BeginRefresh \/ Scan \/ ScanFails \/ FrameIgnored \/ UNCHANGED catalogSpecVars
        => UNCHANGED snapshot
  BY DEF DirStep, Tick, StartRun, PublishFrame, MarkComplete, FailRun, IntervalElapses, BeginRefresh, NotDue,
    DirectoryUnchanged, BeginScan, Scan, ScanFails, FrameIgnored, catalogSpecVars, catalogVars
<1>3. FinishRefresh => snapshot' = Cataloged(scanned) /\ Usable(Cataloged(scanned))
  BY CatalogedUsable DEF FinishRefresh, Publish, DirInv
<1>4. MarkerFails => Usable(snapshot')
  <2>1. Usable(Cataloged(scanned)) /\ DOMAIN Cataloged(scanned) = {"run", "frames", "complete"}
    BY CatalogedUsable DEF DirInv, Cataloged, NothingFound, Snapshot
  <2>2. Usable([Cataloged(scanned) EXCEPT !.complete = FALSE])
    BY <2>1 DEF Usable
  <2> QED
    BY <2>2 DEF MarkerFails, Publish
<1> QED
  BY <1>1, <1>2, <1>3, <1>4, ViewerStep DEF RefreshStep, ScanOn, Usable

----------------------------------------------------------------------------
(* The downloads. *)

(* Whatever was under way before a selection is no longer current after it. *)
LEMMA OutdatedLoads ==
  ASSUME NEW set, NEW p, NEW q, Downloads(set, p), ~q.loading
  PROVE  /\ Downloads(Outdated(set), q) /\ (Awaited(Outdated(set)) <=> Awaited(set))
         /\ \A load \in Outdated(set) : ~load.current
<1> DEFINE Old(load) == [load EXCEPT !.current = FALSE]
<1>1. \A load \in set : /\ DOMAIN Old(load) = LoadFields
                        /\ Old(load).frame = load.frame /\ Old(load).status = load.status
                        /\ Old(load).current = FALSE /\ Old(load).awaited = load.awaited
                        /\ load.awaited \in BOOLEAN
  BY DEF Downloads, LoadFields
<1>2. Outdated(set) = {Old(load) : load \in set}
  BY DEF Outdated
<1> HIDE DEF Old
<1>3. ASSUME NEW one \in Outdated(set), NEW other \in Outdated(set), one.awaited, other.awaited PROVE one = other
  <2>1. PICK l \in set, m \in set : one = Old(l) /\ other = Old(m)
    BY <1>2
  <2>2. l = m
    BY <1>1, <1>3, <2>1 DEF Downloads
  <2> QED
    BY <2>1, <2>2
<1>4. \A load \in Outdated(set) : /\ DOMAIN load = LoadFields
                                  /\ load.current = FALSE /\ load.awaited \in BOOLEAN
  <2> TAKE old \in Outdated(set)
  <2>1. PICK load \in set : old = Old(load)
    BY <1>2
  <2> QED
    BY <1>1, <2>1
<1>5. Awaited(Outdated(set)) <=> Awaited(set)
  <2>1. ASSUME NEW load \in set, load.awaited PROVE Awaited(Outdated(set))
    BY <1>1, <1>2, <2>1 DEF Awaited
  <2>2. ASSUME NEW old \in Outdated(set), old.awaited PROVE Awaited(set)
    BY <1>1, <1>2, <2>2 DEF Awaited
  <2> QED
    BY <2>1, <2>2 DEF Awaited
<1> QED
  BY <1>3, <1>4, <1>5 DEF Downloads

(* A selection makes its own download the current one. *)
LEMMA Selecting ==
  ASSUME NEW p, NEW i \in Int, NEW awaited \in BOOLEAN, NEW under, NEW held,
         Player(p), Downloads(under, p), awaited => ~Awaited(under),
         SelectFrame(p, i, awaited, under, held)
  PROVE  /\ Player(page') /\ Downloads(loads', page')
         /\ i \notin 0 .. Cardinality(p.catalog.frames) - 1 => loads' = under
         /\ i \in 0 .. Cardinality(p.catalog.frames) - 1 => (Awaited(loads') <=> awaited \/ Awaited(under))
<1>1. CASE i \notin 0 .. Cardinality(p.catalog.frames) - 1
  BY <1>1 DEF SelectFrame
<1>2. CASE i \in 0 .. Cardinality(p.catalog.frames) - 1
  <2> DEFINE f == <<p.catalog.run, FrameAt(p.catalog.frames, i)>>
             status == IF Holds(held, f) THEN "cached" ELSE "sent"
             new == Load(f, status, TRUE, awaited)
  <2>1. /\ page' = [p EXCEPT !.index = i, !.loading = TRUE, !.failed = FALSE, !.selected = f]
        /\ loads' = Outdated(under) \cup {new}
    BY <1>2 DEF SelectFrame
  <2>2. f[1] = p.catalog.run
    OBVIOUS
  <2> HIDE DEF f, status
  <2>3. /\ DOMAIN page' = PageFields /\ page'.index = i /\ page'.loading = TRUE /\ page'.selected = f
        /\ page'.runId = p.runId /\ page'.catalog = p.catalog
    BY <2>1 DEF Player, PageFields
  <2>4. Player(page')
    BY <2>2, <2>3 DEF Player
  <2>5. /\ Downloads(Outdated(under), [loading |-> FALSE]) /\ (Awaited(Outdated(under)) <=> Awaited(under))
        /\ \A load \in Outdated(under) : ~load.current
    <3>1. ~[loading |-> FALSE].loading
      OBVIOUS
    <3> QED
      BY <3>1, OutdatedLoads
  <2>6. /\ new.frame = f /\ new.current = TRUE /\ new.awaited = awaited
        /\ DOMAIN new = LoadFields
    BY DEF Load, LoadFields
  <2> HIDE DEF new
  <2>7. Awaited(loads') <=> awaited \/ Awaited(under)
    BY <2>1, <2>5, <2>6 DEF Awaited
  <2>8. \A one, other \in loads' : one.awaited /\ other.awaited => one = other
    BY <2>1, <2>5, <2>6 DEF Downloads, Awaited
  <2>9. Downloads(loads', page')
    BY <2>1, <2>3, <2>5, <2>6, <2>8 DEF Downloads
  <2> QED
    BY <1>2, <2>4, <2>7, <2>9
<1> QED
  BY <1>1, <1>2

(* An answer changes neither whether a download is current nor whether it is awaited. *)
LEMMA Answering ==
  ASSUME NEW f, NEW status, Answer(f, status), Downloads(loads, page), UNCHANGED page
  PROVE  Downloads(loads', page') /\ (Awaited(loads') <=> Awaited(loads))
<1>1. PICK load \in loads : loads' = (loads \ {load}) \cup {[load EXCEPT !.status = status]}
  BY DEF Answer
<1> DEFINE new == [load EXCEPT !.status = status]
<1>2. /\ new.frame = load.frame /\ new.current = load.current /\ new.awaited = load.awaited
      /\ DOMAIN new = LoadFields
      /\ load.current \in BOOLEAN /\ load.awaited \in BOOLEAN
  BY DEF Downloads, LoadFields
<1>3. loads' = (loads \ {load}) \cup {new}
  BY <1>1
<1> HIDE DEF new
<1> QED
  BY <1>2, <1>3 DEF Downloads, Awaited

----------------------------------------------------------------------------
(* The player's steps. *)

(* A download that ends is shown if it is the current one: then nothing is loading any more. *)
LEMMA Finishing == ASSUME PlayerInv, NEW awaited \in BOOLEAN, FinishLoad(awaited) PROVE PlayerInv'
<1> DEFINE Extra == Prefetched(cache')
<1>1. PICK load \in loads :
        /\ load.awaited = awaited
        /\ \/ ~load.current /\ loads' = loads \ {load} /\ page' = page
           \/ /\ load.current /\ loads' = loads \ {load}
              /\ page' = [page EXCEPT !.loading = FALSE, !.failed = TRUE]
           \/ /\ load.current /\ loads' = (loads \ {load}) \cup Extra
              /\ page' = [page EXCEPT !.loading = FALSE, !.shown = load.frame, !.failed = FALSE]
        /\ poll' = IF awaited THEN "timer" ELSE poll
  BY DEF FinishLoad, CurrentGeneration
<1>2. \A extra \in Extra : DOMAIN extra = LoadFields /\ extra.current = FALSE /\ extra.awaited = FALSE
  BY DEF Prefetched, Load, LoadFields
<1> HIDE DEF Extra
<1>3. Player(page) /\ Downloads(loads, page) /\ (poll = "select" <=> Awaited(loads))
  BY DEF PlayerInv
<1>4. poll' = "select" <=> Awaited(loads')
  <2>1. Awaited(loads') <=> \E other \in loads \ {load} : other.awaited
    BY <1>1, <1>2 DEF Awaited
  <2>2. CASE awaited
    BY <1>1, <1>3, <2>1, <2>2 DEF Downloads
  <2>3. CASE ~awaited
    BY <1>1, <1>3, <2>1, <2>3 DEF Awaited
  <2> QED
    BY <2>2, <2>3
<1>5. CASE ~load.current
  BY <1>1, <1>3, <1>4, <1>5 DEF Downloads, PlayerInv
<1>6. CASE load.current
  <2>1. \A other \in loads \ {load} : ~other.current
    BY <1>3, <1>6 DEF Downloads
  <2>2. page'.loading = FALSE /\ page'.selected = page.selected
    BY <1>1, <1>3, <1>6 DEF Player, PageFields
  <2>3. Downloads(loads', page')
    BY <1>1, <1>2, <1>3, <1>6, <2>1, <2>2 DEF Downloads
  <2>4. Player(page')
    <3>1. load.frame = page.selected
      BY <1>3, <1>6 DEF Downloads
    <3> QED
      BY <1>1, <1>3, <1>6, <3>1 DEF Player, PageFields
  <2> QED
    BY <1>4, <2>3, <2>4 DEF PlayerInv
<1> QED
  BY <1>5, <1>6

(* The position pollCatalog wants is one of a frame, or none. *)
LEMMA WantedFrame ==
  ASSUME Usable(answer), Player(page)
  PROVE  Wanted \in Int /\ (Wanted < 0 \/ Wanted \in 0 .. Cardinality(answer.frames) - 1)
<1> DEFINE size == Cardinality(answer.frames)
           index == Received.index
<1>1. size \in Nat /\ (size = 0 <=> answer.frames = {})
  BY FS_CardinalityType, FS_EmptySet DEF Usable
<1>2. answer.complete => size # 0
  BY <1>1 DEF Usable
<1>3. Wanted = IF answer.complete THEN IF BecameComplete \/ index < 0 \/ index >= size THEN 0 ELSE -1
               ELSE IF size - 1 # index THEN size - 1 ELSE -1
  BY DEF Wanted, Elsewhere
<1> HIDE DEF size, index
<1>4. Wanted \in {0, -1, size - 1} /\ ((Wanted = 0 /\ answer.complete) \/ Wanted = -1 \/ Wanted = size - 1)
  BY <1>3
<1>5. CASE Wanted = 0 /\ answer.complete
  BY <1>1, <1>2, <1>5 DEF size
<1>6. CASE Wanted = -1
  BY <1>6
<1>7. CASE Wanted = size - 1
  BY <1>1, <1>7 DEF size
<1> QED
  BY <1>4, <1>5, <1>6, <1>7

(* The catalog arrives: another run starts with nothing selected and no current download. *)
LEMMA Polling == ASSUME PlayerInv, Usable(answer), PollAnswered PROVE PlayerInv'
<1> DEFINE runChanged == answer.run # page.runId
           p == IF answer.complete /\ (BecameComplete \/ Received.index < 0)
                THEN [Received EXCEPT !.playing = TRUE] ELSE Received
           under == IF runChanged THEN Outdated(loads) ELSE loads
           held == IF runChanged THEN <<>> ELSE cache
<1>1. /\ SelectFrame(p, Wanted, TRUE, under, held)
      /\ poll = "answered" /\ poll' = IF Wanted < 0 THEN "timer" ELSE "select"
  BY DEF PollAnswered
<1>2. Player(page) /\ Downloads(loads, page) /\ ~Awaited(loads)
  BY <1>1 DEF PlayerInv
<1>3. /\ DOMAIN Received = PageFields /\ Received.catalog = answer /\ Received.runId = answer.run
      /\ Received.index = IF runChanged THEN -1 ELSE page.index
      /\ Received.loading = IF runChanged THEN FALSE ELSE page.loading
      /\ Received.failed = IF runChanged THEN FALSE ELSE page.failed
      /\ Received.selected = IF runChanged THEN None ELSE page.selected
      /\ Received.shown = page.shown
  BY <1>2 DEF Received, Player, PageFields
<1>4. /\ DOMAIN p = PageFields /\ p.catalog = answer /\ p.runId = answer.run
      /\ p.index = Received.index /\ p.loading = Received.loading /\ p.failed = Received.failed
      /\ p.selected = Received.selected /\ p.shown = Received.shown
  BY <1>3 DEF PageFields
<1> HIDE DEF p
<1>5. Player(p)
  <2>1. DOMAIN p = PageFields /\ p.runId = p.catalog.run /\ Usable(p.catalog)
    BY <1>4
  <2>2. CASE runChanged
    <3>1. p.index = -1
      BY <1>3, <1>4, <2>2
    <3>2. p.index \in Int /\ ~(p.index >= 0)
      BY <3>1
    <3>3. p.loading \in BOOLEAN
      BY <1>3, <1>4, <2>2
    <3> QED
      BY <2>1, <3>2, <3>3 DEF Player
  <2>3. CASE ~runChanged
    BY <1>2, <1>3, <1>4, <2>1, <2>3 DEF Player
  <2> QED
    BY <2>2, <2>3
<1>6. Downloads(under, p) /\ ~Awaited(under)
  <2>1. CASE runChanged
    BY <1>2, <1>3, <1>4, <2>1, OutdatedLoads
  <2>2. CASE ~runChanged
    BY <1>2, <1>3, <1>4, <2>2 DEF Downloads
  <2> QED
    BY <2>1, <2>2
<1> HIDE DEF under, held
<1>7. Wanted \in Int /\ (Wanted < 0 \/ Wanted \in 0 .. Cardinality(p.catalog.frames) - 1)
  BY <1>2, <1>4, WantedFrame
<1>8. /\ Player(page') /\ Downloads(loads', page')
      /\ Wanted \notin 0 .. Cardinality(p.catalog.frames) - 1 => loads' = under
      /\ Wanted \in 0 .. Cardinality(p.catalog.frames) - 1 => Awaited(loads')
  BY <1>1, <1>5, <1>6, <1>7, Selecting
<1>9. Wanted < 0 => Wanted \notin 0 .. Cardinality(p.catalog.frames) - 1
  BY <1>7
<1> QED
  BY <1>1, <1>6, <1>7, <1>8, <1>9 DEF PlayerInv

(* What the user and the loop select. *)
LEMMA Moving == ASSUME PlayerInv, Advance \/ TogglePlaying \/ MoveTimeline PROVE PlayerInv'
<1>1. Player(page) /\ Downloads(loads, page) /\ (poll = "select" <=> Awaited(loads))
  BY DEF PlayerInv
<1>2. ASSUME NEW p, NEW i \in Int, Player(p), Downloads(loads, p), SelectFrame(p, i, FALSE, loads, cache), poll' = poll
      PROVE  PlayerInv'
  <2>1. Player(page') /\ Downloads(loads', page')
    BY <1>2, Selecting
  <2>2. Awaited(loads') <=> Awaited(loads)
    BY <1>2, Selecting
  <2> QED
    BY <1>1, <1>2, <2>1, <2>2 DEF PlayerInv
<1>3. CASE Advance
  <2> DEFINE size == Cardinality(page.catalog.frames)
             i == Following(page.index, size)
  <2>1. SelectFrame(page, i, FALSE, loads, cache) /\ poll' = poll /\ size > 1
    BY <1>3 DEF Advance
  <2>2. i \in Int
    <3>1. page.index \in Int /\ size \in Nat
      BY <1>1, FS_CardinalityType DEF Player, Usable
    <3> HIDE DEF size
    <3>2. page.index + 1 \in Int /\ size \in Nat \ {0}
      BY <2>1, <3>1
    <3>3. \A a \in Int, b \in Nat \ {0} : a % b \in Int
      OBVIOUS
    <3> QED
      BY <3>2, <3>3 DEF Following
  <2> HIDE DEF i
  <2> QED
    BY <1>1, <1>2, <2>1, <2>2
<1>4. CASE TogglePlaying
  BY <1>1, <1>4 DEF TogglePlaying, PlayerInv, Player, Downloads, PageFields
<1>5. CASE MoveTimeline
  <2> DEFINE p == [page EXCEPT !.playing = FALSE]
  <2>1. PICK i \in 0 .. Cardinality(page.catalog.frames) - 1 : SelectFrame(p, i, FALSE, loads, cache)
    BY <1>5 DEF MoveTimeline
  <2>2. i \in Int /\ poll' = poll
    <3>1. Cardinality(page.catalog.frames) \in Nat
      BY <1>1, FS_CardinalityType DEF Player, Usable
    <3> QED
      BY <1>5, <3>1 DEF MoveTimeline
  <2>3. Player(p) /\ Downloads(loads, p)
    BY <1>1 DEF Player, Downloads, PageFields
  <2> HIDE DEF p
  <2> QED
    BY <1>2, <2>1, <2>2, <2>3
<1> QED
  BY <1>3, <1>4, <1>5
LEMMA PageInitially == Init => PageInv
<1> SUFFICES ASSUME Init PROVE PageInv
  OBVIOUS
<1>1. Usable(NothingFound)
  BY FS_EmptySet DEF Usable, NothingFound, Snapshot
<1>2. DirInv
  BY DEF Init, CatalogInit, DirInv
<1>3. /\ snapshot = NothingFound /\ answer = NothingFound /\ loads = {} /\ poll = "timer"
      /\ serving.kind = "none"
  BY DEF Init, CatalogInit, Idle
<1>4. Player(page)
  <2>1. /\ DOMAIN page = PageFields /\ page.catalog = NothingFound /\ page.index = -1 /\ page.runId = 0
        /\ page.loading = FALSE
    BY DEF Init, PageFields
  <2>2. -1 \in Int /\ ~(-1 >= 0) /\ NothingFound.run = 0
    BY DEF NothingFound, Snapshot
  <2> QED
    BY <1>1, <2>1, <2>2 DEF Player
<1>5. Downloads(loads, page) /\ ~Awaited(loads)
  BY <1>3 DEF Init, Downloads, Awaited
<1> QED
  BY <1>1, <1>2, <1>3, <1>4, <1>5 DEF PageInv, PlayerInv

(* The server's steps, the directory's and time's leave the player alone but for an answer. *)
LEMMA ServerStays ==
  ASSUME PlayerInv, UNCHANGED page,
         \/ UNCHANGED <<poll, loads>>
         \/ poll # "select" /\ poll' # "select" /\ UNCHANGED loads
         \/ UNCHANGED poll /\ \E f, status : Answer(f, status)
  PROVE  PlayerInv'
<1>1. CASE UNCHANGED loads
  BY <1>1 DEF PlayerInv
<1>2. CASE UNCHANGED poll /\ \E f, status : Answer(f, status)
  BY <1>2, Answering DEF PlayerInv
<1> QED
  BY <1>1, <1>2

LEMMA PlayerNext == PageInv /\ [Next]_vars => PlayerInv'
<1> SUFFICES ASSUME PageInv, [Next]_vars PROVE PlayerInv'
  OBVIOUS
<1>t. PlayerInv /\ Usable(answer) /\ (serving.kind = "catalog" => poll = "sent")
  BY DEF PageInv
<1>1. CASE UNCHANGED <<page, poll, loads>>
  BY <1>t, <1>1, ServerStays
<1>2. CASE AbortRequest \/ LoseRequest
  <2>1. RequestFails /\ UNCHANGED page
    BY <1>2 DEF AbortRequest, LoseRequest
  <2> QED
    BY <1>t, <2>1, ServerStays DEF RequestFails
<1>3. CASE ReplyCatalog \/ PollTimer
  BY <1>t, <1>3, ServerStays DEF ReplyCatalog, PollTimer
<1>4. CASE ReplyFrame
  BY <1>t, <1>4, ServerStays DEF ReplyFrame
<1>5. CASE PollAnswered
  BY <1>t, <1>5, Polling
<1>6. CASE FinishLoad(TRUE) \/ FinishLoad(FALSE)
  BY <1>t, <1>6, Finishing
<1>7. CASE UserStep \/ Advance
  BY <1>t, <1>7, Moving DEF UserStep
<1>8. AcceptCatalogRequest \/ (\E f \in Frames : AcceptFrameRequest(f)) \/ ContinueRefresh \/ UNCHANGED pageVars
        => UNCHANGED <<page, poll, loads>>
  BY DEF AcceptCatalogRequest, AcceptFrameRequest, ContinueRefresh, pageVars
<1>9. UNCHANGED vars => UNCHANGED pageVars
  BY DEF vars
<1> QED
  BY <1>1, <1>2, <1>3, <1>4, <1>5, <1>6, <1>7, <1>8, <1>9 DEF Next, ServerStep, PageStep

LEMMA AnswerNext == Usable(answer) /\ Usable(snapshot) /\ [Next]_vars => Usable(answer)'
<1> SUFFICES ASSUME Usable(answer), Usable(snapshot), [Next]_vars PROVE Usable(answer)'
  OBVIOUS
<1>1. Usable(NothingFound)
  BY FS_EmptySet DEF Usable, NothingFound, Snapshot
<1>2. answer' \in {answer, snapshot, NothingFound}
  BY DEF Next, ServerStep, AcceptCatalogRequest, AcceptFrameRequest, ContinueRefresh, AbortRequest, RequestFails,
    ReplyCatalog, ReplyFrame, PageStep, PollTimer, PollAnswered, FinishLoad, Advance, UserStep, TogglePlaying,
    MoveTimeline, LoseRequest, vars, pageVars
<1> QED
  BY <1>1, <1>2 DEF Usable

LEMMA RequestNext ==
  PlayerInv /\ (serving.kind = "catalog" => poll = "sent") /\ [Next]_vars =>
    (serving'.kind = "catalog" => poll' = "sent")
<1> SUFFICES ASSUME PlayerInv, serving.kind = "catalog" => poll = "sent", [Next]_vars, serving'.kind = "catalog"
             PROVE  poll' = "sent"
  OBVIOUS
<1>1. Idle.kind # "catalog" /\ \A f : FrameRequest(f).kind # "catalog"
  BY DEF Idle, FrameRequest
<1>2. CASE UNCHANGED <<serving, poll>>
  BY <1>2
<1>3. CASE FinishLoad(TRUE) \/ FinishLoad(FALSE)
  <2>1. UNCHANGED serving
    BY <1>3 DEF FinishLoad
  <2>2. ~FinishLoad(TRUE)
    <3>1. SUFFICES ASSUME FinishLoad(TRUE) PROVE FALSE
      OBVIOUS
    <3>2. Awaited(loads)
      BY <3>1 DEF FinishLoad, Awaited
    <3> QED
      BY <2>1, <3>2 DEF PlayerInv
  <2>3. UNCHANGED poll
    BY <1>3, <2>2 DEF FinishLoad
  <2> QED
    BY <2>1, <2>3
<1>4. CASE PollTimer
  BY <1>4 DEF PollTimer
<1>5. CASE AcceptCatalogRequest
  BY <1>5 DEF AcceptCatalogRequest
<1>6. ReplyCatalog \/ ReplyFrame \/ AbortRequest \/ LoseRequest \/ PollAnswered => FALSE
  BY <1>1 DEF ReplyCatalog, ReplyFrame, AbortRequest, LoseRequest, PollAnswered
<1>7. \A f \in Frames : AcceptFrameRequest(f) => FALSE
  BY <1>1 DEF AcceptFrameRequest
<1>8. ContinueRefresh \/ Advance \/ UserStep \/ UNCHANGED pageVars => UNCHANGED <<serving, poll>>
  BY DEF ContinueRefresh, Advance, UserStep, TogglePlaying, MoveTimeline, pageVars
<1>9. UNCHANGED vars => UNCHANGED pageVars
  BY DEF vars
<1> QED
  BY <1>2, <1>3, <1>4, <1>5, <1>6, <1>7, <1>8, <1>9 DEF Next, ServerStep, PageStep

(* The player's invariant holds whatever runs, users and faults do: it needs neither distinct *)
(* modification times nor scans that succeed. *)
THEOREM PageInvariant == Spec => []PageInv
<1>1. PageInv /\ [Next]_vars => PageInv'
  <2> SUFFICES ASSUME PageInv, [Next]_vars PROVE PageInv'
    OBVIOUS
  <2>1. DirInv /\ Usable(snapshot) /\ Usable(answer) /\ PlayerInv /\ (serving.kind = "catalog" => poll = "sent")
    BY DEF PageInv
  <2>2. DirInv' /\ Usable(snapshot)' /\ Usable(answer)'
    BY <2>1, TimesNext, SnapshotNext, AnswerNext
  <2>3. PlayerInv' /\ (serving'.kind = "catalog" => poll' = "sent")
    BY <2>1, PlayerNext, RequestNext
  <2> QED
    BY <2>2, <2>3 DEF PageInv
<1> QED
  BY <1>1, PageInitially, PTL DEF Spec

(* A download that ends late, of an earlier selection or another run, is never shown: loadGeneration *)
(* is compared after every await of selectFrame. *)
THEOREM Shown == Spec => []ShowsSelected
<1>1. PageInv => ShowsSelected
  BY DEF PageInv, PlayerInv, Player, ShowsSelected
<1> QED
  BY <1>1, PageInvariant, PTL

(* selectFrame always returns to the player that waits for it: no flag says that something is *)
(* loading, and pollCatalog awaits nothing, when there is no download behind it. *)
THEOREM Backed == Spec => []LoadingIsBacked
<1>1. PageInv => LoadingIsBacked
  BY DEF PageInv, PlayerInv, Downloads, Awaited, LoadingIsBacked
<1> QED
  BY <1>1, PageInvariant, PTL
=============================================================================

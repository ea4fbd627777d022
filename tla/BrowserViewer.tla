---------------------------- MODULE BrowserViewer ----------------------------
(***************************************************************************)
(* The browser viewer: its single-threaded HTTP server in front of the     *)
(* catalog (FrameCatalog) and the player in the page (web/app.js).  The    *)
(* player polls the catalog; it follows the newest frame of a run and,     *)
(* once the run is complete, loops over its frames.  Selecting a frame     *)
(* starts a download, unless the page has the frame in its cache; a        *)
(* download of an earlier selection may still be under way and must not be *)
(* shown.                                                                  *)
(***************************************************************************)
EXTENDS FrameCatalog, Sequences

CONSTANTS
  CacheLimit,     \* FRAME_CACHE_LIMIT
  MaxFetchFaults, \* bound: requests that fail on the way
  MaxMoves        \* bound: how often the user moves the timeline
ASSUME ViewerAssumption == CacheLimit \in Nat \ {0} /\ MaxFetchFaults \in Nat /\ MaxMoves \in Nat

VARIABLES
  serving,  \* the request the server is working on
  poll,     \* pollCatalog: "timer", "sent", "answered", "select" (awaits selectFrame)
  answer,   \* the catalog on its way back to the page
  page,     \* the page's state object
  loads,    \* frame downloads under way
  cache,    \* state.cache: the frames it holds, the least recently used first
  faults,   \* requests that have failed on the way
  moves     \* how often the user has moved the timeline

pageVars == <<serving, poll, answer, page, loads, cache, faults, moves>>
vars == <<catalogSpecVars, pageVars>>

None == <<0, 0>>
Idle == [kind |-> "none", frame |-> None]
CatalogRequest == [kind |-> "catalog", frame |-> None]
FrameRequest(f) == [kind |-> "frame", frame |-> f]

\* A download: its frame, the server's answer if any ("cached": none was needed), whether
\* its generation is still the current one, and whether pollCatalog awaits it.
Load(f, status, current, awaited) ==
  [frame |-> f, status |-> status, current |-> current, awaited |-> awaited]

Init ==
  /\ CatalogInit
  /\ serving = Idle
  /\ poll = "timer"
  /\ answer = NothingFound
  /\ page = [catalog |-> NothingFound, index |-> -1, runId |-> 0, loading |-> FALSE,
             playing |-> TRUE, completionSeen |-> FALSE, shown |-> None, selected |-> None,
             failed |-> FALSE]
  /\ loads = {}
  /\ cache = <<>>
  /\ faults = 0
  /\ moves = 0

----------------------------------------------------------------------------
(* The server answers one request after the other. *)

\* A catalog or a frame request is accepted, and refreshes the catalog if need be.
AcceptCatalogRequest ==
  /\ serving = Idle
  /\ poll = "sent"
  /\ serving' = CatalogRequest
  /\ BeginRefresh
  /\ UNCHANGED <<poll, answer, page, loads, cache, faults, moves>>

AcceptFrameRequest(f) ==
  /\ serving = Idle
  /\ \E load \in loads : load.frame = f /\ load.status = "sent"
  /\ serving' = FrameRequest(f)
  /\ BeginRefresh
  /\ UNCHANGED <<poll, answer, page, loads, cache, faults, moves>>

ContinueRefresh ==
  /\ serving # Idle
  /\ ScanOn
  /\ UNCHANGED pageVars

\* The answer of the server, or its absence, reaches a download of the frame.
Answer(f, status) ==
  \E load \in loads :
    /\ load.frame = f /\ load.status = "sent"
    /\ loads' = (loads \ {load}) \cup {[load EXCEPT !.status = status]}

\* The request fails: the page will see an error.
RequestFails ==
  \/ serving.kind = "catalog" /\ poll' = "timer" /\ UNCHANGED <<answer, loads>>
  \/ serving.kind = "frame" /\ Answer(serving.frame, "failed") /\ UNCHANGED <<poll, answer>>

\* An exception of the refresh ends the request without an answer.
AbortRequest ==
  /\ serving # Idle
  /\ ScanFails
  /\ RequestFails
  /\ serving' = Idle
  /\ UNCHANGED <<page, cache, faults, moves>>

ReplyCatalog ==
  /\ serving.kind = "catalog" /\ phase = "idle"
  /\ answer' = snapshot
  /\ poll' = "answered"
  /\ serving' = Idle
  /\ UNCHANGED <<catalogSpecVars, page, loads, cache, faults, moves>>

\* findFrame looks the name up in the snapshot: 404 when it is not there.
Listed(f) == f[1] = snapshot.run /\ f[2] \in snapshot.frames

ReplyFrame ==
  /\ serving.kind = "frame" /\ phase = "idle"
  /\ Answer(serving.frame, IF Listed(serving.frame) THEN "ok" ELSE "failed")
  /\ serving' = Idle
  /\ UNCHANGED <<catalogSpecVars, poll, answer, page, cache, faults, moves>>

\* The connection or the tunnel fails while the request is served.
LoseRequest ==
  /\ serving # Idle /\ phase = "idle"
  /\ faults < MaxFetchFaults /\ faults' = faults + 1
  /\ RequestFails
  /\ serving' = Idle
  /\ UNCHANGED <<catalogSpecVars, page, cache, moves>>

----------------------------------------------------------------------------
(* The page *)

\* The sequence number at a position of the sorted frame list.
FrameAt(frames, i) ==
  CHOOSE k \in frames : Cardinality({j \in frames : j < k}) = i

\* Mutant: the generation is not advanced.
StillCurrent(set) == set
\* ++state.loadGeneration: downloads under way are no longer current.
Outdated(set) == {[load EXCEPT !.current = FALSE] : load \in set}

\* touchCache on a cache: the frame becomes the most recently used, the oldest is evicted.
Touched(held, f) ==
  LET touched == Append(SelectSeq(held, LAMBDA g : g # f), f)
  IN IF Len(touched) > CacheLimit THEN Tail(touched) ELSE touched
Holds(held, f) == \E i \in 1 .. Len(held) : held[i] = f

\* selectFrame(i) up to its await, on the page state p, the downloads under way and the
\* cache: nothing for an index out of range.
SelectFrame(p, i, awaited, under, held) ==
  IF i \notin 0 .. Cardinality(p.catalog.frames) - 1
  THEN page' = p /\ loads' = under /\ cache' = held
  ELSE LET f == <<p.catalog.run, FrameAt(p.catalog.frames, i)>>
       IN /\ page' = [p EXCEPT !.index = i, !.loading = TRUE, !.failed = FALSE, !.selected = f]
          /\ loads' = Outdated(under)
                \cup {Load(f, IF Holds(held, f) THEN "cached" ELSE "sent", TRUE, awaited)}
          /\ cache' = IF Holds(held, f) THEN Touched(held, f) ELSE held

PollTimer ==
  /\ poll = "timer"
  /\ poll' = "sent"
  /\ UNCHANGED <<catalogSpecVars, serving, answer, page, loads, cache, faults, moves>>

\* The catalog replaces the page's; another run resets the player.
Received ==
  LET runChanged == answer.run # page.runId IN
  [page EXCEPT !.catalog = answer,
     !.runId = answer.run,
     !.index = IF runChanged THEN -1 ELSE @,
     !.loading = IF runChanged THEN FALSE ELSE @,
     !.failed = IF runChanged THEN FALSE ELSE @,
     !.selected = IF runChanged THEN None ELSE @,
     !.completionSeen = answer.complete \/ (@ /\ ~runChanged)]

BecameComplete ==
  answer.complete /\ (~page.completionSeen \/ answer.run # page.runId)

\* Mutant: a live run's frame is selected only once.
OnlyFirst(position) == Received.index < 0
\* newestIndex !== state.currentIndex
Elsewhere(position) == position # Received.index

\* The position pollCatalog selects next, -1 for none: the beginning of a run that has
\* become complete, the newest frame of one that has not.
Wanted ==
  LET size == Cardinality(answer.frames) IN
  IF answer.complete
  THEN IF BecameComplete \/ Received.index < 0 \/ Received.index >= size THEN 0 ELSE -1
  ELSE IF Elsewhere(size - 1) THEN size - 1 ELSE -1

\* pollCatalog from the response to its end, or to the await of selectFrame.
PollAnswered ==
  /\ poll = "answered"
  /\ LET p == IF answer.complete /\ (BecameComplete \/ Received.index < 0)
              THEN [Received EXCEPT !.playing = TRUE] ELSE Received
         runChanged == answer.run # page.runId
     IN /\ SelectFrame(p, Wanted, TRUE, IF runChanged THEN Outdated(loads) ELSE loads,
                       IF runChanged THEN <<>> ELSE cache)
        /\ poll' = IF Wanted < 0 THEN "timer" ELSE "select"
  /\ answer' = NothingFound
  /\ UNCHANGED <<catalogSpecVars, serving, faults, moves>>

\* Mutant: the generation is not compared after the await.
AnyGeneration(load) == TRUE
\* generation === state.loadGeneration
CurrentGeneration(load) == load.current

\* Mutant: the loop stops at the last frame.
StopAtEnd(i, size) == IF i + 1 < size THEN i + 1 ELSE i
Following(i, size) == (i + 1) % size

\* While a run is looped, the frame after the one shown is fetched ahead.
Prefetched(held) ==
  LET size == Cardinality(page.catalog.frames)
      next == <<page.runId, FrameAt(page.catalog.frames, Following(page.index, size))>>
  IN IF page.catalog.complete /\ size > 1 /\ ~Holds(held, next)
     THEN {Load(next, "sent", FALSE, FALSE)} ELSE {}

\* fetchFrame has its answer: what it downloaded enters the cache.  selectFrame after its
\* await: the frame is shown, or the error, unless another selection has been made.  The
\* one pollCatalog awaits ends the poll.
FinishLoad(awaited) ==
  /\ \E load \in loads :
       /\ load.awaited = awaited
       /\ load.status # "sent"
       /\ cache' = IF load.status = "ok" THEN Touched(cache, load.frame) ELSE cache
       /\ IF ~CurrentGeneration(load)
          THEN loads' = loads \ {load} /\ page' = page
          ELSE IF load.status = "failed"
          THEN loads' = loads \ {load} /\ page' = [page EXCEPT !.loading = FALSE, !.failed = TRUE]
          ELSE /\ loads' = (loads \ {load}) \cup Prefetched(cache')
               /\ page' = [page EXCEPT !.loading = FALSE, !.shown = load.frame, !.failed = FALSE]
       /\ poll' = IF awaited THEN "timer" ELSE poll
  /\ UNCHANGED <<catalogSpecVars, serving, answer, faults, moves>>

\* animationFrame advances the loop when the previous frame has been loaded.
Advance ==
  /\ page.catalog.complete /\ page.playing /\ ~page.loading
  /\ Cardinality(page.catalog.frames) > 1
  /\ SelectFrame(page, Following(page.index, Cardinality(page.catalog.frames)), FALSE, loads, cache)
  /\ UNCHANGED <<catalogSpecVars, serving, poll, answer, faults, moves>>

\* The user plays or pauses.
TogglePlaying ==
  /\ page.catalog.complete
  /\ page' = [page EXCEPT !.playing = ~@]
  /\ UNCHANGED <<catalogSpecVars, serving, poll, answer, loads, cache, faults, moves>>

\* The user moves the timeline.
MoveTimeline ==
  /\ page.catalog.complete
  /\ moves < MaxMoves /\ moves' = moves + 1
  /\ \E i \in 0 .. Cardinality(page.catalog.frames) - 1 :
       SelectFrame([page EXCEPT !.playing = FALSE], i, FALSE, loads, cache)
  /\ UNCHANGED <<catalogSpecVars, serving, poll, answer, faults>>

----------------------------------------------------------------------------
ServerStep ==
  \/ AcceptCatalogRequest \/ \E f \in Frames : AcceptFrameRequest(f)
  \/ ContinueRefresh \/ AbortRequest \/ ReplyCatalog \/ ReplyFrame
PageStep == PollTimer \/ PollAnswered \/ FinishLoad(TRUE) \/ FinishLoad(FALSE) \/ Advance
UserStep == TogglePlaying \/ MoveTimeline

Next ==
  \/ (DirStep \/ IntervalElapses) /\ UNCHANGED pageVars
  \/ ServerStep
  \/ PageStep
  \/ UserStep
  \/ LoseRequest

Spec == Init /\ [][Next]_vars

\* The server, the page's event loop and time go on; runs, users and faults need not.
\* The listening socket queues connections first come, first served: none waits for ever.
FairSpec ==
  /\ Spec
  /\ WF_vars(IntervalElapses /\ UNCHANGED pageVars)
  /\ WF_vars(ServerStep)
  /\ SF_vars(AcceptCatalogRequest) /\ \A f \in Frames : SF_vars(AcceptFrameRequest(f))
  /\ WF_vars(PollTimer) /\ WF_vars(PollAnswered) /\ WF_vars(Advance)
  /\ WF_vars(FinishLoad(TRUE)) /\ WF_vars(FinishLoad(FALSE))

----------------------------------------------------------------------------
(* Properties *)

TypeOK ==
  /\ CatalogTypeOK
  /\ serving \in {Idle, CatalogRequest} \cup {FrameRequest(f) : f \in Frames}
  /\ poll \in {"timer", "sent", "answered", "select"}
  /\ page.shown \in Frames \cup {None}
  /\ page.index \in {-1} \cup {f[2] : f \in Frames}
  /\ loads \subseteq [frame : Frames, status : {"sent", "cached", "ok", "failed"},
                      current : BOOLEAN, awaited : BOOLEAN]
  /\ cache \in Seq(Frames) /\ Len(cache) <= CacheLimit
  /\ faults \in 0 .. MaxFetchFaults /\ moves \in 0 .. MaxMoves

\* When nothing is loading, what is on the screen is what was selected last, in the run
\* the page is in: no late download of an earlier selection, or of another run, is shown.
ShowsSelected ==
  ~page.loading /\ ~page.failed /\ page.index >= 0 =>
    page.shown = page.selected /\ page.shown[1] = page.runId

\* The player cannot hang in selectFrame: while it says it is loading, a current download
\* is under way, and while pollCatalog awaits selectFrame there is one it awaits.
LoadingIsBacked ==
  /\ page.loading <=> \E load \in loads : load.current
  /\ poll = "select" <=> \E load \in loads : load.awaited

\* Run r is complete and has the newest frame.
CompletedRun(r) == sim[r] = "complete" /\ Files # {} /\ NewestRun(Files) = r

\* "A successful simulator run publishes run-<id>.complete, which tells the browser viewer
\* to switch to loop playback": the page learns that the run is complete.
CompletionNoticed ==
  \A r \in Runs :
    CompletedRun(r) ~> ((page.catalog.complete /\ page.runId = r) \/ ~CompletedRun(r))

\* ... and then shows every frame of the run over and over, unless the user pauses.
LoopsOverAllFrames ==
  \A f \in Frames :
    (CompletedRun(f[1]) /\ produced[f[1]] > 1 /\ f \in Files)
      ~> (page.shown = f \/ ~page.playing \/ ~CompletedRun(f[1]))

\* The viewer "displays the newest completed frame while the run is active": the newest
\* frame is shown, unless another is published or the run becomes complete before.
Newest(f) == f \in Files /\ \A g \in Files \ {f} : LaterFrame(f, g)
ActiveNewest(f) == Newest(f) /\ sim[f[1]] \in {"running", "failed"}
FollowsNewest ==
  \A f \in Frames : ActiveNewest(f) ~> (page.shown = f \/ ~ActiveNewest(f))
=============================================================================
